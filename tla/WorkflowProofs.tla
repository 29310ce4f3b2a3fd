---------------------------- MODULE WorkflowProofs ----------------------------
(***************************************************************************)
(* The properties of Workflow for any inputs, snapshots and number of      *)
(* requests in flight.                                                     *)
(*                                                                         *)
(* Types need to know which calls carry a complete link (CallsFit); the    *)
(* other parts of the invariant are each kept by every action by           *)
(* themselves.                                                             *)
(***************************************************************************)
EXTENDS Workflow, TLAPS

\* A request to restore or to shorten names a link, one to generate has rows.
CallFits(call) ==
  /\ call.op \in {"restore", "shorten", "shorten_generated"} =>
       [input |-> call.input, snap |-> call.snap] \in Links
  /\ call.op = "generate" => call.snap \in Snaps

CallsFit == \A s \in Slots : calls[s] # NoCall => CallFits(calls[s])

\* What is offered for generation, whether or not one is under way.
OfferFits ==
  snap # NoSnap /\ ~stale /\ restored # "conflicted" =>
    catalog # NoCatalog /\ (catalog = input \/ outrun)

WellTyped == TypeOK /\ CallsFit

IInv ==
  /\ WellTyped
  /\ ControlsBusyInFlight
  /\ OnlyLateAnswersMislead
  /\ OfferFits

-----------------------------------------------------------------------------
(* What the five user interfaces agree on: a control whose handler sends a  *)
(* request is off while such a request is under way.                        *)

LEMMA Offered ==
  ASSUME scheme \in Schemes
  PROVE  /\ Offers1("convert") => "convert" \notin busy
         /\ Offers2("reset stage 2") => "reset" \notin busy
         /\ Offers2("generate") => CanGenerate
         /\ Offers3("restore") => "restore" \notin busy /\ linkInput # NoLink
         /\ Offers3("prefer") => "shorten" \notin busy
<1>. USE DEF Offers1, Offers2, Offers3, Stage1Of, Stage2Of, Stage3Of, When
<1>1. CASE scheme = "default"
  BY <1>1 DEF DefaultStage1, DefaultStage2, DefaultStage3
<1>2. CASE scheme = "b1"
  BY <1>2 DEF B1Stage1, B1Stage2, B1Stage3
<1>3. CASE scheme = "b2"
  BY <1>3 DEF B2Stage1, B2Stage2, B2Stage3
<1>4. CASE scheme = "c1"
  BY <1>4 DEF C1Stage1, C1Stage2, C1Stage3
<1>5. CASE scheme = "c2"
  BY <1>5 DEF C2Stage1, C2Stage2, C2Stage3
<1>. QED
  BY <1>1, <1>2, <1>3, <1>4, <1>5 DEF Schemes

-----------------------------------------------------------------------------
(* How the actions change the calls, and what they show *)

LEMMA Starts ==
  ASSUME WellTyped, NEW op \in Controls, NEW i \in Inputs, NEW n \in Snaps \cup {NoSnap},
         NEW b \in BOOLEAN, Begin(op, i, n, b),
         CallFits([op |-> op, input |-> i, snap |-> n, short |-> b])
  PROVE  /\ calls' \in [Slots -> Call \cup {NoCall}] /\ CallsFit'
         /\ \E s \in Slots :
              /\ calls[s] = NoCall /\ calls'[s] # NoCall /\ calls'[s].op = op
              /\ \A t \in Slots \ {s} : calls'[t] = calls[t]
<1>. DEFINE call == [op |-> op, input |-> i, snap |-> n, short |-> b]
<1>1. PICK s \in Slots : calls[s] = NoCall /\ calls' = [calls EXCEPT ![s] = call]
  BY DEF Begin, InFlight
<1>2. call \in Call /\ call # NoCall /\ call.op = op /\ CallFits(call)
  BY ConstantsAssumption DEF Call
<1>. HIDE DEF call
<1>3. /\ calls'[s] = call
      /\ \A t \in Slots \ {s} : calls'[t] = calls[t]
      /\ calls' \in [Slots -> Call \cup {NoCall}]
  BY <1>1, <1>2 DEF WellTyped, TypeOK
<1>4. CallsFit'
  BY <1>2, <1>3 DEF WellTyped, CallsFit
<1>. QED
  BY <1>1, <1>2, <1>3, <1>4

LEMMA Ends ==
  ASSUME WellTyped, NEW s \in Slots, NEW controls, End(s, controls)
  PROVE  /\ calls' \in [Slots -> Call \cup {NoCall}] /\ CallsFit'
         /\ busy' \subseteq Controls /\ busy' = busy \ controls
         /\ calls'[s] = NoCall /\ \A t \in Slots \ {s} : calls'[t] = calls[t]
<1>1. /\ calls' \in [Slots -> Call \cup {NoCall}]
      /\ calls'[s] = NoCall /\ \A t \in Slots \ {s} : calls'[t] = calls[t]
      /\ busy' \subseteq Controls /\ busy' = busy \ controls
  BY DEF End, WellTyped, TypeOK
<1>2. CallsFit'
  BY <1>1 DEF WellTyped, CallsFit
<1>. QED
  BY <1>1, <1>2

LEMMA Shows ==
  ASSUME NEW link \in Links, NEW short \in BOOLEAN, Show(link, short)
  PROVE  /\ urls' \in Urls /\ urls'.link = link /\ urls'.short = short
         /\ linkInput' \in LinkTexts /\ expired' = FALSE /\ misled' \in BOOLEAN
         /\ misled' <=> link # [input |-> input', snap |-> snap']
         /\ linkInput' = [link |-> link, form |-> IF short THEN "short" ELSE "long"]
BY DEF Show, Urls, LinkTexts

\* What the field shows when the short form is switched on or off.
LEMMA Displays ==
  ASSUME TypeOK, NEW short \in BOOLEAN
  PROVE  Displayed(short) \in LinkTexts \cup {NoLink}
BY DEF TypeOK, Displayed, LinkTexts, Urls

LEMMA CallTyped ==
  ASSUME WellTyped, NEW s \in Slots, calls[s] # NoCall
  PROVE  /\ calls[s].op \in Controls \cup {"shorten_generated"} /\ calls[s].input \in Inputs
         /\ calls[s].snap \in Snaps \cup {NoSnap} /\ calls[s].short \in BOOLEAN
         /\ CallFits(calls[s])
BY DEF WellTyped, TypeOK, CallsFit, Call

\* The calls that carry a link.
LEMMA LinkTyped ==
  ASSUME WellTyped, NEW s \in Slots
  PROVE  /\ IsCall(s, {"restore", "shorten", "shorten_generated"}) => LinkOf(s) \in Links
         /\ IsCall(s, {"generate"}) /\ calls[s].input # Blank => LinkOf(s) \in Links
<1>1. IsCall(s, {"restore", "shorten", "shorten_generated"}) => LinkOf(s) \in Links
  BY CallTyped DEF IsCall, CallFits, LinkOf
<1>2. IsCall(s, {"generate"}) /\ calls[s].input # Blank => LinkOf(s) \in Links
  BY CallTyped DEF IsCall, CallFits, LinkOf, Links
<1>. QED
  BY <1>1, <1>2

-----------------------------------------------------------------------------
(* Types *)

LEMMA NextTyped == WellTyped /\ [Next]_vars => WellTyped'
<1>. SUFFICES ASSUME WellTyped, [Next]_vars PROVE WellTyped'
  OBVIOUS
<1>. USE DEF WellTyped
<1>0. scheme' \in Schemes /\ menu' \in BOOLEAN
  BY DEF Next, Menus, OpenMenu, CloseMenu, PickFromMenu, vars, TypeOK
<1>. USE <1>0
<1>1. ASSUME NEW i \in Inputs, EditInput(i) PROVE WellTyped'
  BY <1>1 DEF EditInput, Expire, TypeOK, CallsFit
<1>2. ASSUME NEW n \in Snaps, ChangeStage2(n) PROVE WellTyped'
  BY <1>2 DEF ChangeStage2, Expire, TypeOK, CallsFit
<1>3. ASSUME NEW text \in Typeable \cup {NoLink}, TypeLink(text) PROVE WellTyped'
  BY <1>3, ConstantsAssumption DEF TypeLink, page, TypeOK, CallsFit
<1>4. CASE Convert
  <2>1. CallFits([op |-> "convert", input |-> input, snap |-> NoSnap, short |-> FALSE])
    BY DEF CallFits
  <2>2. calls' \in [Slots -> Call \cup {NoCall}] /\ CallsFit'
    BY <1>4, <2>1, Starts DEF Convert, Controls, TypeOK
  <2>. QED
    BY <1>4, <2>2 DEF Convert, page, output, TypeOK, Controls
<1>5. CASE Reset
  <2>1. CallFits([op |-> "reset", input |-> input, snap |-> NoSnap, short |-> FALSE])
    BY DEF CallFits
  <2>2. calls' \in [Slots -> Call \cup {NoCall}] /\ CallsFit'
    BY <1>5, <2>1, Starts DEF Reset, Controls, TypeOK
  <2>. QED
    BY <1>5, <2>2 DEF Reset, page, output, TypeOK, Controls
<1>6. CASE Restore
  <2>. DEFINE l == linkInput.link
              b == linkInput.form = "short"
  <2>1. l \in Links /\ b \in BOOLEAN
    BY <1>6, Offered DEF Restore, TypeOK, LinkTexts
  <2>2. /\ l.input \in Inputs /\ l.snap \in Snaps
        /\ CallFits([op |-> "restore", input |-> l.input, snap |-> l.snap, short |-> b])
    BY <2>1 DEF Links, CallFits
  <2>3. Begin("restore", l.input, l.snap, b)
    BY <1>6 DEF Restore
  <2>. HIDE DEF l, b
  <2>4. calls' \in [Slots -> Call \cup {NoCall}] /\ CallsFit'
    BY <2>1, <2>2, <2>3, Starts DEF Controls
  <2>. QED
    BY <1>6, <2>4 DEF Restore, page, TypeOK, Controls
<1>7. CASE Generate
  <2>1. /\ snap \in Snaps
        /\ CallFits([op |-> "generate", input |-> input, snap |-> snap, short |-> prefer])
    BY <1>7, Offered DEF Generate, CanGenerate, TypeOK, CallFits
  <2>2. calls' \in [Slots -> Call \cup {NoCall}] /\ CallsFit'
    BY <1>7, <2>1, Starts DEF Generate, Controls, TypeOK
  <2>. QED
    BY <1>7, <2>2 DEF Generate, page, output, TypeOK, Controls
<1>8. CASE PreferLong
  <2>1. linkInput' \in LinkTexts \cup {NoLink} /\ prefer' \in BOOLEAN
    BY <1>8, Displays DEF PreferLong, RequiresShort
  <2>. QED
    BY <1>8, <2>1 DEF PreferLong, page, TypeOK, CallsFit
<1>9. CASE PreferShort
  <2>1. linkInput' \in LinkTexts \cup {NoLink}
    BY <1>9, Displays DEF PreferShort
  <2>. QED
    BY <1>9, <2>1 DEF PreferShort, page, TypeOK, CallsFit
<1>10. CASE Shorten
  <2>. DEFINE l == urls.link
  <2>1. l \in Links
    BY <1>10 DEF Shorten, TypeOK, Urls
  <2>2. /\ l.input \in Inputs /\ l.snap \in Snaps
        /\ CallFits([op |-> "shorten", input |-> l.input, snap |-> l.snap, short |-> TRUE])
    BY <2>1 DEF Links, CallFits
  <2>3. Begin("shorten", l.input, l.snap, TRUE)
    BY <1>10 DEF Shorten
  <2>. HIDE DEF l
  <2>4. calls' \in [Slots -> Call \cup {NoCall}] /\ CallsFit'
    BY <2>2, <2>3, Starts DEF Controls
  <2>. QED
    BY <1>10, <2>4 DEF Shorten, page, TypeOK, Controls
<1>11. ASSUME NEW s \in Slots, Converted(s) PROVE WellTyped'
  <2>1. calls' \in [Slots -> Call \cup {NoCall}] /\ CallsFit' /\ busy' \subseteq Controls
    BY <1>11, Ends DEF Converted
  <2>2. calls[s].input \in Inputs
    BY <1>11, CallTyped DEF Converted, IsCall
  <2>. QED
    BY <1>11, <2>1, <2>2 DEF Converted, TypeOK
<1>12. ASSUME NEW s \in Slots, ConversionFails(s) PROVE WellTyped'
  <2>1. calls' \in [Slots -> Call \cup {NoCall}] /\ CallsFit' /\ busy' \subseteq Controls
    BY <1>12, Ends DEF ConversionFails
  <2>. QED
    BY <1>12, <2>1 DEF ConversionFails, page, output, TypeOK
<1>13. ASSUME NEW s \in Slots, NEW n \in Snaps \cup {NoSnap}, NEW c \in Inputs \cup {NoCatalog},
              IsCall(s, {"restore"}), RestoredPage(s, n), catalog' = c,
              restored' \in {"replayable", "conflicted"}
       PROVE  WellTyped'
  <2>1. calls' \in [Slots -> Call \cup {NoCall}] /\ CallsFit' /\ busy' \subseteq Controls
    BY <1>13, Ends DEF RestoredPage
  <2>2. calls[s].input \in Inputs /\ calls[s].short \in BOOLEAN /\ LinkOf(s) \in Links
    BY <1>13, CallTyped, LinkTyped DEF IsCall
  <2>3. urls' \in Urls /\ linkInput' \in LinkTexts /\ expired' = FALSE /\ misled' \in BOOLEAN
    BY <1>13, <2>2, Shows DEF RestoredPage
  <2>. QED
    BY <1>13, <2>1, <2>2, <2>3 DEF RestoredPage, TypeOK
<1>14. ASSUME NEW s \in Slots, RestoredReplayable(s) PROVE WellTyped'
  <2>1. calls[s].input \in Inputs /\ calls[s].snap \in Snaps \cup {NoSnap}
    BY <1>14, CallTyped DEF RestoredReplayable, IsCall
  <2>. QED
    BY <1>13, <1>14, <2>1 DEF RestoredReplayable
<1>15. ASSUME NEW s \in Slots, RestoredConflicted(s) PROVE WellTyped'
  <2>1. calls[s].snap \in Snaps \cup {NoSnap}
    BY <1>15, CallTyped DEF RestoredConflicted, IsCall
  <2>. QED
    BY <1>13, <1>15, <2>1 DEF RestoredConflicted
<1>16. ASSUME NEW s \in Slots, RestoreFails(s) PROVE WellTyped'
  <2>1. calls' \in [Slots -> Call \cup {NoCall}] /\ CallsFit' /\ busy' \subseteq Controls
    BY <1>16, Ends DEF RestoreFails
  <2>. QED
    BY <1>16, <2>1 DEF RestoreFails, page, TypeOK
<1>17. ASSUME NEW s \in Slots, GeneratedLong(s) PROVE WellTyped'
  <2>1. calls' \in [Slots -> Call \cup {NoCall}] /\ CallsFit' /\ busy' \subseteq Controls
    BY <1>17, Ends DEF GeneratedLong
  <2>2. urls' \in Urls /\ linkInput' \in LinkTexts /\ expired' = FALSE /\ misled' \in BOOLEAN
    BY <1>17, LinkTyped, Shows DEF GeneratedLong
  <2>. QED
    BY <1>17, <2>1, <2>2 DEF GeneratedLong, page, TypeOK
<1>18. ASSUME NEW s \in Slots, GeneratedToShorten(s) PROVE WellTyped'
  <2>1. calls[s] \in Call /\ calls[s] # NoCall /\ LinkOf(s) \in Links
    BY <1>18, LinkTyped DEF GeneratedToShorten, IsCall, TypeOK
  <2>. DEFINE call == [calls[s] EXCEPT !.op = "shorten_generated"]
  <2>2. call \in Call /\ CallFits(call)
    BY <2>1 DEF Call, CallFits, LinkOf
  <2>3. calls' = [calls EXCEPT ![s] = call]
    BY <1>18 DEF GeneratedToShorten
  <2>. HIDE DEF call
  <2>4. calls' \in [Slots -> Call \cup {NoCall}] /\ CallsFit'
    BY <2>2, <2>3 DEF TypeOK, CallsFit
  <2>. QED
    BY <1>18, <2>4 DEF GeneratedToShorten, page, output, TypeOK, Controls
<1>19. ASSUME NEW s \in Slots, GenerateFails(s) PROVE WellTyped'
  <2>1. calls' \in [Slots -> Call \cup {NoCall}] /\ CallsFit' /\ busy' \subseteq Controls
    BY <1>19, Ends DEF GenerateFails
  <2>. QED
    BY <1>19, <2>1 DEF GenerateFails, page, output, TypeOK
<1>20. ASSUME NEW s \in Slots, GeneratedShort(s) PROVE WellTyped'
  <2>1. calls' \in [Slots -> Call \cup {NoCall}] /\ CallsFit' /\ busy' \subseteq Controls
    BY <1>20, Ends DEF GeneratedShort
  <2>2. LinkOf(s) \in Links
    BY <1>20, LinkTyped DEF GeneratedShort, IsCall
  <2>3. urls' \in Urls /\ linkInput' \in LinkTexts /\ expired' = FALSE /\ misled' \in BOOLEAN
    BY <1>20, <2>2, Shows DEF GeneratedShort
  <2>. QED
    BY <1>20, <2>1, <2>3 DEF GeneratedShort, page, TypeOK
<1>21. ASSUME NEW s \in Slots, GeneratedShortFails(s) PROVE WellTyped'
  <2>1. calls' \in [Slots -> Call \cup {NoCall}] /\ CallsFit' /\ busy' \subseteq Controls
    BY <1>21, Ends DEF GeneratedShortFails
  <2>2. LinkOf(s) \in Links /\ prefer' \in BOOLEAN
    BY <1>21, LinkTyped DEF GeneratedShortFails, IsCall
  <2>3. CASE LinkOf(s) \in Oversized
    BY <1>21, <2>1, <2>2, <2>3 DEF GeneratedShortFails, page, TypeOK
  <2>4. CASE LinkOf(s) \notin Oversized
    <3>1. urls' \in Urls /\ linkInput' \in LinkTexts /\ expired' = FALSE /\ misled' \in BOOLEAN
      BY <1>21, <2>2, <2>4, Shows DEF GeneratedShortFails
    <3>. QED
      BY <1>21, <2>1, <2>2, <3>1 DEF GeneratedShortFails, page, TypeOK
  <2>. QED
    BY <2>3, <2>4
<1>22. ASSUME NEW s \in Slots, Shortened(s) PROVE WellTyped'
  <2>1. calls' \in [Slots -> Call \cup {NoCall}] /\ CallsFit' /\ busy' \subseteq Controls
    BY <1>22, Ends DEF Shortened
  <2>2. LinkOf(s) \in Links
    BY <1>22, LinkTyped DEF Shortened, IsCall
  <2>3. urls' \in Urls /\ linkInput' \in LinkTexts /\ expired' = FALSE /\ misled' \in BOOLEAN
    BY <1>22, <2>2, Shows DEF Shortened
  <2>. QED
    BY <1>22, <2>1, <2>3 DEF Shortened, page, TypeOK
<1>23. ASSUME NEW s \in Slots, ShortenFails(s) PROVE WellTyped'
  <2>1. calls' \in [Slots -> Call \cup {NoCall}] /\ CallsFit' /\ busy' \subseteq Controls
    BY <1>23, Ends DEF ShortenFails
  <2>. QED
    BY <1>23, <2>1 DEF ShortenFails, page, TypeOK
<1>24. CASE UNCHANGED vars
  BY <1>24 DEF vars, page, output, TypeOK, CallsFit
<1>25. CASE User
  BY <1>1, <1>2, <1>3, <1>4, <1>5, <1>6, <1>7, <1>8, <1>9, <1>10, <1>25, ConstantsAssumption
     DEF User, ResetInput, EditStage2
<1>26. ASSUME NEW s \in Slots, Server(s) PROVE WellTyped'
  BY <1>11, <1>12, <1>14, <1>15, <1>16, <1>17, <1>18, <1>19, <1>20, <1>21, <1>22, <1>23, <1>26
     DEF Server
<1>27. CASE Menus
  BY <1>2, <1>27 DEF Menus, OpenMenu, CloseMenu, PickFromMenu, page, output, TypeOK, CallsFit
<1>. QED
  BY <1>24, <1>25, <1>26, <1>27 DEF Next

-----------------------------------------------------------------------------
(* Controls *)

\* The operations of different controls differ.
LEMMA OneControl ==
  ASSUME NEW k \in Controls, NEW op \in OpsOf(k)
  PROVE  \A j \in Controls : op \in OpsOf(j) => j = k
BY DEF OpsOf, Controls

LEMMA StartBusy ==
  ASSUME ControlsBusyInFlight, NEW op \in Controls, op \notin busy, busy' = busy \cup {op},
         NEW s \in Slots, calls[s] = NoCall, calls'[s] # NoCall, calls'[s].op = op,
         \A t \in Slots \ {s} : calls'[t] = calls[t]
  PROVE  ControlsBusyInFlight'
<1>. SUFFICES ASSUME NEW k \in Controls \ {"shorten"}
              PROVE  /\ k \in busy' <=> \E t \in Slots : IsCall(t, OpsOf(k))'
                     /\ \A t, u \in Slots : IsCall(t, OpsOf(k))' /\ IsCall(u, OpsOf(k))' => t = u
  BY DEF ControlsBusyInFlight
<1>1. \A t \in Slots \ {s} : IsCall(t, OpsOf(k))' <=> IsCall(t, OpsOf(k))
  BY DEF IsCall
<1>2. ~IsCall(s, OpsOf(k))
  BY DEF IsCall
<1>3. IsCall(s, OpsOf(k))' <=> op = k
  BY DEF IsCall, OpsOf, Controls
<1>4. k \in busy <=> \E t \in Slots : IsCall(t, OpsOf(k))
  BY DEF ControlsBusyInFlight
<1>5. \A t, u \in Slots : IsCall(t, OpsOf(k)) /\ IsCall(u, OpsOf(k)) => t = u
  BY DEF ControlsBusyInFlight
<1>6. CASE op = k
  BY <1>1, <1>3, <1>4, <1>6
<1>7. CASE op # k
  <2>1. k \in busy' <=> k \in busy
    BY <1>7
  <2>. QED
    BY <1>1, <1>2, <1>3, <1>4, <1>5, <1>7, <2>1
<1>. QED
  BY <1>6, <1>7

LEMMA EndBusy ==
  ASSUME ControlsBusyInFlight, NEW k \in Controls, NEW s \in Slots, IsCall(s, OpsOf(k)),
         NEW controls, k \in controls, controls \subseteq {k, "shorten"},
         busy' = busy \ controls, calls'[s] = NoCall,
         \A t \in Slots \ {s} : calls'[t] = calls[t]
  PROVE  ControlsBusyInFlight'
<1>. SUFFICES ASSUME NEW j \in Controls \ {"shorten"}
              PROVE  /\ j \in busy' <=> \E t \in Slots : IsCall(t, OpsOf(j))'
                     /\ \A t, u \in Slots : IsCall(t, OpsOf(j))' /\ IsCall(u, OpsOf(j))' => t = u
  BY DEF ControlsBusyInFlight
<1>1. \A t \in Slots \ {s} : IsCall(t, OpsOf(j))' <=> IsCall(t, OpsOf(j))
  BY DEF IsCall
<1>2. ~IsCall(s, OpsOf(j))'
  BY DEF IsCall
<1>3. IsCall(s, OpsOf(j)) <=> j = k
  BY OneControl DEF IsCall
<1>4. j \in busy <=> \E t \in Slots : IsCall(t, OpsOf(j))
  BY DEF ControlsBusyInFlight
<1>5. \A t, u \in Slots : IsCall(t, OpsOf(j)) /\ IsCall(u, OpsOf(j)) => t = u
  BY DEF ControlsBusyInFlight
<1>6. CASE j = k
  <2>1. \A t \in Slots : ~IsCall(t, OpsOf(j))'
    BY <1>1, <1>2, <1>3, <1>5, <1>6
  <2>2. j \notin busy'
    BY <1>6
  <2>. QED
    BY <2>1, <2>2
<1>7. CASE j # k
  <2>1. j \in busy' <=> j \in busy
    BY <1>7
  <2>2. \A t \in Slots : IsCall(t, OpsOf(j))' <=> IsCall(t, OpsOf(j))
    BY <1>1, <1>2, <1>3, <1>7
  <2>. QED
    BY <1>4, <1>5, <2>1, <2>2
<1>. QED
  BY <1>6, <1>7

\* A handler starts its request, or is answered for the last time.
LEMMA Started ==
  ASSUME WellTyped, ControlsBusyInFlight, NEW op \in Controls, NEW i \in Inputs,
         NEW n \in Snaps \cup {NoSnap}, NEW b \in BOOLEAN, Begin(op, i, n, b),
         CallFits([op |-> op, input |-> i, snap |-> n, short |-> b]),
         op \notin busy, busy' = busy \cup {op}
  PROVE  ControlsBusyInFlight'
<1>1. PICK s \in Slots : /\ calls[s] = NoCall /\ calls'[s] # NoCall /\ calls'[s].op = op
                         /\ \A t \in Slots \ {s} : calls'[t] = calls[t]
  BY Starts
<1>. QED
  BY <1>1, StartBusy

LEMMA Ended ==
  ASSUME WellTyped, ControlsBusyInFlight, NEW k \in Controls, NEW s \in Slots,
         IsCall(s, OpsOf(k)), NEW controls, k \in controls, controls \subseteq {k, "shorten"},
         End(s, controls)
  PROVE  ControlsBusyInFlight'
<1>1. /\ busy' = busy \ controls /\ calls'[s] = NoCall
      /\ \A t \in Slots \ {s} : calls'[t] = calls[t]
  BY Ends
<1>. QED
  BY <1>1, EndBusy

LEMMA NextControls ==
  WellTyped /\ ControlsBusyInFlight /\ [Next]_vars => ControlsBusyInFlight'
<1>. SUFFICES ASSUME WellTyped, ControlsBusyInFlight, [Next]_vars PROVE ControlsBusyInFlight'
  OBVIOUS
<1>1. ASSUME UNCHANGED <<busy, calls>> PROVE ControlsBusyInFlight'
  BY <1>1 DEF ControlsBusyInFlight, IsCall
<1>0. scheme \in Schemes
  BY DEF WellTyped, TypeOK
<1>2. CASE Convert
  <2>1. CallFits([op |-> "convert", input |-> input, snap |-> NoSnap, short |-> FALSE])
    BY DEF CallFits
  <2>. QED
    BY <1>0, <1>2, <2>1, Offered, Started DEF Convert, Controls, WellTyped, TypeOK
<1>3. CASE Reset
  <2>1. CallFits([op |-> "reset", input |-> input, snap |-> NoSnap, short |-> FALSE])
    BY DEF CallFits
  <2>. QED
    BY <1>0, <1>3, <2>1, Offered, Started DEF Reset, Controls, WellTyped, TypeOK
<1>4. CASE Restore
  <2>. DEFINE l == linkInput.link
              b == linkInput.form = "short"
  <2>1. l \in Links /\ b \in BOOLEAN
    BY <1>0, <1>4, Offered DEF Restore, WellTyped, TypeOK, LinkTexts
  <2>2. /\ l.input \in Inputs /\ l.snap \in Snaps
        /\ CallFits([op |-> "restore", input |-> l.input, snap |-> l.snap, short |-> b])
    BY <2>1 DEF Links, CallFits
  <2>3. Begin("restore", l.input, l.snap, b) /\ "restore" \notin busy /\ busy' = busy \cup {"restore"}
    BY <1>0, <1>4, Offered DEF Restore
  <2>. HIDE DEF l, b
  <2>. QED
    BY <2>1, <2>2, <2>3, Started DEF Controls
<1>5. CASE Generate
  <2>1. /\ snap \in Snaps
        /\ CallFits([op |-> "generate", input |-> input, snap |-> snap, short |-> prefer])
    BY <1>0, <1>5, Offered DEF Generate, CanGenerate, WellTyped, TypeOK, CallFits
  <2>2. "generate" \notin busy
    BY <1>0, <1>5, Offered DEF Generate, CanGenerate
  <2>. QED
    BY <1>5, <2>1, <2>2, Started DEF Generate, Controls, WellTyped, TypeOK
<1>6. CASE Shorten
  <2>. DEFINE l == urls.link
  <2>1. l \in Links
    BY <1>6 DEF Shorten, WellTyped, TypeOK, Urls
  <2>2. /\ l.input \in Inputs /\ l.snap \in Snaps
        /\ CallFits([op |-> "shorten", input |-> l.input, snap |-> l.snap, short |-> TRUE])
    BY <2>1 DEF Links, CallFits
  <2>3. Begin("shorten", l.input, l.snap, TRUE) /\ "shorten" \notin busy /\ busy' = busy \cup {"shorten"}
    BY <1>0, <1>6, Offered DEF Shorten
  <2>. HIDE DEF l
  <2>. QED
    BY <2>2, <2>3, Started DEF Controls
<1>8. ASSUME NEW s \in Slots, NEW k \in {"convert", "reset", "restore", "shorten"},
             IsCall(s, {k}), End(s, {k})
      PROVE  ControlsBusyInFlight'
  <2>1. k \in Controls /\ OpsOf(k) = {k}
    BY DEF Controls, OpsOf
  <2>. QED
    BY <1>8, <2>1, Ended
<1>9. ASSUME NEW s \in Slots, Converted(s) \/ ConversionFails(s) PROVE ControlsBusyInFlight'
  <2>1. IsCall(s, {"convert", "reset"}) /\ End(s, {calls[s].op})
    BY <1>9 DEF Converted, ConversionFails
  <2>2. calls[s].op \in {"convert", "reset"} /\ IsCall(s, {calls[s].op})
    BY <2>1 DEF IsCall
  <2>. QED
    BY <1>8, <2>1, <2>2
<1>10. ASSUME NEW s \in Slots, RestoredReplayable(s) \/ RestoredConflicted(s) \/ RestoreFails(s)
       PROVE  ControlsBusyInFlight'
  <2>1. IsCall(s, {"restore"}) /\ End(s, {"restore"})
    BY <1>10 DEF RestoredReplayable, RestoredConflicted, RestoreFails, RestoredPage
  <2>. QED
    BY <1>8, <2>1
<1>11. ASSUME NEW s \in Slots, Shortened(s) \/ ShortenFails(s) PROVE ControlsBusyInFlight'
  BY <1>8, <1>11 DEF Shortened, ShortenFails
<1>12. ASSUME NEW s \in Slots, GeneratedLong(s) \/ GenerateFails(s)
       PROVE  ControlsBusyInFlight'
  <2>1. IsCall(s, OpsOf("generate")) /\ End(s, {"generate"})
    BY <1>12 DEF GeneratedLong, GenerateFails, IsCall, OpsOf
  <2>. QED
    BY <2>1, Ended DEF Controls
<1>13. ASSUME NEW s \in Slots, GeneratedShort(s) \/ GeneratedShortFails(s)
       PROVE  ControlsBusyInFlight'
  <2>1. IsCall(s, OpsOf("generate")) /\ End(s, {"generate", "shorten"})
    BY <1>13 DEF GeneratedShort, GeneratedShortFails, IsCall, OpsOf
  <2>. QED
    BY <2>1, Ended DEF Controls
<1>14. ASSUME NEW s \in Slots, GeneratedToShorten(s) PROVE ControlsBusyInFlight'
  <2>1. /\ calls[s] # NoCall /\ calls[s].op = "generate" /\ calls[s] \in Call
        /\ calls' = [calls EXCEPT ![s] = [calls[s] EXCEPT !.op = "shorten_generated"]]
        /\ busy' = busy \cup {"shorten"}
    BY <1>14 DEF GeneratedToShorten, IsCall, WellTyped, TypeOK
  <2>2. /\ [calls[s] EXCEPT !.op = "shorten_generated"] \in Call
        /\ [calls[s] EXCEPT !.op = "shorten_generated"].op = "shorten_generated"
    BY <2>1 DEF Call
  <2>3. /\ calls'[s] # NoCall /\ calls'[s].op = "shorten_generated"
        /\ \A t \in Slots \ {s} : calls'[t] = calls[t]
    BY <2>1, <2>2, ConstantsAssumption DEF WellTyped, TypeOK, Call
  <2>4. \A k \in Controls, t \in Slots : IsCall(t, OpsOf(k))' <=> IsCall(t, OpsOf(k))
    BY <2>1, <2>3 DEF IsCall, OpsOf, Controls
  <2>5. \A k \in Controls \ {"shorten"} : k \in busy' <=> k \in busy
    BY <2>1
  <2>. QED
    BY <2>4, <2>5 DEF ControlsBusyInFlight
<1>15. CASE UNCHANGED vars
  BY <1>1, <1>15 DEF vars
<1>16. ASSUME NEW i \in Inputs, EditInput(i) PROVE ControlsBusyInFlight'
  BY <1>1, <1>16 DEF EditInput
<1>17. ASSUME NEW n \in Snaps, ChangeStage2(n) PROVE ControlsBusyInFlight'
  BY <1>1, <1>17 DEF ChangeStage2
<1>18. ASSUME NEW text \in Typeable \cup {NoLink}, TypeLink(text) PROVE ControlsBusyInFlight'
  BY <1>1, <1>18 DEF TypeLink
<1>19. CASE PreferLong \/ PreferShort
  BY <1>1, <1>19 DEF PreferLong, PreferShort
<1>20. CASE User
  BY <1>2, <1>3, <1>4, <1>5, <1>6, <1>16, <1>17, <1>18, <1>19, <1>20, ConstantsAssumption
     DEF User, ResetInput, EditStage2
<1>21. ASSUME NEW s \in Slots, Server(s) PROVE ControlsBusyInFlight'
  BY <1>9, <1>10, <1>11, <1>12, <1>13, <1>14, <1>21 DEF Server
<1>22. CASE Menus
  BY <1>1, <1>17, <1>22 DEF Menus, OpenMenu, CloseMenu, PickFromMenu
<1>. QED
  BY <1>15, <1>20, <1>21, <1>22 DEF Next

-----------------------------------------------------------------------------
(* What the page shows *)

PageFits == OnlyLateAnswersMislead /\ OfferFits

\* What an answer that shows its links does to the parts about links.
LEMMA ShowFits ==
  ASSUME NEW link \in Links, NEW short \in BOOLEAN, Show(link, short)
  PROVE  OnlyLateAnswersMislead'
BY Shows DEF OnlyLateAnswersMislead

LEMMA NextPage == WellTyped /\ PageFits /\ [Next]_vars => PageFits'
<1>. SUFFICES ASSUME WellTyped, PageFits, [Next]_vars PROVE PageFits'
  OBVIOUS
<1>. USE DEF PageFits
<1>1. ASSUME UNCHANGED page, UNCHANGED <<urls, misled>>, expired' = expired \/ expired' = FALSE
      PROVE  PageFits'
  BY <1>1 DEF page, OnlyLateAnswersMislead, OfferFits
<1>2. ASSUME NEW i \in Inputs, EditInput(i) PROVE PageFits'
  BY <1>2 DEF EditInput, Expire, OnlyLateAnswersMislead, OfferFits
<1>3. ASSUME NEW n \in Snaps, ChangeStage2(n) PROVE PageFits'
  BY <1>3 DEF ChangeStage2, Expire, OnlyLateAnswersMislead, OfferFits
<1>4. ASSUME NEW text \in Typeable \cup {NoLink}, TypeLink(text) PROVE PageFits'
  BY <1>1, <1>4 DEF TypeLink
<1>5. CASE Convert \/ Reset \/ Generate
  BY <1>1, <1>5 DEF Convert, Reset, Generate, output
<1>6. CASE Restore \/ PreferLong \/ PreferShort \/ Shorten
  BY <1>1, <1>6 DEF Restore, PreferLong, PreferShort, Shorten
<1>7. ASSUME NEW s \in Slots, Converted(s) PROVE PageFits'
  <2>1. calls[s].input \in Inputs
    BY <1>7, CallTyped DEF Converted, IsCall
  <2>. QED
    BY <1>7, <2>1, ConstantsAssumption
       DEF Converted, OnlyLateAnswersMislead, OfferFits
<1>8. ASSUME NEW s \in Slots, ConversionFails(s) \/ GeneratedToShorten(s) \/ GenerateFails(s)
      PROVE  PageFits'
  BY <1>1, <1>8 DEF ConversionFails, GeneratedToShorten, GenerateFails, output
<1>9. ASSUME NEW s \in Slots, RestoreFails(s) \/ ShortenFails(s) PROVE PageFits'
  BY <1>1, <1>9 DEF RestoreFails, ShortenFails
<1>10. ASSUME NEW s \in Slots, NEW n, IsCall(s, {"restore"}), RestoredPage(s, n)
       PROVE  OnlyLateAnswersMislead'
  <2>1. LinkOf(s) \in Links /\ calls[s].short \in BOOLEAN
    BY <1>10, CallTyped, LinkTyped DEF IsCall
  <2>. QED
    BY <1>10, <2>1, ShowFits DEF RestoredPage
<1>11. ASSUME NEW s \in Slots, RestoredReplayable(s) PROVE PageFits'
  <2>1. calls[s].input \in Inputs
    BY <1>11, CallTyped DEF RestoredReplayable, IsCall
  <2>2. OfferFits'
    BY <1>11, <2>1, ConstantsAssumption DEF RestoredReplayable, RestoredPage, OfferFits
  <2>. QED
    BY <1>10, <1>11, <2>2 DEF RestoredReplayable
<1>12. ASSUME NEW s \in Slots, RestoredConflicted(s) PROVE PageFits'
  BY <1>10, <1>12 DEF RestoredConflicted, OfferFits
<1>13. ASSUME NEW s \in Slots, UNCHANGED page, LinkOf(s) \in Links, NEW short \in BOOLEAN,
              Show(LinkOf(s), short)
       PROVE  PageFits'
  BY <1>13, ShowFits DEF page, OfferFits
<1>14. ASSUME NEW s \in Slots, GeneratedLong(s) PROVE PageFits'
  BY <1>13, <1>14, LinkTyped DEF GeneratedLong
<1>15. ASSUME NEW s \in Slots, GeneratedShort(s) \/ Shortened(s) PROVE PageFits'
  BY <1>13, <1>15, LinkTyped DEF GeneratedShort, Shortened, IsCall
<1>16. ASSUME NEW s \in Slots, GeneratedShortFails(s) PROVE PageFits'
  <2>1. UNCHANGED page /\ LinkOf(s) \in Links
    BY <1>16, LinkTyped DEF GeneratedShortFails, IsCall
  <2>2. CASE LinkOf(s) \in Oversized
    BY <1>16, <2>1, <2>2
       DEF GeneratedShortFails, page, OnlyLateAnswersMislead, OfferFits
  <2>3. CASE LinkOf(s) \notin Oversized
    BY <1>13, <1>16, <2>1, <2>3 DEF GeneratedShortFails
  <2>. QED
    BY <2>2, <2>3
<1>17. CASE UNCHANGED vars
  BY <1>1, <1>17 DEF vars, output
<1>18. CASE User
  BY <1>2, <1>3, <1>4, <1>5, <1>6, <1>18, ConstantsAssumption DEF User, ResetInput, EditStage2
<1>19. ASSUME NEW s \in Slots, Server(s) PROVE PageFits'
  BY <1>7, <1>8, <1>9, <1>11, <1>12, <1>14, <1>15, <1>16, <1>19 DEF Server
<1>20. CASE Menus
  BY <1>1, <1>3, <1>20 DEF Menus, OpenMenu, CloseMenu, PickFromMenu, output
<1>. QED
  BY <1>17, <1>18, <1>19, <1>20 DEF Next

-----------------------------------------------------------------------------
(* Theorems *)

\* The invariant holds on a fresh page and is kept by every step.
THEOREM Inductive == Spec => []IInv
<1>1. Init => IInv
  <2>. SUFFICES ASSUME Init PROVE IInv
    OBVIOUS
  <2>1. WellTyped
    BY ConstantsAssumption DEF Init, WellTyped, TypeOK, CallsFit
  <2>2. ControlsBusyInFlight
    BY DEF Init, ControlsBusyInFlight, IsCall
  <2>3. PageFits
    BY DEF Init, PageFits, OnlyLateAnswersMislead, OfferFits
  <2>. QED
    BY <2>1, <2>2, <2>3 DEF IInv, PageFits
<1>2. IInv /\ [Next]_vars => IInv'
  BY NextTyped, NextControls, NextPage DEF IInv, PageFits
<1>. QED
  BY <1>1, <1>2, PTL DEF Spec

\* The page state keeps its types, whatever order requests are answered in.
THEOREM Typing == Spec => []TypeOK
<1>1. IInv => TypeOK
  BY DEF IInv, WellTyped
<1>. QED
  BY <1>1, Inductive, PTL

\* At most one request of each kind is in flight, and its control is disabled
\* exactly as long (shortening apart).
THEOREM BusyControls == Spec => []ControlsBusyInFlight
<1>1. IInv => ControlsBusyInFlight
  BY DEF IInv
<1>. QED
  BY <1>1, Inductive, PTL

\* Links on display that do not fit the page arrived after it was changed.
THEOREM Misled == Spec => []OnlyLateAnswersMislead
<1>1. IInv => OnlyLateAnswersMislead
  BY DEF IInv
<1>. QED
  BY <1>1, Inductive, PTL

\* Generation is offered for an outdated stage 2 only after an answer that an
\* edit had outrun.
THEOREM Unmarked == Spec => []OnlyLateAnswersUnmark
<1>1. IInv => OnlyLateAnswersUnmark
  BY DEF IInv, OfferFits, OnlyLateAnswersUnmark, CanGenerate
<1>. QED
  BY <1>1, Inductive, PTL

\* Nothing but the user's own typing puts the long form of an oversized link
\* into the field while its short form is known.
THEOREM StaysShort == Spec => OversizedStaysShort
<1>. DEFINE KeepsShort ==
       linkInput' # linkInput /\ urls' # NoUrls /\ urls'.short /\ urls'.link \in Oversized /\ ~Typed
         => linkInput' # [link |-> urls'.link, form |-> "long"]
<1>1. IInv /\ [Next]_vars => [KeepsShort]_vars
  <2>. SUFFICES ASSUME WellTyped, [Next]_vars PROVE [KeepsShort]_vars
    BY DEF IInv
  <2>1. ASSUME linkInput' = linkInput \/ urls' = NoUrls PROVE KeepsShort
    BY <2>1
  <2>2. ASSUME NEW link \in Links, NEW short \in BOOLEAN, Show(link, short) PROVE KeepsShort
    <3>1. /\ urls'.short = short
          /\ linkInput' = [link |-> link, form |-> IF short THEN "short" ELSE "long"]
      BY <2>2, Shows
    <3>. QED
      BY <3>1
  <2>3. CASE PreferLong
    <3>1. SUFFICES ASSUME urls # NoUrls, urls.short, urls.link \in Oversized
                   PROVE  linkInput' # [link |-> urls.link, form |-> "long"]
      BY <2>3 DEF PreferLong
    <3>2. linkInput' = [link |-> urls.link, form |-> "short"]
      BY <2>3, <3>1 DEF PreferLong, RequiresShort, Displayed
    <3>. QED
      BY <3>2
  <2>4. CASE PreferShort
    <3>1. SUFFICES ASSUME urls # NoUrls, urls.short, urls.link \in Oversized
                   PROVE  linkInput' # [link |-> urls.link, form |-> "long"]
      BY <2>4 DEF PreferShort
    <3>2. linkInput' = [link |-> urls.link, form |-> "short"]
      BY <2>4, <3>1 DEF PreferShort, Displayed
    <3>. QED
      BY <3>2
  <2>5. CASE \E text \in Typeable \cup {NoLink} : TypeLink(text)
    BY <2>5 DEF Typed
  <2>6. CASE User
    <3>1. ASSUME NEW i \in Inputs, EditInput(i) PROVE KeepsShort
      BY <2>1, <3>1 DEF EditInput, Expire
    <3>2. ASSUME NEW n \in Snaps, ChangeStage2(n) PROVE KeepsShort
      BY <2>1, <3>2 DEF ChangeStage2, Expire
    <3>3. CASE Convert \/ Reset \/ Restore \/ Generate \/ Shorten
      BY <2>1, <3>3 DEF Convert, Reset, Restore, Generate, Shorten, output
    <3>. QED
      BY <2>3, <2>4, <2>5, <2>6, <3>1, <3>2, <3>3, ConstantsAssumption
         DEF User, ResetInput, EditStage2
  <2>7. ASSUME NEW s \in Slots, Server(s) PROVE KeepsShort
    <3>1. CASE Converted(s) \/ ConversionFails(s) \/ RestoreFails(s) \/ GeneratedToShorten(s)
                 \/ GenerateFails(s) \/ ShortenFails(s)
      BY <2>1, <3>1 DEF Converted, ConversionFails, RestoreFails, GeneratedToShorten,
                        GenerateFails, ShortenFails, output
    <3>2. CASE RestoredReplayable(s) \/ RestoredConflicted(s)
      <4>1. IsCall(s, {"restore"}) /\ Show(LinkOf(s), calls[s].short)
        BY <3>2 DEF RestoredReplayable, RestoredConflicted, RestoredPage
      <4>2. LinkOf(s) \in Links /\ calls[s].short \in BOOLEAN
        BY <4>1, CallTyped, LinkTyped DEF IsCall
      <4>. QED
        BY <2>2, <4>1, <4>2
    <3>3. CASE GeneratedLong(s)
      BY <2>2, <3>3, LinkTyped DEF GeneratedLong
    <3>4. CASE GeneratedShort(s) \/ Shortened(s)
      BY <2>2, <3>4, LinkTyped DEF GeneratedShort, Shortened, IsCall
    <3>5. CASE GeneratedShortFails(s)
      <4>1. LinkOf(s) \in Links
        BY <3>5, LinkTyped DEF GeneratedShortFails, IsCall
      <4>. QED
        BY <2>1, <2>2, <3>5, <4>1 DEF GeneratedShortFails
    <3>. QED
      BY <2>7, <3>1, <3>2, <3>3, <3>4, <3>5 DEF Server
  <2>8. CASE Menus
    <3>1. ASSUME NEW n \in Snaps, ChangeStage2(n) PROVE KeepsShort
      BY <2>1, <3>1 DEF ChangeStage2, Expire
    <3>. QED
      BY <2>1, <2>8, <3>1 DEF Menus, OpenMenu, CloseMenu, PickFromMenu, output
  <2>. QED
    BY <2>6, <2>7, <2>8 DEF Next
<1>. QED
  BY <1>1, Inductive, PTL DEF Spec, OversizedStaysShort
=============================================================================
