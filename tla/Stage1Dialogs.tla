---------------------------- MODULE Stage1Dialogs ----------------------------
(***************************************************************************)
(* The dialogs of stage 1 in the five user interfaces: the one port         *)
(* forwarding services (relays) are entered in and the one for a SOCKS5     *)
(* node, over the page that lists both.                                     *)
(*                                                                         *)
(* A dialog covers the page, but not the answers that are on their way: a   *)
(* restore replaces all of stage 1 while a dialog is open.  The schemes     *)
(* differ in what a dialog begins with, what it keeps when it is closed,    *)
(* where it validates, and in whether an error is thrown where it can be    *)
(* caught: an updater that throws inside setState does so when React        *)
(* renders, where nothing catches it, and the page is gone.                 *)
(*                                                                         *)
(* Error texts are left out.  Of the landing field only the number of its   *)
(* lines counts; the other text area is written to in the same way.         *)
(***************************************************************************)
EXTENDS Integers, SequencesExt, Schemes

CONSTANTS
  Relays,     \* normalised services, server:port
  Texts,      \* what can be typed, trimmed, with the relays themselves
  Norm,       \* normalizeForwardRelayItem: the relay of each text, or Bad
  Bad,        \* the text is refused
  NoDraft,    \* no draft is kept
  MaxTags,    \* bound on the texts of a draft
  MaxLines    \* bound on the lines of the landing field

DialogsAssumption ==
  /\ Relays \subseteq Texts /\ Bad \notin Relays
  /\ Norm \in [Texts -> Relays \cup {Bad}] /\ \A r \in Relays : Norm[r] = r
  /\ NoDraft \notin Seq(Texts) /\ MaxTags \in Nat /\ MaxLines \in Nat

VARIABLES
  scheme,      \* the user interface
  relays,      \* forwardRelayItems
  landing,     \* the lines of landingRawText
  dialog,      \* the dialog that is open
  form,        \* the form of the SOCKS5 dialog
  draft,       \* the tags of the relay dialog
  typed,       \* its text field, split where the scheme splits it
  restoring,   \* is a restore in flight?
  crashed,     \* has the page been unmounted by an exception?
  late,        \* did a restore replace the relays while b1 kept a draft? (history)
  dropped      \* the relays taken out of b1's draft (history)

entry       == <<draft, typed, late, dropped>>
page        == <<relays, landing>>
dialogsVars == <<scheme, page, dialog, form, entry, restoring, crashed>>

RelayLists == {list \in BoundedSeq(Relays, Cardinality(Relays)) : IsInjective(list)}

DialogsInit ==
  /\ scheme \in Schemes
  /\ relays = <<>> /\ landing = 0 /\ dialog = "none" /\ form = "invalid"
  /\ draft = NoDraft /\ typed = <<>> /\ late = FALSE /\ dropped = {}
  /\ restoring = FALSE /\ crashed = FALSE

-----------------------------------------------------------------------------
(* Appending relays: appendForwardRelayItems *)

Normal(texts) == [k \in DOMAIN texts |-> Norm[texts[k]]]

\* A bug: what is entered at once is not compared with itself.
CanAppend_EachAlone(list, texts) ==
  \A k \in DOMAIN texts : Norm[texts[k]] \notin Range(list) \cup {Bad}

\* No text is refused, and no relay is there already.
CanAppend(list, texts) ==
  /\ IsInjective(Normal(texts))
  /\ \A k \in DOMAIN texts : Norm[texts[k]] \notin Range(list) \cup {Bad}

\* A bug: the dialog's tags replace the relays.
Appended_Replaces(list, texts) == Normal(texts)

Appended(list, texts) == list \o Normal(texts)

-----------------------------------------------------------------------------
(* The relay dialog *)

\* It begins with these tags, unless the scheme has kept a draft.
OpenRelays(tags) ==
  /\ dialog = "none" /\ dialog' = "relays"
  /\ draft' = tags
  /\ dropped' = IF draft = NoDraft THEN {} ELSE dropped
  /\ UNCHANGED <<page, form, typed, late, restoring, crashed>>

Kept(tags) == IF draft = NoDraft THEN tags ELSE draft

\* The text field; only the default scheme splits it, at blanks, commas and
\* semicolons.
Type(inputs) ==
  /\ dialog = "relays" /\ typed' \in inputs
  /\ UNCHANGED <<page, dialog, form, draft, late, dropped, restoring, crashed>>

Single == {<<>>} \cup {<<t>> : t \in Texts}
Several == Single \cup {<<t, u>> : t \in Texts, u \in Texts}

\* The text joins the draft if the scheme finds it fine; if not, `left` is
\* what stays in the field.
AddTyped(fine, tags, left) ==
  /\ dialog = "relays" /\ typed # <<>>
  /\ Len(draft) + Len(typed) <= MaxTags
  /\ draft' = IF fine THEN draft \o tags ELSE draft
  /\ typed' = IF fine THEN <<>> ELSE left
  /\ UNCHANGED <<page, dialog, form, late, dropped, restoring, crashed>>

DropTag(k) ==
  /\ dialog = "relays" /\ k \in DOMAIN draft
  /\ draft' = RemoveAt(draft, k)
  /\ dropped' = IF scheme = "b1" THEN dropped \cup {draft[k]} ELSE dropped
  /\ UNCHANGED <<page, dialog, form, typed, late, restoring, crashed>>

\* What is left of the draft and of the text when the dialog is closed.
CloseRelays(tags, text) ==
  /\ dialog = "relays" /\ dialog' = "none"
  /\ draft' = tags /\ typed' = text
  /\ UNCHANGED <<page, form, late, dropped, restoring, crashed>>

\* The relays of the page are set, and the dialog is left with no draft.
Confirmed(list) ==
  /\ relays' = list
  /\ dialog' = "none" /\ draft' = NoDraft /\ late' = FALSE
  /\ UNCHANGED <<landing, form, dropped, restoring, crashed>>

\* The page is unmounted.
Crash ==
  /\ crashed' = TRUE
  /\ UNCHANGED <<page, dialog, form, entry, restoring>>

\* The default scheme takes all of the text or nothing, and compares it with
\* the page as well.
AddDefault ==
  AddTyped(CanAppend(draft \o relays, typed), Normal(typed), <<>>)

\* The text left in the field is added first, or forgotten when it is refused.
ConfirmDefault ==
  /\ dialog = "relays" /\ typed' = <<>>
  /\ LET tags == IF CanAppend(draft \o relays, typed) THEN draft \o Normal(typed) ELSE draft
     IN IF tags # <<>> /\ CanAppend(relays, tags)
          THEN Confirmed(Appended(relays, tags))
          ELSE /\ draft' = tags
               /\ UNCHANGED <<page, dialog, form, late, dropped, restoring, crashed>>

\* A closed dialog keeps its tags, and forgets its text.
DefaultRelayDialog ==
  /\ scheme = "default"
  /\ \/ Type(Several) \/ AddDefault \/ \E k \in 1..MaxTags : DropTag(k)
     \/ CloseRelays(draft, <<>>) \/ ConfirmDefault

\* b1 replaces the relays by the tags on show.
ConfirmB1 == dialog = "relays" /\ Confirmed(draft) /\ UNCHANGED typed

\* b1 leaves a refused text to be corrected, and keeps all of a closed dialog.
B1RelayDialog ==
  /\ scheme = "b1"
  /\ \/ Type(Single) \/ AddTyped(CanAppend(draft, typed), Normal(typed), typed)
     \/ \E k \in 1..MaxTags : DropTag(k)
     \/ CloseRelays(draft, typed) \/ ConfirmB1

\* b2 and c2 take any text, once, as it was typed.
AddAsTyped == AddTyped(Range(typed) \cap Range(draft) = {}, typed, <<>>)

\* b2 normalises and appends its tags inside the updater.
ConfirmB2 ==
  /\ dialog = "relays"
  /\ IF CanAppend(relays, draft) THEN Confirmed(Appended(relays, draft)) /\ typed' = <<>> ELSE Crash

B2RelayDialog ==
  /\ scheme = "b2"
  /\ \/ Type(Single) \/ AddAsTyped \/ \E k \in 1..MaxTags : DropTag(k)
     \/ CloseRelays(NoDraft, <<>>) \/ ConfirmB2

\* A bug: c1 appends inside the updater, as b2 does.
ConfirmC1_InUpdater ==
  /\ dialog = "relays"
  /\ IF typed # <<>> /\ CanAppend(relays, typed)
       THEN Confirmed(Appended(relays, typed)) /\ typed' = <<>>
       ELSE Crash

\* c1 has one text and no tags.
ConfirmC1 ==
  /\ dialog = "relays" /\ typed' = <<>>
  /\ typed # <<>> /\ CanAppend(relays, typed) /\ Confirmed(Appended(relays, typed))

C1RelayDialog ==
  /\ scheme = "c1"
  /\ Type(Single) \/ CloseRelays(NoDraft, typed) \/ ConfirmC1

\* c2 refuses a draft as long as a relay of the page is in it.
ConfirmC2 ==
  /\ dialog = "relays" /\ typed' = <<>>
  /\ CanAppend(relays, draft) /\ Confirmed(Appended(relays, draft))

C2RelayDialog ==
  /\ scheme = "c2"
  /\ \/ Type(Single) \/ AddAsTyped \/ \E k \in 1..MaxTags : DropTag(k)
     \/ CloseRelays(draft, typed) \/ ConfirmC2

-----------------------------------------------------------------------------
(* The SOCKS5 dialog *)

OpenSocks ==
  /\ dialog = "none" /\ dialog' = "socks"
  /\ UNCHANGED <<page, form, entry, restoring, crashed>>

\* By hand, or from a socks5 URI; even one that can be parsed may leave a form
\* that cannot be submitted, with a blank name for instance.
FillForm ==
  /\ dialog = "socks" /\ form' \in {"valid", "invalid"}
  /\ UNCHANGED <<page, dialog, entry, restoring, crashed>>

CloseSocks(left) ==
  /\ dialog = "socks" /\ dialog' = "none" /\ form' = left
  /\ UNCHANGED <<page, entry, restoring, crashed>>

\* buildManualSocks5URI makes the line that is appended, or throws: what is
\* reported where it is caught changes nothing.
SubmitSocks ==
  /\ dialog = "socks" /\ form = "valid" /\ landing < MaxLines
  /\ landing' = landing + 1 /\ form' = "invalid" /\ dialog' = "none"
  /\ UNCHANGED <<relays, entry, restoring, crashed>>

\* c1 and c2 build the line inside the updater.
SubmitInUpdater ==
  \/ SubmitSocks
  \/ dialog = "socks" /\ form = "invalid" /\ Crash

DefaultSocksDialog == scheme = "default" /\ (FillForm \/ CloseSocks(form) \/ SubmitSocks)
B1SocksDialog == scheme = "b1" /\ (FillForm \/ CloseSocks(form) \/ SubmitSocks)
B2SocksDialog == scheme = "b2" /\ (FillForm \/ CloseSocks("invalid") \/ SubmitSocks)
C1SocksDialog == scheme = "c1" /\ (FillForm \/ CloseSocks(form) \/ SubmitInUpdater)
C2SocksDialog == scheme = "c2" /\ (FillForm \/ CloseSocks(form) \/ SubmitInUpdater)

-----------------------------------------------------------------------------
(* The page *)

EditLanding ==
  /\ dialog = "none" /\ landing' \in 0..MaxLines
  /\ UNCHANGED <<relays, dialog, form, entry, restoring, crashed>>

\* removeForwardRelayItem
RemoveRelay(k) ==
  /\ dialog = "none" /\ k \in DOMAIN relays
  /\ relays' = RemoveAt(relays, k)
  /\ UNCHANGED <<landing, dialog, form, typed, dropped, restoring, crashed>>

AnyRemoval == (\E k \in 1..Cardinality(Relays) : RemoveRelay(k)) /\ UNCHANGED <<draft, late>>

\* b1 forgets its draft with the relay.
AnyRemovalB1 == (\E k \in 1..Cardinality(Relays) : RemoveRelay(k)) /\ draft' = NoDraft /\ late' = FALSE

DefaultInputs == scheme = "default" /\ (EditLanding \/ OpenSocks \/ OpenRelays(Kept(<<>>)) \/ AnyRemoval)
B1Inputs == scheme = "b1" /\ (EditLanding \/ OpenSocks \/ OpenRelays(Kept(relays)) \/ AnyRemovalB1)
B2Inputs == scheme = "b2" /\ (EditLanding \/ OpenSocks \/ OpenRelays(<<>>) \/ AnyRemoval)
C1Inputs == scheme = "c1" /\ (EditLanding \/ OpenSocks \/ OpenRelays(<<>>) \/ AnyRemoval)
C2Inputs == scheme = "c2" /\ (EditLanding \/ OpenSocks \/ OpenRelays(Kept(relays)) \/ AnyRemoval)

\* handleStage1Reset, which only the default scheme has a button for
ResetStage1 ==
  /\ scheme = "default" /\ dialog = "none"
  /\ relays' = <<>> /\ landing' = 0
  /\ UNCHANGED <<dialog, form, entry, restoring, crashed>>

StartRestore ==
  /\ dialog = "none" /\ ~restoring /\ restoring' = TRUE
  /\ UNCHANGED <<page, dialog, form, entry, crashed>>

\* The restored input replaces stage 1, whatever dialog is open.
RestoreArrives ==
  /\ restoring /\ restoring' = FALSE
  /\ relays' \in RelayLists /\ landing' \in 0..MaxLines
  /\ late' = (scheme = "b1" /\ draft # NoDraft)
  /\ UNCHANGED <<dialog, form, draft, typed, dropped, crashed>>

RestoreFails ==
  /\ restoring /\ restoring' = FALSE
  /\ UNCHANGED <<page, dialog, form, entry, crashed>>

\* The user loads the page again.
Reload ==
  /\ relays' = <<>> /\ landing' = 0 /\ dialog' = "none" /\ form' = "invalid"
  /\ draft' = NoDraft /\ typed' = <<>> /\ late' = FALSE /\ dropped' = {}
  /\ restoring' = FALSE /\ crashed' = FALSE

-----------------------------------------------------------------------------

RelayDialog ==
  DefaultRelayDialog \/ B1RelayDialog \/ B2RelayDialog \/ C1RelayDialog \/ C2RelayDialog

SocksDialog ==
  DefaultSocksDialog \/ B1SocksDialog \/ B2SocksDialog \/ C1SocksDialog \/ C2SocksDialog

Inputs == DefaultInputs \/ B1Inputs \/ B2Inputs \/ C1Inputs \/ C2Inputs

Answers == StartRestore \/ RestoreArrives \/ RestoreFails

DialogsNext ==
  /\ UNCHANGED scheme
  /\ \/ ~crashed /\ (RelayDialog \/ SocksDialog \/ Inputs \/ ResetStage1 \/ Answers)
     \/ crashed /\ Reload

DialogsSpec == DialogsInit /\ [][DialogsNext]_dialogsVars

-----------------------------------------------------------------------------
(* Properties *)

DialogsTypeOK ==
  /\ scheme \in Schemes
  /\ relays \in Seq(Relays) /\ landing \in 0..MaxLines
  /\ dialog \in {"none", "relays", "socks"} /\ form \in {"valid", "invalid"}
  /\ draft \in Seq(Texts) \cup {NoDraft} /\ (dialog = "relays" => draft # NoDraft)
  /\ typed \in Seq(Texts)
  /\ dropped \subseteq Texts
  /\ {restoring, crashed, late} \subseteq BOOLEAN

\* The page has each relay once, however it was typed, and whatever a draft
\* that outlived a restore or a removal still holds
\* (04-business-rules.md 1.1.2).
RelaysDistinct == IsInjective(relays)

\* Confirming the relay dialog takes no relay from the page.  b1, which
\* replaces the list, loses what the user took out of the dialog, and what a
\* restore has brought since its draft was begun.
ConfirmLosesNothing ==
  [][dialog = "relays" /\ dialog' = "none" /\ ~crashed =>
       IF scheme = "b1"
         THEN late \/ Range(relays) \subseteq Range(relays') \cup dropped
         ELSE IsPrefix(relays, relays')]_dialogsVars

\* Only three of the dialogs can take the page down: b2's for relays and those
\* of c1 and c2 for a SOCKS5 node; the others report what they refuse.
OnlyUpdatersCrash ==
  crashed => <<scheme, dialog>> \in {<<"b2", "relays">>, <<"c1", "socks">>, <<"c2", "socks">>}

=============================================================================
