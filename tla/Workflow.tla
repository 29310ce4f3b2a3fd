------------------------------- MODULE Workflow -------------------------------
(***************************************************************************)
(* The page state of web/src/hooks/useAppWorkflow.ts and its asynchronous  *)
(* handlers.                                                               *)
(*                                                                         *)
(* A handler captures what it sends when the user acts, waits for the      *)
(* server, and applies the answer to whatever the page holds by then.  The *)
(* only thing that keeps handlers apart is which controls are disabled, so *)
(* answers come in any order, with edits in between.  The controls are     *)
(* those of the scheme the page was loaded with.                           *)
(*                                                                         *)
(* A stage 2 snapshot is a model value: what editing and merging make of   *)
(* it is Stage 2's own matter.  A link stands for the stage 1 input and    *)
(* the snapshot that it encodes.  Error notices and the log are left out.  *)
(***************************************************************************)
EXTENDS FiniteSets, Integers, Schemes

CONSTANTS
  Inputs,      \* stage 1 inputs
  Blank,       \* the input of a fresh page, which nothing can be made from
  Snaps,       \* stage 2 snapshots with at least one instance
  NoSnap,      \* the snapshot of a fresh page
  Oversized,   \* links longer than maxPublicLongURLLength
  Slots,       \* where requests in flight are kept
  Load,        \* bound on the requests in flight, for each scheme
  Typeable,    \* the links the user may enter
  NoCatalog, NoUrls, NoLink, NoCall

Controls == {"convert", "restore", "reset", "generate", "shorten"}

Links     == [input : Inputs \ {Blank}, snap : Snaps]
Urls      == [link : Links, short : BOOLEAN]
LinkTexts == [link : Links, form : {"long", "short"}]

\* A request in flight.  `short`: was the short form asked for or preferred?
\* Shortening what was just generated is the second half of generating it.
Call == [op : Controls \cup {"shorten_generated"},
         input : Inputs, snap : Snaps \cup {NoSnap}, short : BOOLEAN]

ASSUME ConstantsAssumption ==
  /\ Blank \in Inputs
  /\ Oversized \subseteq Links /\ Typeable \subseteq LinkTexts
  /\ Load \in [Schemes -> Nat]
  /\ NoSnap \notin Snaps /\ NoCatalog \notin Inputs
  /\ NoUrls \notin Urls /\ NoLink \notin LinkTexts /\ NoCall \notin Call

VARIABLES
  scheme,     \* the user interface in use
  menu,       \* is a menu of stage 2 open? (openTargetMenuRow)
  input,      \* stage1Input
  catalog,    \* the input that stage2Catalog was made from, or NoCatalog
  snap,       \* stage2Snapshot
  stale,      \* stage2Stale
  restored,   \* restoreStatus
  urls,       \* generatedUrls
  expired,    \* stage3Expired
  linkInput,  \* currentLinkInput
  prefer,     \* preferShortUrl
  busy,       \* controls whose isConverting, isRestoring, ... flag is set
  calls,      \* requests in flight
  misled,     \* did the page differ from the links when they arrived? (history)
  outrun      \* did the input differ from the catalog's when it arrived? (history)

page    == <<input, catalog, snap, stale, restored, outrun>>
output  == <<urls, expired, linkInput, prefer, misled>>
vars    == <<scheme, menu, page, output, busy, calls>>

Init ==
  /\ scheme \in Schemes /\ menu = FALSE
  /\ input = Blank /\ catalog = NoCatalog /\ snap = NoSnap
  /\ stale = FALSE /\ restored = "idle"
  /\ urls = NoUrls /\ expired = FALSE /\ linkInput = NoLink /\ prefer = FALSE
  /\ busy = {} /\ calls = [s \in Slots |-> NoCall]
  /\ misled = FALSE /\ outrun = FALSE

-----------------------------------------------------------------------------
(* What the controls depend on *)

IsStage2Editable == catalog # NoCatalog /\ ~stale /\ restored # "conflicted"

\* A bug: the button does not look at the rows.
CanGenerate_Empty ==
  ~stale /\ restored # "conflicted" /\ busy \cap {"generate", "reset"} = {}

CanGenerate ==
  snap # NoSnap /\ ~stale /\ restored # "conflicted" /\ busy \cap {"generate", "reset"} = {}

Offers1(op) ==
  op \in Stage1Of(scheme, [busy |-> busy, blank |-> input = Blank, initial |-> input = Blank])
Offers2(op) ==
  op \in Stage2Of(scheme, [busy |-> busy, editable |-> IsStage2Editable, generable |-> CanGenerate])
Offers3(op) ==
  op \in Stage3Of(scheme, [busy |-> busy, linked |-> urls # NoUrls, text |-> linkInput # NoLink])

\* requireShortURL of handlePreferShortUrl.
RequiresShort == urls # NoUrls /\ urls.link \in Oversized

\* getDisplayedGeneratedURL, or what the field holds when there is no link.
Displayed(short) ==
  IF urls = NoUrls THEN linkInput
  ELSE [link |-> urls.link, form |-> IF short /\ urls.short THEN "short" ELSE "long"]

InFlight == {s \in Slots : calls[s] # NoCall}

Begin(op, i, n, short) ==
  /\ Cardinality(InFlight) < Load[scheme]
  /\ \E s \in Slots \ InFlight :
       calls' = [calls EXCEPT ![s] = [op |-> op, input |-> i, snap |-> n, short |-> short]]

\* The call in slot s is answered, and these controls are free again.
End(s, controls) ==
  /\ calls' = [calls EXCEPT ![s] = NoCall]
  /\ busy' = busy \ controls

IsCall(s, ops) == calls[s] # NoCall /\ calls[s].op \in ops

LinkOf(s) == [input |-> calls[s].input, snap |-> calls[s].snap]

\* Links are shown that a call brought, whatever the page holds by now.
Show(link, short) ==
  /\ urls' = [link |-> link, short |-> short]
  /\ linkInput' = [link |-> link, form |-> IF short THEN "short" ELSE "long"]
  /\ expired' = FALSE
  /\ misled' = (link # [input |-> input', snap |-> snap'])

-----------------------------------------------------------------------------
(* Edits *)

\* expireGeneratedOutput
Expire ==
  /\ urls' = NoUrls
  /\ expired' = (urls # NoUrls \/ expired)
  /\ misled' = FALSE

\* A bug: an edit that changes nothing takes the mark back.
EditInput_Unmarks(i) ==
  /\ input' = i
  /\ stale' = (i # input /\ snap # NoSnap)
  /\ Expire
  /\ UNCHANGED <<catalog, snap, restored, outrun, linkInput, prefer, busy, calls>>

\* updateStage1Input, also by the deployment's default template; the fields of
\* stage 1 are never disabled.
EditInput(i) ==
  /\ input' = i
  /\ stale' = (stale \/ (i # input /\ snap # NoSnap))
  /\ Expire
  /\ UNCHANGED <<catalog, snap, restored, outrun, linkInput, prefer, busy, calls>>

\* handleStage1Reset
ResetInput == Offers1("reset stage 1") /\ EditInput(Blank)

\* withStage2Mutation, by any control of stage 2; an edit may well end in an
\* equal snapshot.
ChangeStage2(n) ==
  /\ snap # NoSnap
  /\ snap' = n
  /\ Expire
  /\ UNCHANGED <<input, catalog, stale, restored, outrun, linkInput, prefer, busy, calls>>

EditStage2(n) == Offers2("edit stage 2") /\ ChangeStage2(n)

\* setCurrentLinkInput: the user enters a link of this service, or clears it.
TypeLink(text) ==
  /\ Offers3("link")
  /\ linkInput' = text
  /\ expired' = FALSE
  /\ UNCHANGED <<page, urls, prefer, misled, busy, calls>>

-----------------------------------------------------------------------------
(* The menus of the default scheme's stage 2 *)

OpenMenu ==
  /\ scheme = "default" /\ ~menu
  /\ snap # NoSnap /\ Offers2("edit stage 2")
  /\ menu' = TRUE
  /\ UNCHANGED <<page, output, busy, calls>>

\* Only a pointer put down elsewhere closes it: not the keyboard, and not an
\* answer.
CloseMenu ==
  /\ menu /\ menu' = FALSE
  /\ UNCHANGED <<page, output, busy, calls>>

\* The options of an open menu do not depend on what its button does.
PickFromMenu(n) ==
  /\ menu /\ menu' = FALSE
  /\ ChangeStage2(n)

-----------------------------------------------------------------------------
(* Conversion and reset: handleStage1Convert, handleStage2Reset *)

Convert ==
  /\ Offers1("convert")
  /\ busy' = busy \cup {"convert"}
  /\ Begin("convert", input, NoSnap, FALSE)
  /\ UNCHANGED <<page, output>>

Reset ==
  /\ Offers2("reset stage 2")
  /\ busy' = busy \cup {"reset"}
  /\ Begin("reset", input, NoSnap, FALSE)
  /\ UNCHANGED <<page, output>>

\* A bug: the links of the earlier snapshot stay.
Converted_KeepsLinks(s) ==
  /\ IsCall(s, {"convert", "reset"}) /\ calls[s].input # Blank
  /\ \E n \in Snaps : snap' = n
  /\ catalog' = calls[s].input
  /\ stale' = FALSE /\ restored' = "idle"
  /\ outrun' = (input # calls[s].input)
  /\ End(s, {calls[s].op})
  /\ UNCHANGED <<input, urls, expired, misled, linkInput, prefer>>

\* applyStage1ConvertSuccessState: the snapshot is merged from the answer and
\* the present one, or replaced by the answer's.
Converted(s) ==
  /\ IsCall(s, {"convert", "reset"}) /\ calls[s].input # Blank
  /\ \E n \in Snaps : snap' = n
  /\ catalog' = calls[s].input
  /\ stale' = FALSE /\ restored' = "idle"
  /\ urls' = NoUrls /\ expired' = FALSE
  /\ outrun' = (input # calls[s].input) /\ misled' = FALSE
  /\ End(s, {calls[s].op})
  /\ UNCHANGED <<input, linkInput, prefer>>

ConversionFails(s) ==
  /\ IsCall(s, {"convert", "reset"})
  /\ End(s, {calls[s].op})
  /\ UNCHANGED <<page, output>>

-----------------------------------------------------------------------------
(* Restore: handleRestore *)

Restore ==
  /\ Offers3("restore")
  /\ busy' = busy \cup {"restore"}
  /\ expired' = FALSE
  /\ Begin("restore", linkInput.link.input, linkInput.link.snap, linkInput.form = "short")
  /\ UNCHANGED <<page, urls, linkInput, prefer, misled>>

\* buildRestorePatch
RestoredPage(s, n) ==
  /\ input' = calls[s].input /\ snap' = n
  /\ stale' = FALSE /\ outrun' = FALSE
  /\ Show(LinkOf(s), calls[s].short)
  /\ prefer' = calls[s].short
  /\ End(s, {"restore"})

\* The catalog comes from the restored input.  It may be empty, if the server
\* could not build it, and then counts as made from that input all the same.
RestoredReplayable(s) ==
  /\ IsCall(s, {"restore"})
  /\ RestoredPage(s, calls[s].snap)
  /\ restored' = "replayable" /\ catalog' = calls[s].input

\* What the link names is gone: the page becomes read-only.  A payload of an
\* old version brings no snapshot.
RestoredConflicted(s) ==
  /\ IsCall(s, {"restore"})
  /\ \E n \in {calls[s].snap, NoSnap} : RestoredPage(s, n)
  /\ restored' = "conflicted" /\ catalog' = NoCatalog

RestoreFails(s) ==
  /\ IsCall(s, {"restore"})
  /\ expired' = FALSE
  /\ End(s, {"restore"})
  /\ UNCHANGED <<page, urls, linkInput, prefer, misled>>

-----------------------------------------------------------------------------
(* Generation: handleGenerate *)

\* The precheck passed; where it does not, nothing but a notice changes.
Generate ==
  /\ Offers2("generate")
  /\ busy' = busy \cup {"generate"}
  /\ Begin("generate", input, snap, prefer)
  /\ UNCHANGED <<page, output>>

GeneratedLong(s) ==
  /\ IsCall(s, {"generate"}) /\ calls[s].input # Blank
  /\ ~calls[s].short /\ LinkOf(s) \notin Oversized
  /\ End(s, {"generate"})
  /\ UNCHANGED <<page, prefer>>
  /\ Show(LinkOf(s), FALSE)

\* The short form is preferred, or the link is too long without it.
GeneratedToShorten(s) ==
  /\ IsCall(s, {"generate"}) /\ calls[s].input # Blank
  /\ calls[s].short \/ LinkOf(s) \in Oversized
  /\ calls' = [calls EXCEPT ![s].op = "shorten_generated"]
  /\ busy' = busy \cup {"shorten"}
  /\ UNCHANGED <<page, output>>

GenerateFails(s) ==
  /\ IsCall(s, {"generate"})
  /\ End(s, {"generate"})
  /\ UNCHANGED <<page, output>>

GeneratedShort(s) ==
  /\ IsCall(s, {"shorten_generated"})
  /\ prefer' = TRUE
  /\ End(s, {"generate", "shorten"})
  /\ UNCHANGED page
  /\ Show(LinkOf(s), TRUE)

\* A link that must not be shown long is not shown at all.
GeneratedShortFails(s) ==
  /\ IsCall(s, {"shorten_generated"})
  /\ prefer' = (LinkOf(s) \in Oversized)
  /\ End(s, {"generate", "shorten"})
  /\ UNCHANGED page
  /\ IF LinkOf(s) \in Oversized
       THEN /\ urls' = NoUrls /\ misled' = FALSE
            /\ UNCHANGED <<linkInput, expired>>
       ELSE Show(LinkOf(s), FALSE)

-----------------------------------------------------------------------------
(* Short links: handlePreferShortUrl *)

\* A bug: nothing keeps the user from the long form of a long link.
PreferLong_Always ==
  /\ Offers3("prefer")
  /\ prefer' = FALSE
  /\ linkInput' = Displayed(FALSE)
  /\ UNCHANGED <<page, urls, expired, misled, busy, calls>>

\* The switch is turned off.
PreferLong ==
  /\ Offers3("prefer")
  /\ prefer' = RequiresShort
  /\ linkInput' = Displayed(RequiresShort)
  /\ UNCHANGED <<page, urls, expired, misled, busy, calls>>

\* It is turned on, and no request is needed.
PreferShort ==
  /\ Offers3("prefer")
  /\ urls # NoUrls => urls.short
  /\ prefer' = TRUE
  /\ linkInput' = Displayed(TRUE)
  /\ UNCHANGED <<page, urls, expired, misled, busy, calls>>

\* It is turned on for a link that has no short form yet.
Shorten ==
  /\ Offers3("prefer")
  /\ urls # NoUrls /\ ~urls.short
  /\ prefer' = TRUE
  /\ busy' = busy \cup {"shorten"}
  /\ Begin("shorten", urls.link.input, urls.link.snap, TRUE)
  /\ UNCHANGED <<page, urls, expired, linkInput, misled>>

Shortened(s) ==
  /\ IsCall(s, {"shorten"})
  /\ End(s, {"shorten"})
  /\ UNCHANGED <<page, prefer>>
  /\ Show(LinkOf(s), TRUE)

ShortenFails(s) ==
  /\ IsCall(s, {"shorten"})
  /\ prefer' = FALSE
  /\ End(s, {"shorten"})
  /\ UNCHANGED <<page, urls, expired, linkInput, misled>>

-----------------------------------------------------------------------------

User ==
  \/ \E i \in Inputs : EditInput(i)
  \/ ResetInput
  \/ \E n \in Snaps : EditStage2(n)
  \/ \E text \in Typeable \cup {NoLink} : TypeLink(text)
  \/ Convert
  \/ Reset
  \/ Restore
  \/ Generate
  \/ PreferLong
  \/ PreferShort
  \/ Shorten

Server(s) ==
  \/ Converted(s)
  \/ ConversionFails(s)
  \/ RestoredReplayable(s)
  \/ RestoredConflicted(s)
  \/ RestoreFails(s)
  \/ GeneratedLong(s)
  \/ GeneratedToShorten(s)
  \/ GenerateFails(s)
  \/ GeneratedShort(s)
  \/ GeneratedShortFails(s)
  \/ Shortened(s)
  \/ ShortenFails(s)

Menus == OpenMenu \/ CloseMenu \/ \E n \in Snaps : PickFromMenu(n)

Next ==
  \/ (User \/ \E s \in Slots : Server(s)) /\ UNCHANGED <<scheme, menu>>
  \/ Menus /\ UNCHANGED scheme

Spec == Init /\ [][Next]_vars

-----------------------------------------------------------------------------
(* Properties *)

\* Every variable stays within the types of the program.
TypeOK ==
  /\ scheme \in Schemes /\ menu \in BOOLEAN
  /\ input \in Inputs
  /\ catalog \in Inputs \cup {NoCatalog}
  /\ snap \in Snaps \cup {NoSnap}
  /\ stale \in BOOLEAN /\ expired \in BOOLEAN /\ prefer \in BOOLEAN
  /\ restored \in {"idle", "replayable", "conflicted"}
  /\ urls \in Urls \cup {NoUrls}
  /\ linkInput \in LinkTexts \cup {NoLink}
  /\ busy \subseteq Controls
  /\ calls \in [Slots -> Call \cup {NoCall}]
  /\ misled \in BOOLEAN /\ outrun \in BOOLEAN

\* A control is disabled while its request is in flight, so there is one
\* request of each kind at most (02-frontend-spec.md:277).  Shortening is
\* not covered: its flag is shared with the second half of a generation.
OpsOf(control) == IF control = "generate" THEN {"generate", "shorten_generated"} ELSE {control}

ControlsBusyInFlight ==
  \A control \in Controls \ {"shorten"} :
    /\ control \in busy <=> \E s \in Slots : IsCall(s, OpsOf(control))
    /\ \A s, t \in Slots : IsCall(s, OpsOf(control)) /\ IsCall(t, OpsOf(control)) => s = t

\* The links on display encode the page's input and snapshot, unless they
\* arrived when the page had been changed already: no edit, conversion,
\* restore, switch or failure leaves links of an earlier page standing, or
\* new ones marked as expired (stage3Status).
OnlyLateAnswersMislead ==
  urls # NoUrls => ~expired /\ (urls.link # [input |-> input, snap |-> snap] => misled)

\* Generation is offered only for a stage 2 that was made from the present
\* input, unless the answer that brought it was outrun by an edit: a conflict
\* and a stale stage 2 are left by a conversion or a restore only
\* (02-frontend-spec.md:168, 339-340).
OnlyLateAnswersUnmark ==
  CanGenerate => catalog # NoCatalog /\ (catalog = input \/ outrun)

\* While an oversized link has its short form, only the user can put the
\* long form into the field: no switch and no answer does
\* (02-frontend-spec.md:298).
Typed == \E text \in Typeable \cup {NoLink} : TypeLink(text)

OversizedStaysShort ==
  [][linkInput' # linkInput /\ urls' # NoUrls /\ urls'.short /\ urls'.link \in Oversized /\ ~Typed
       => linkInput' # [link |-> urls'.link, form |-> "long"]]_vars

\* "In the read-only conflict state the front end must disable the controls of
\* stage 2" (02-frontend-spec.md:339): no step of the user changes it.
ConflictedIsReadOnly == [][restored = "conflicted" /\ calls' = calls => snap' = snap]_vars

\* "After any change of stage 1 input, generating is disabled until the next
\* successful conversion" (02-frontend-spec.md:168).
GenerateIsCurrent == CanGenerate => catalog = input

=============================================================================
