------------------------------- MODULE Schemes -------------------------------
(***************************************************************************)
(* What the five user interfaces under web/src/scheme let the user do.     *)
(*                                                                         *)
(* All of them drive the one hook of web/src/hooks/useAppWorkflow.ts, which *)
(* leaves it to them to disable what must not be used.  They do not agree  *)
(* on it.  There is one operator for each part of each page: the set of    *)
(* operations that part offers.  What has to be folded open first counts   *)
(* as offered; layout and wording are left out.                            *)
(***************************************************************************)

Schemes == {"default", "b1", "b2", "c1", "c2"}

When(condition, ops) == IF condition THEN ops ELSE {}

-----------------------------------------------------------------------------
(* The steps of the workflow.  `p` says of the page:                        *)
(*   busy      the controls whose request is under way,                     *)
(*   blank     stage 1 is empty,                                            *)
(*   initial   stage 1 is as on a fresh page (isStage1AtInitial),           *)
(*   editable  isStage2Editable,      generable  canGenerate,               *)
(*   linked    there are links (generatedUrls),                             *)
(*   text      the link field is not empty.                                 *)

DefaultStage1(p) ==
  When("convert" \notin p.busy /\ ~p.initial, {"reset stage 1"})
    \cup When("convert" \notin p.busy /\ ~p.blank, {"convert"})

\* A bug: the reset button looks at the other one's request only.
DefaultStage2_ResetTwice(p) ==
  When(p.editable, {"edit stage 2"})
    \cup When(p.editable /\ "generate" \notin p.busy, {"reset stage 2"})
    \cup When(p.generable /\ p.busy \cap {"reset", "generate"} = {}, {"generate"})

DefaultStage2(p) ==
  When(p.editable, {"edit stage 2"})
    \cup When(p.editable /\ p.busy \cap {"reset", "generate"} = {}, {"reset stage 2"})
    \cup When(p.generable /\ p.busy \cap {"reset", "generate"} = {}, {"generate"})

DefaultStage3(p) ==
  {"link"} \cup When(p.busy \cap {"generate", "shorten"} = {}, {"prefer"})
    \cup When(p.text, {"open", "copy", "download"})
    \cup When(p.text /\ "restore" \notin p.busy, {"restore"})

B1Stage1(p) == When("convert" \notin p.busy /\ ~p.blank, {"convert"})

B1Stage2(p) == When(p.editable, {"edit stage 2"}) \cup When(p.generable, {"generate"})

\* The switch has no use for a page without any link, and it does not look at
\* a generation under way.
B1Stage3(p) ==
  {"link"} \cup When("shorten" \notin p.busy /\ (p.linked \/ p.text), {"prefer"})
    \cup When(p.text, {"open", "copy", "download"})
    \cup When(p.text /\ "restore" \notin p.busy, {"restore"})

B2Stage1(p) == When("convert" \notin p.busy /\ ~p.blank, {"convert"})

B2Stage2(p) ==
  When(p.editable, {"edit stage 2"})
    \cup When(p.generable /\ "generate" \notin p.busy, {"generate"})

B2Stage3(p) ==
  {"link"} \cup When(p.busy \cap {"generate", "shorten"} = {}, {"prefer"})
    \cup When(p.text, {"open", "copy", "download"})
    \cup When(p.text /\ "restore" \notin p.busy, {"restore"})

\* An empty stage 1 can be sent as well; the server refuses it.
C1Stage1(p) == When("convert" \notin p.busy, {"convert"})

C1Stage2(p) == When(p.editable, {"edit stage 2"}) \cup When(p.generable, {"generate"})

C1Stage3(p) ==
  {"link"} \cup When("shorten" \notin p.busy, {"prefer"})
    \cup When(p.text, {"open", "copy", "download"})
    \cup When(p.text /\ "restore" \notin p.busy, {"restore"})

C2Stage1(p) == When("convert" \notin p.busy /\ ~p.blank, {"convert"})

C2Stage2(p) == When(p.editable, {"edit stage 2"}) \cup When(p.generable, {"generate"})

C2Stage3(p) ==
  {"link"} \cup When(p.busy \cap {"generate", "shorten"} = {}, {"prefer"})
    \cup When(p.text, {"open", "copy", "download"})
    \cup When(p.text /\ "restore" \notin p.busy, {"restore"})

\* What the three stages of a scheme's page offer.
Stage1Of(scheme, p) ==
  CASE scheme = "default" -> DefaultStage1(p)
    [] scheme = "b1" -> B1Stage1(p)
    [] scheme = "b2" -> B2Stage1(p)
    [] scheme = "c1" -> C1Stage1(p)
    [] scheme = "c2" -> C2Stage1(p)

Stage2Of(scheme, p) ==
  CASE scheme = "default" -> DefaultStage2(p)
    [] scheme = "b1" -> B1Stage2(p)
    [] scheme = "b2" -> B2Stage2(p)
    [] scheme = "c1" -> C1Stage2(p)
    [] scheme = "c2" -> C2Stage2(p)

Stage3Of(scheme, p) ==
  CASE scheme = "default" -> DefaultStage3(p)
    [] scheme = "b1" -> B1Stage3(p)
    [] scheme = "b2" -> B2Stage3(p)
    [] scheme = "c1" -> C1Stage3(p)
    [] scheme = "c2" -> C2Stage3(p)

-----------------------------------------------------------------------------
(* A row of stage 2.  `r` says of it:                                       *)
(*   first     it is the first of its source (isStage2DefaultInstance),     *)
(*   alone     it is the only one,                                          *)
(*   mode, target      what it has now,                                     *)
(*   modes     what the catalog makes available,                            *)
(*   listed    the targets the catalog has for its mode,                    *)
(*   choices   those among them that are not disabled.                      *)
(* Unset stands for the empty choice.  A name can always be typed.          *)

Unset == "unset"

ToMode(modes) == {[op |-> "mode", to |-> m] : m \in modes}
ToTarget(targets) == {[op |-> "target", to |-> t] : t \in targets}

\* A menu of buttons: what is in force can be picked again.
FromMenu(options) == options

\* A select element tells of a change only.
Shown(r) == IF r.target \in r.listed THEN r.target ELSE Unset

\* Copied by its first row, deleted by the others.
CopyFirst(r) ==
  When(r.first, {[op |-> "clone"]}) \cup When(~r.first /\ ~r.alone, {[op |-> "delete"]})

DefaultRowName(r) == CopyFirst(r)

DefaultRowMode(r) == ToMode(FromMenu(r.modes))

DefaultRowTarget(r) ==
  When(r.mode = "chain", ToTarget(r.choices))
    \cup When(r.mode = "port_forward", ToTarget(FromMenu({Unset} \cup r.choices)))

\* b1 copies and deletes every row.
B1Row(r) ==
  {[op |-> "clone"]} \cup When(~r.alone, {[op |-> "delete"]}) \cup ToMode(r.modes \ {r.mode})

B1Picker(r) == When(r.mode # "none", ToTarget(r.choices))

B2Row(r) ==
  CopyFirst(r) \cup ToMode(r.modes \ {r.mode})
    \cup When(r.mode # "none", ToTarget(r.choices \ {r.target}))

\* Buttons, one for each mode.
C1Row(r) == CopyFirst(r) \cup ToMode(r.modes)

C1Target(r) == When(r.mode # "none", ToTarget(({Unset} \cup r.choices) \ {Shown(r)}))

C2Row(r) == CopyFirst(r) \cup ToMode(r.modes)

C2Target(r) == When(r.mode # "none", ToTarget(({Unset} \cup r.choices) \ {Shown(r)}))

RowOf(scheme, r) ==
  CASE scheme = "default" -> DefaultRowName(r) \cup DefaultRowMode(r) \cup DefaultRowTarget(r)
    [] scheme = "b1" -> B1Row(r) \cup B1Picker(r)
    [] scheme = "b2" -> B2Row(r)
    [] scheme = "c1" -> C1Row(r) \cup C1Target(r)
    [] scheme = "c2" -> C2Row(r) \cup C2Target(r)

=============================================================================
