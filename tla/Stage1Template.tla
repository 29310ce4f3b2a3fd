--------------------------- MODULE Stage1Template ---------------------------
(***************************************************************************)
(* The options of stage 1 in the five user interfaces: the template, the    *)
(* tags that include and exclude nodes, and the check boxes.  The settings  *)
(* of the deployment arrive once, at any time or never, and bring the       *)
(* template that an empty field is filled with.                             *)
(*                                                                         *)
(* The two lists of tags are alike, and so are the three boxes: there is    *)
(* one of each.  The text areas and the relays are one variable that says   *)
(* whether they are empty, as on a fresh page.                              *)
(***************************************************************************)
EXTENDS Integers, SequencesExt, Lists, Schemes

CONSTANTS Tags, MaxTags  \* what can be typed, and a bound on a list

TemplateAssumption == MaxTags \in Nat

VARIABLES
  scheme,      \* the user interface
  config,      \* advancedOptions.config
  tags,        \* include, or exclude: null stands for the empty list
  box,         \* emoji, which is on at first
  empty,       \* are the rest of the fields empty?
  settings,    \* GET /api/runtime-config
  restoring,   \* is a restore in flight?
  untouched    \* nobody has changed stage 1 since it was fresh (history)

options == <<config, tags, box>>
vars    == <<scheme, options, empty, settings, restoring, untouched>>

\* A field that holds blanks is not null; what the bundle of an older release
\* wrote into it can still be restored (DEFAULT_TEMPLATE_URL).
Templates == {"null", "blank", "deployment", "bundled", "own"}

TagLists == BoundedSeq(Tags, MaxTags)

Init ==
  /\ scheme \in Schemes
  /\ config = "null" /\ tags = <<>> /\ box = TRUE /\ empty = TRUE
  /\ settings = "awaited" /\ restoring = FALSE /\ untouched = TRUE

-----------------------------------------------------------------------------
(* The options of each scheme *)

SetTemplate(value) ==
  /\ config' = value /\ untouched' = FALSE
  /\ UNCHANGED <<tags, box, empty, settings, restoring>>

\* What is typed: b1 and c1 take blanks as they are.
Typed == {"null", "deployment", "bundled", "own"}

\* The button is disabled until there is a default.
RestoreTemplate == settings = "known" /\ SetTemplate("deployment")

DefaultTemplateRow == scheme = "default" /\ ((\E t \in Typed : SetTemplate(t)) \/ RestoreTemplate)
B1TemplateRow == scheme = "b1" /\ ((\E t \in Templates : SetTemplate(t)) \/ RestoreTemplate)
B2TemplateRow == scheme = "b2" /\ ((\E t \in Typed : SetTemplate(t)) \/ RestoreTemplate)
C2TemplateRow == scheme = "c2" /\ ((\E t \in Typed : SetTemplate(t)) \/ RestoreTemplate)

\* c1's button is never disabled, and empties the field with no default.
C1TemplateRow ==
  /\ scheme = "c1"
  /\ \/ \E t \in Templates : SetTemplate(t)
     \/ SetTemplate(IF settings = "known" THEN "deployment" ELSE "blank")

\* Every scheme trims a tag, and takes it once.
SetTags(list) ==
  /\ tags' = list /\ untouched' = FALSE
  /\ UNCHANGED <<config, box, empty, settings, restoring>>

AddTag == \E t \in Tags \ Range(tags) : Len(tags) < MaxTags /\ SetTags(Append(tags, t))
RemoveTagAt == \E k \in DOMAIN tags : SetTags(RemoveAt(tags, k))

\* The tag inputs of b1 and b2 remove by text.
RemoveTag == \E t \in Range(tags) : SetTags(Those(tags, LAMBDA u : u # t))

\* Unchecked is null, not false.
Toggle ==
  /\ box' = ~box /\ untouched' = FALSE
  /\ UNCHANGED <<config, tags, empty, settings, restoring>>

DefaultOptions == scheme = "default" /\ (AddTag \/ RemoveTagAt \/ Toggle)
B1Options == scheme = "b1" /\ (AddTag \/ RemoveTag \/ Toggle)
B2Options == scheme = "b2" /\ (AddTag \/ RemoveTag \/ Toggle)
C1Options == scheme = "c1" /\ (AddTag \/ RemoveTagAt \/ Toggle)
C2Options == scheme = "c2" /\ (AddTag \/ RemoveTagAt \/ Toggle)

\* updateStage1Input, from the text areas and the dialogs
EditRest ==
  /\ empty' \in BOOLEAN /\ untouched' = FALSE
  /\ UNCHANGED <<options, settings, restoring>>

-----------------------------------------------------------------------------
(* The fresh page *)

\* buildStage1BaselineInput: what a reset makes of the template.  A bug:
\* the template of the bundle is taken for the deployment's.
Baseline_Bundled == IF settings = "known" THEN "bundled" ELSE "null"
Baseline == IF settings = "known" THEN "deployment" ELSE "null"

\* isStage1AtInitial, which disables the reset
AtInitial == empty /\ tags = <<>> /\ box /\ config = Baseline

ResetStage1 ==
  /\ "reset stage 1" \in Stage1Of(scheme, [busy |-> {}, blank |-> FALSE, initial |-> AtInitial])
  /\ config' = Baseline /\ tags' = <<>> /\ box' = TRUE /\ empty' = TRUE /\ untouched' = TRUE
  /\ UNCHANGED <<settings, restoring>>

\* applyDefaultTemplateURL: a template the user has chosen stays.
Applied == IF config \in {"null", "blank", "bundled"} THEN "deployment" ELSE config

SettingsArrive ==
  /\ settings = "awaited" /\ settings' = "known"
  /\ config' = Applied
  /\ UNCHANGED <<tags, box, empty, restoring, untouched>>

\* The request failed, or the deployment has no default.
SettingsFail ==
  /\ settings = "awaited" /\ settings' = "unknown"
  /\ UNCHANGED <<options, empty, restoring, untouched>>

StartRestore ==
  /\ ~restoring /\ restoring' = TRUE
  /\ UNCHANGED <<options, empty, settings, untouched>>

\* The link's input replaces all of stage 1, with the template it was made with.
RestoreArrives ==
  /\ restoring /\ restoring' = FALSE
  /\ config' \in Templates \ {"blank"} /\ tags' \in TagLists /\ box' \in BOOLEAN
  /\ empty' = FALSE /\ untouched' = FALSE
  /\ UNCHANGED settings

RestoreFails ==
  /\ restoring /\ restoring' = FALSE
  /\ UNCHANGED <<options, empty, settings, untouched>>

-----------------------------------------------------------------------------

TemplateRow == DefaultTemplateRow \/ B1TemplateRow \/ B2TemplateRow \/ C1TemplateRow \/ C2TemplateRow
Options == DefaultOptions \/ B1Options \/ B2Options \/ C1Options \/ C2Options
Answers == SettingsArrive \/ SettingsFail \/ RestoreArrives \/ RestoreFails

Next ==
  /\ UNCHANGED scheme
  /\ TemplateRow \/ Options \/ EditRest \/ ResetStage1 \/ StartRestore \/ Answers

Spec == Init /\ [][Next]_vars

-----------------------------------------------------------------------------
(* Properties *)

TypeOK ==
  /\ scheme \in Schemes
  /\ config \in Templates /\ tags \in Seq(Tags)
  /\ settings \in {"awaited", "known", "unknown"}
  /\ {box, empty, restoring, untouched} \subseteq BOOLEAN

\* A page nobody has changed is the one a reset makes, whenever the settings
\* of the deployment arrive and even if they never do.
FreshIsInitial == untouched => AtInitial

=============================================================================
