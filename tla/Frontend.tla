------------------------------- MODULE Frontend -------------------------------
(***************************************************************************)
(* The parts of the page that have no effect on one another, side by side: *)
(* `part` says which of them a behaviour is about, and the variables of    *)
(* the others keep their first values.                                     *)
(*   groups    Stage2Editor,                                               *)
(*   relays    Stage1Dialogs,                                              *)
(*   template  Stage1Template,                                             *)
(*   forwards  Stage2Rows with port forwarding services only,              *)
(*   chains    Stage2Rows with chain targets only.                         *)
(***************************************************************************)
EXTENDS Stage2Editor, Stage1Dialogs

CONSTANTS
  Tags,                         \* Stage1Template
  Names, Blank, Given, Numbered, \* Stage2Rows, in both parts
  RowBounds,                    \* its bounds on the rows of each source
  Found,                        \* the sources of its catalogs
  Services, Offers, Renames,    \* its services, what a catalog has of them, what is typed,
  Links,                        \* and the links' rows
  Targets, ChainOffers, ChainRenames, ChainLinks \* the same for chain targets

VARIABLES
  part,
  config, tags, box, empty, settings, untouched,
  status, offered, lines, marks, flying, verdict

Template == INSTANCE Stage1Template

Forwards == INSTANCE Stage2Rows WITH
  Typed <- Renames, MaxRows <- RowBounds, Chains <- {}, Relays <- Services, rows <- lines

Chained == INSTANCE Stage2Rows WITH
  Typed <- ChainRenames, MaxRows <- RowBounds, Chains <- Targets, Relays <- {}, Offers <- ChainOffers,
  Links <- ChainLinks, rows <- lines

PageAssumption ==
  /\ EditorAssumption /\ DialogsAssumption /\ Template!TemplateAssumption
  /\ Forwards!RowsAssumption /\ Chained!RowsAssumption

-----------------------------------------------------------------------------

dialogs  == <<relays, landing, dialog, form, draft, typed, crashed, late, dropped>>
template == <<config, tags, box, empty, settings, untouched>>
table    == <<status, offered, lines, marks, flying, verdict>>

Start ==
  /\ part \in {"groups", "relays", "template", "forwards", "chains"}
  /\ EditorInit /\ DialogsInit /\ Template!Init
  /\ IF part = "chains" THEN Chained!Init ELSE Forwards!Init
  /\ part = "groups" => scheme = "default"
  /\ part \notin {"forwards", "chains"} => offered = {}

Step ==
  /\ UNCHANGED part
  /\ \/ part = "groups" /\ EditorNext /\ UNCHANGED <<scheme, restoring, dialogs, template, table>>
     \/ part = "relays" /\ DialogsNext /\ UNCHANGED <<editorVars, template, table>>
     \/ part = "template" /\ Template!Next /\ UNCHANGED <<editorVars, dialogs, table>>
     \/ part = "forwards" /\ Forwards!Next /\ UNCHANGED <<editorVars, restoring, dialogs, template>>
     \/ part = "chains" /\ Chained!Next /\ UNCHANGED <<editorVars, restoring, dialogs, template>>

Page == Start /\ [][Step]_<<part, editorVars, scheme, restoring, dialogs, template, table>>

-----------------------------------------------------------------------------
(* The properties of Stage2Editor and Stage1Dialogs are their own; these    *)
(* are of the other parts.                                                  *)

\* Every part keeps its variables within their types.
PageTypeOK ==
  /\ EditorTypeOK /\ DialogsTypeOK /\ Template!TypeOK
  /\ IF part = "chains" THEN Chained!TypeOK ELSE Forwards!TypeOK

\* Stage1Template: a page nobody has changed is the one a reset makes.
FreshIsInitial == Template!FreshIsInitial

\* Stage2Rows: rows come to share a service only when one is copied.  Chained
\* has no services.
OnlyCopiesShare == [][part = "forwards" => Forwards!SharedByCopy]_<<scheme, table>>

\* Stage2Rows: what the server has refused is marked in the row it was found
\* in, as that row was; unless, while the answer was on its way, the row was
\* edited or deleted, a restore was answered, or a conversion without its source.
MarksStayInPlace == Forwards!MarksStayInPlace /\ Chained!MarksStayInPlace

\* Stage2Rows: a row marked as a duplicate has a namesake, and changing a row's
\* mode or target takes no mark from the others.
MarksKeepUp ==
  [][/\ part = "forwards" => Forwards!HasNamesake /\ Forwards!OthersSpared
     /\ part = "chains" => Chained!HasNamesake /\ Chained!OthersSpared]_<<scheme, table>>

=============================================================================
