------------------------------ MODULE Stage2Rows ------------------------------
(***************************************************************************)
(* The rows of stage 2 while they are edited, and what the page marks in   *)
(* them: names, modes and targets, the five user interfaces' controls for  *)
(* them, the check of names in the browser and the verdict of the server.  *)
(*                                                                         *)
(* An error is about a row, but what comes from the server names it by its *)
(* source and its proxy name, and both can change their meaning: names are *)
(* edited, rows are deleted and copied, and a request can be in flight     *)
(* meanwhile; and the answer to a conversion or a restore may come first   *)
(* and bring other rows.  A mark of the server's is given the row it is    *)
(* `about`, mode and target, until that cannot be relied on any more; the  *)
(* program does not know it.  Groups of rows are modelled in Stage2Editor; *)
(* which request is under way, and the requests' other effects, in         *)
(* Workflow.                                                               *)
(***************************************************************************)
EXTENDS Integers, SequencesExt, Schemes

CONSTANTS
  SourceSeq,   \* landing sources, in their order
  Names,       \* proxy names, trimmed, with Blank
  Blank,
  Typed,       \* those that are typed
  Given,       \* the name a source begins with
  Numbered,    \* each name, alone and numbered: x, x 2, ...
  Chains,      \* chain targets; none of them is empty
  Relays,      \* port forwarding services
  Found,       \* which sources a catalog may have; never none
  Offers,      \* which targets and services it may have
  Links,       \* the rows that links were made of
  MaxRows      \* bound on the rows of each source

Sources == ToSet(SourceSeq)

Modes == {"none", "chain", "port_forward"}

Row == [name : Names, mode : Modes, target : Chains \cup Relays \cup {Unset}]

\* What the server has made a link of: it has refused blank names, names and
\* services used twice, and a target in mode none.
Linked(link) ==
  \A s, t \in Sources : \A i \in DOMAIN link[s], j \in DOMAIN link[t] :
    /\ link[s][i].name # Blank /\ (link[s][i].mode = "none" => link[s][i].target = Unset)
    /\ <<s, i>> # <<t, j>> =>
         /\ link[s][i].name # link[t][j].name
         /\ ~(link[s][i].mode = "port_forward" /\ link[t][j].mode = "port_forward"
              /\ link[s][i].target = link[t][j].target)

RowsAssumption ==
  /\ SourceSeq \in Seq(Sources) /\ IsInjective(SourceSeq)
  /\ Blank \in Names /\ Typed \subseteq Names /\ Given \in [Sources -> Names \ {Blank}]
  /\ Numbered \in [Names -> Seq(Names)] /\ \A n \in Names : Numbered[n][1] = n
  /\ Found \subseteq (SUBSET Sources) \ {{}}
  /\ Offers \subseteq SUBSET (Chains \cup Relays)
  /\ Links \subseteq [Sources -> Seq(Row)] /\ \A link \in Links : Linked(link)
  /\ Chains \cap Relays = {} /\ Unset \notin Chains \cup Relays
  /\ MaxRows \in [Sources -> Nat \ {0}]

\* The row is not known, or not what it was.
Unknown == [name |-> Blank, mode |-> "none", target |-> Unset]

\* A mark: an error of scope stage2_instance.
Mark == [source : Sources, name : Names, code : {"duplicate", "refused"}, about : Row]

VARIABLES
  scheme,   \* the user interface
  status,   \* editable, stale or conflicted
  offered,  \* the chain targets and services of the catalog; none without one
  rows,     \* the rows of each source; none of one that the catalog has not
  marks,    \* blockingErrors
  flying,   \* is a generation in flight?
  verdict   \* what its answer will say

vars == <<scheme, status, offered, rows, marks, flying, verdict>>

RowsOf(src) == ToSet(rows[src])
AllRows == UNION {RowsOf(src) : src \in Sources}

\* What a source starts with: a chain target if one fits its region; the other
\* mode only where there is no chain target at all.
Default(src, menu, chain) ==
  [name |-> Given[src],
   mode |-> IF chain # Unset THEN "chain"
            ELSE IF menu \cap Chains = {} /\ menu # {} THEN "port_forward" ELSE "none",
   target |-> chain]

\* The rows a catalog of these targets may come with.
Defaults(menu) ==
  {[src \in Sources |-> Default(src, menu, chain[src])] :
     chain \in [Sources -> (menu \cap Chains) \cup {Unset}]}

\* The first conversion.  Before it there is nothing to edit.
Init ==
  /\ scheme \in Schemes /\ status = "editable"
  /\ offered \in Offers
  /\ \E default \in Defaults(offered) : rows = [src \in Sources |-> <<default[src]>>]
  /\ marks = {} /\ flying = FALSE /\ verdict = {}

-----------------------------------------------------------------------------
(* Choices *)

ModeOptions ==
  {"none"} \cup When(offered \cap Chains # {}, {"chain"})
    \cup When(offered \cap Relays # {}, {"port_forward"})

\* getSelectedForwardRelays
Selected == {r.target : r \in {q \in AllRows : q.mode = "port_forward"}} \ {Unset}

\* A bug: a service that is selected can be chosen again.
RelayChoices_All(row) == offered \cap Relays

\* getForwardRelayChoices, those that are not disabled: the row's own service
\* counts as free, whoever else has it.
RelayChoices(row) ==
  (offered \cap Relays) \ (Selected \ When(row.mode = "port_forward", {row.target}))

\* getSelectableChoices
Selectable(row, mode) ==
  CASE mode = "chain" -> offered \cap Chains
    [] mode = "port_forward" -> RelayChoices(row)
    [] mode = "none" -> {}

\* pickNextTarget
NextTarget(row, mode) == IF row.target \in Selectable(row, mode) THEN row.target ELSE Unset

\* What the page of this scheme offers in a row.
Operations(src, i) ==
  LET row == rows[src][i]
  IN  RowOf(scheme,
        [first |-> i = 1, alone |-> Len(rows[src]) = 1,
         mode |-> row.mode, target |-> row.target, modes |-> ModeOptions,
         listed |-> CASE row.mode = "chain" -> offered \cap Chains
                      [] row.mode = "port_forward" -> offered \cap Relays
                      [] row.mode = "none" -> {},
         choices |-> Selectable(row, row.mode)])

\* A menu of the default scheme that is open when the answer to a restore takes
\* the catalog away: the row's own mode, no target, and its own service.
OpenMenus(row) ==
  ToMode({row.mode}) \cup When(row.mode = "port_forward", ToTarget({Unset, row.target}))

-----------------------------------------------------------------------------
(* Marks *)

\* A bug: a mark is found by the source alone.
Hits_BySource(mark, src, row) == mark.source = src

\* matchesStage2RowError
Hits(mark, src, row) == mark.source = src /\ mark.name = row.name /\ row.name # Blank

Cleared(src, row) == {m \in marks : ~Hits(m, src, row)}

\* clearDuplicateProxyNameErrors
Lasting == {m \in marks : m.code # "duplicate"}

Places == UNION {{src} \X (DOMAIN rows[src]) : src \in Sources}

Namesakes(name) == {p \in Places : rows[p[1]][p[2]].name = name}

\* collectDuplicateProxyNameErrors
Duplicates ==
  {[source |-> p[1], name |-> rows[p[1]][p[2]].name, code |-> "duplicate", about |-> Unknown] :
     p \in {q \in Places : LET name == rows[q[1]][q[2]].name
                           IN  name # Blank /\ Cardinality(Namesakes(name)) > 1}}

-----------------------------------------------------------------------------
(* Edits *)

Place(src, i, row) == rows' = [rows EXCEPT ![src][i] = row]

\* The same marks, when what rows of this name are is not relied on any more.
Doubted(set, src, name) ==
  {IF m.source = src /\ m.name = name THEN [m EXCEPT !.about = Unknown] ELSE m : m \in set}

\* The same marks, when what rows of these sources are is not relied on any more.
Forgotten(set, srcs) ==
  {IF m.source \in srcs THEN [m EXCEPT !.about = Unknown] ELSE m : m \in set}

\* updateStage2ProxyNameState
Rename(src, i, name) ==
  LET old == rows[src][i].name
  IN  /\ name # old
      /\ Place(src, i, [rows[src][i] EXCEPT !.name = name])
      /\ marks' = Doubted(Doubted(Lasting, src, old), src, name)
      /\ verdict' = Doubted(Doubted(verdict, src, old), src, name)
      /\ UNCHANGED <<status, offered, flying>>

\* applyDuplicateProxyNameValidationState, when a name field is left.
Blur ==
  /\ marks' = Lasting \cup Duplicates
  /\ UNCHANGED <<status, offered, rows, flying, verdict>>

\* updateStage2RowState with the new mode and target.
Update(src, i, mode, target) ==
  LET row == rows[src][i]
  IN  /\ Place(src, i, [row EXCEPT !.mode = mode, !.target = target])
      /\ marks' = IF mode # row.mode \/ target # row.target THEN Cleared(src, row) ELSE marks
      /\ verdict' = Doubted(verdict, src, row.name)
      /\ UNCHANGED <<status, offered, flying>>

ChangeMode(src, i, mode) ==
  Update(src, i, mode, NextTarget(rows[src][i], mode))

ChangeTarget(src, i, target) ==
  Update(src, i, rows[src][i].mode, target)

\* pickNextDerivedProxyName
DerivedName(name) ==
  Numbered[name][CHOOSE k \in DOMAIN Numbered[name] :
    /\ Namesakes(Numbered[name][k]) = {} /\ \A j \in 1..k-1 : Namesakes(Numbered[name][j]) # {}]

\* cloneStage2RowState.  Mode and target are copied, the service as well.
Clone(src, i) ==
  LET row == rows[src][i]
  IN  /\ Len(rows[src]) < MaxRows[src]
      /\ row.name # Blank => \E n \in ToSet(Numbered[row.name]) : Namesakes(n) = {}
      /\ rows' = [rows EXCEPT ![src] =
                    Append(@, [row EXCEPT !.name = IF @ = Blank THEN Blank ELSE DerivedName(@)])]
      /\ UNCHANGED <<status, offered, marks, flying, verdict>>

\* deleteStage2RowState
Delete(src, i) ==
  /\ rows' = [rows EXCEPT ![src] = RemoveAt(@, i)]
  /\ marks' = Cleared(src, rows[src][i])
  /\ verdict' = Doubted(verdict, src, rows[src][i].name)
  /\ UNCHANGED <<status, offered, flying>>

-----------------------------------------------------------------------------
(* Requests *)

Refusal(src, row) == [source |-> src, name |-> row.name, code |-> "refused", about |-> row]

At(p) == rows[p[1]][p[2]]
IndexOf(src) == CHOOSE k \in DOMAIN SourceSeq : SourceSeq[k] = src

\* Is the service of this row used further up?
Taken(p, there) ==
  \E q \in Places :
    /\ q[1] \in there
    /\ IndexOf(q[1]) < IndexOf(p[1]) \/ (q[1] = p[1] /\ q[2] < p[2])
    /\ At(q).mode = "port_forward" /\ At(q).target = At(p).target

\* Is the row's target in the catalog?
Listed(row, menu) ==
  /\ row.mode = "chain" => row.target \in menu \cap Chains
  /\ row.mode = "port_forward" => row.target \in menu \cap Relays

\* What validateGenerateSnapshot finds in a row: a source that is gone, no
\* target or one that is not in the catalog, or a service that is already used.
Wrong(p, menu, there) ==
  \/ p[1] \notin there
  \/ ~Listed(At(p), menu)
  \/ At(p).mode = "port_forward" /\ Taken(p, there)

\* A blank name ends the validation; its error names no row.
Refusals(menu, there) ==
  IF Namesakes(Blank) # {} THEN {}
  ELSE {Refusal(p[1], At(p)) : p \in {q \in Places : Wrong(q, menu, there)}}

\* handleGenerate: the precheck of the names, then the request.  One is in
\* flight at a time.  The server validates against what it loads itself, which
\* need not be what the page was given.
Generate ==
  /\ ~flying /\ status = "editable"
  /\ \/ /\ Duplicates # {}
        /\ marks' = Duplicates /\ UNCHANGED <<flying, verdict>>
     \/ /\ Duplicates = {}
        /\ marks' = {} /\ flying' = TRUE
        /\ \E menu \in Offers, there \in Found : verdict' = Refusals(menu, there)
  /\ UNCHANGED <<status, offered, rows>>

Answered(found) ==
  /\ flying /\ flying' = FALSE /\ verdict' = {}
  /\ marks' = found
  /\ UNCHANGED <<status, offered, rows>>

\* The answer replaces all marks; a request that fails otherwise marks no row.
Answer == Answered(verdict)
Failure == Answered({})

\* Another request is sent, or fails.  No scheme disables the buttons for them
\* while a generation is in flight, nor generating while one of them is; only
\* the reset excludes it and is excluded by it.
Request ==
  /\ marks' = {}
  /\ UNCHANGED <<status, offered, rows, flying, verdict>>

\* A conversion's answer: the rows of a source that is still there are kept, the
\* others go, and a new source has the catalog's.
Convert ==
  \E there \in Found, menu \in Offers : \E default \in Defaults(menu) :
    /\ status' = "editable" /\ offered' = menu
    /\ rows' = [src \in Sources |->
                  IF src \notin there THEN <<>>
                  ELSE IF rows[src] = <<>> THEN <<default[src]>> ELSE rows[src]]
    /\ marks' = {} /\ verdict' = Forgotten(verdict, Sources \ there)
    /\ UNCHANGED flying

\* The answer to a reset, which only the default scheme has a button for.
Reset ==
  /\ scheme = "default" /\ ~flying
  /\ \E there \in Found, menu \in Offers : \E default \in Defaults(menu) :
       /\ status' = "editable" /\ offered' = menu
       /\ rows' = [src \in Sources |-> IF src \in there THEN <<default[src]>> ELSE <<>>]
       /\ marks' = {} /\ UNCHANGED <<flying, verdict>>

\* A bug: the answer to a restore leaves the marks.
Restored_KeepsMarks(link) ==
  /\ rows' = link
  /\ verdict' = Forgotten(verdict, Sources)
  /\ UNCHANGED <<marks, flying>>

\* The answer to a restore brings the link's rows, whatever there was.
Restored(link) ==
  /\ rows' = link
  /\ marks' = {} /\ verdict' = Forgotten(verdict, Sources)
  /\ UNCHANGED flying

\* The server has validated the rows against the catalog it returns.
RestoreReplayable ==
  \E link \in Links, menu \in Offers :
    /\ \E src \in Sources : link[src] # <<>>
    /\ \A src \in Sources : \A i \in DOMAIN link[src] : Listed(link[src][i], menu)
    /\ Restored(link) /\ status' = "editable" /\ offered' = menu

\* It has not, or has not been able to: no catalog.
RestoreConflicted ==
  \E link \in Links : Restored(link) /\ status' = "conflicted" /\ offered' = {}

\* updateStage1InputState: the rows are stale, and the errors in them are gone.
EditInput ==
  /\ AllRows # {}
  /\ status' = IF status = "conflicted" THEN status ELSE "stale"
  /\ marks' = {} /\ UNCHANGED <<offered, rows, flying, verdict>>

-----------------------------------------------------------------------------

\* What a control of the row does.
Choose(src, i, o) ==
  \/ o.op = "mode" /\ ChangeMode(src, i, o.to)
  \/ o.op = "target" /\ ChangeTarget(src, i, o.to)

Perform(src, i, o) ==
  \/ Choose(src, i, o)
  \/ o.op = "clone" /\ Clone(src, i)
  \/ o.op = "delete" /\ Delete(src, i)

\* What the user does to a row, with what is enabled or still open.
Edit ==
  \/ /\ status = "editable"
     /\ \E src \in Sources : \E i \in DOMAIN rows[src] :
          \/ \E n \in Typed : Rename(src, i, n)
          \/ \E o \in Operations(src, i) : Perform(src, i, o)
  \/ /\ status = "conflicted" /\ scheme = "default"
     /\ \E src \in Sources : \E i \in DOMAIN rows[src] :
          \E o \in OpenMenus(rows[src][i]) : Choose(src, i, o)
  \/ Blur

Next ==
  /\ UNCHANGED scheme
  /\ \/ Edit \/ EditInput \/ Generate \/ Answer \/ Failure
     \/ Request \/ Convert \/ Reset \/ RestoreReplayable \/ RestoreConflicted

Spec == Init /\ [][Next]_vars

-----------------------------------------------------------------------------
(* Properties *)

TypeOK ==
  /\ scheme \in Schemes /\ status \in {"editable", "stale", "conflicted"}
  /\ offered \subseteq Chains \cup Relays
  /\ \A src \in Sources : rows[src] \in Seq(Row)
  /\ marks \subseteq Mark /\ verdict \subseteq Mark
  /\ flying \in BOOLEAN /\ (~flying => verdict = {})

Users(relay) == {p \in Places : At(p).mode = "port_forward" /\ At(p).target = relay}

SharedByCopy ==
  (\E relay \in Relays : Cardinality(Users(relay)') > 1
                         /\ Cardinality(Users(relay)') > Cardinality(Users(relay)))
    => \E src \in Sources : Len(rows'[src]) > Len(rows[src])

\* Rows come to share a port forwarding service only when one is copied.  The
\* server refuses them as long as they do (06-stage2-model.md:171); the page's
\* own check does not look at it.
OnlyCopiesShare == [][SharedByCopy]_vars

\* What the server has refused is marked in the row it was found in, as that
\* row was, until a name like its own is edited; unless, while the answer was
\* on its way, the row was edited or deleted, a restore was answered, or a
\* conversion without its source.  Then the mark is for whatever row of that
\* source and name there is: one that was restored meanwhile is marked for what
\* is wrong with another.
MarksStayInPlace ==
  \A m \in marks, src \in Sources : \A row \in RowsOf(src) :
    m.about # Unknown /\ Hits(m, src, row) => row = m.about

HasNamesake ==
  \A m \in marks' : m.code = "duplicate" =>
    \/ Cardinality(Namesakes(m.name)') > 1
    \/ m \in marks /\ Cardinality(Namesakes(m.name)) = 1
    \/ \E src \in Sources \ {m.source} : Len(rows'[src]) < Len(rows[src])

\* A row marked as a duplicate has a namesake, until a row of another source is
\* deleted: that takes the marks of its own rows only.
DuplicatesStayTrue == [][HasNamesake]_vars

OthersSpared ==
  \A m \in marks \ marks', src \in Sources : \A i \in DOMAIN rows[src] :
    /\ Len(rows'[src]) = Len(rows[src]) /\ rows'[src][i].name = rows[src][i].name
    /\ rows'[src][i] # rows[src][i] /\ Edit
    => m.source = src /\ m.name = rows[src][i].name

\* Changing the mode or the target of a row takes no mark from a row of another
\* source or name (04-business-rules.md:549).
EditsSpareOthers == [][OthersSpared]_vars

=============================================================================
