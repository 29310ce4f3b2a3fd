---------------------------- MODULE Stage2Editor ----------------------------
(***************************************************************************)
(* The stage 2 snapshot while it is edited: web/src/lib/stage2.ts and the  *)
(* updates of useAppWorkflow.state.ts.                                     *)
(*                                                                         *)
(* A snapshot is a tree of servers, their sources and the instances of     *)
(* each source.  An instance has a local id, its source and an ordinal,    *)
(* which the browser gives out, reissues and renumbers; a server's         *)
(* aggregation group names its members by these ids, and so does the draft *)
(* that is kept while the group is switched off.                           *)
(*                                                                         *)
(* `who` tells instances apart for good.  The program does not know it: a  *)
(* member's `who` is the instance that was meant when it was chosen, or    *)
(* Forgotten when the member has been in a draft.                          *)
(* Proxy names stand for instances where the snapshot is sent: the         *)
(* precheck of a generation refuses names used twice.  Modes, targets and  *)
(* strategies are left out.                                                *)
(***************************************************************************)
EXTENDS Integers, Sequences, FiniteSets, SequencesExt, Lists

CONSTANTS
  SourceSeq,   \* landing sources, in the order of the catalog
  Servers,
  Catalogs,    \* where a conversion may put each source
  Gone,        \* the server of a source that is not there
  Off,         \* no aggregation group, or no draft of one
  MaxRows,     \* bound on the instances of each source
  MaxOrdinal   \* bound on the ordinals given out

Sources == ToSet(SourceSeq)

EditorAssumption ==
  /\ SourceSeq \in Seq(Sources) /\ IsInjective(SourceSeq)
  /\ Gone \notin Servers
  /\ Catalogs \subseteq [Sources -> Servers \cup {Gone}]
  /\ MaxRows \in [Sources -> Nat \ {0}] /\ MaxOrdinal \in Nat \ {0}

Forgotten == 0

Instance == [ord : 1 .. MaxOrdinal, who : Nat \ {Forgotten}]
Member   == [source : Sources, ord : 1 .. MaxOrdinal, who : Nat]

VARIABLES
  home,      \* the server of each source
  rows,      \* the instances of each source
  members,   \* memberLocalInstanceIds of each server with a group, or Off
  drafts     \* aggregationDraftsByServerKey, or Off

editorVars == <<home, rows, members, drafts>>

EditorInit ==
  /\ home = [src \in Sources |-> Gone]
  /\ rows = [src \in Sources |-> <<>>]
  /\ members = [s \in Servers |-> Off]
  /\ drafts = [s \in Servers |-> Off]

-----------------------------------------------------------------------------
(* The tree *)

\* The servers that are in the tree when sources are at `at`.
ServersOf(at) == {at[src] : src \in Sources} \ {Gone}

\* flattenInstances of one server: its rows from top to bottom, as members.
RowsOf(s) ==
  LET rowsAt(src) == [i \in DOMAIN rows[src] |->
                        [source |-> src, ord |-> rows[src][i].ord, who |-> rows[src][i].who]]
      own == Those(SourceSeq, LAMBDA src : home[src] = s)
  IN  FlattenSeq([i \in DOMAIN own |-> rowsAt(own[i])])

SameId(m, n) == m.source = n.source /\ m.ord = n.ord
HasId(seq, m) == \E i \in DOMAIN seq : SameId(seq[i], m)

\* The instance that the id of a member leads to, anywhere in the tree.
Resolves(m) == \E i \in DOMAIN rows[m.source] : rows[m.source][i].ord = m.ord
Resolved(m) ==
  [source |-> m.source,
   who |-> rows[m.source][CHOOSE i \in DOMAIN rows[m.source] : rows[m.source][i].ord = m.ord].who]

\* What the group of s leads to, in the order of its members.
Group(s) ==
  LET known == Those(members[s], Resolves)
  IN  [i \in DOMAIN known |-> Resolved(known[i])]

\* The servers that have a group.
Grouped == {s \in Servers : members[s] # Off}

\* A name for an instance of this source that nothing stands for yet.
Fresh(src) ==
  LET listed == UNION {ToSet(members[s]) : s \in Grouped}
      meant == {m.who : m \in {n \in listed : n.source = src}}
      there == {r.who : r \in ToSet(rows[src])}
      used  == meant \cup there
  IN  CHOOSE w \in 1 .. Cardinality(used) + 1 : w \notin used

-----------------------------------------------------------------------------
(* Instances *)

\* A bug: the number of a copy is the number of instances plus one.
NextOrdinal_Count(src) == Len(rows[src]) + 1

\* nextOrdinalForSource: one more than the greatest in use.
NextOrdinal(src) ==
  CHOOSE n \in 1 .. MaxOrdinal + 1 :
    /\ \A r \in ToSet(rows[src]) : r.ord < n
    /\ n = 1 \/ \E r \in ToSet(rows[src]) : r.ord = n - 1

\* cloneInstance
Clone(src) ==
  /\ rows[src] # <<>> /\ Len(rows[src]) < MaxRows[src] /\ NextOrdinal(src) <= MaxOrdinal
  /\ rows' = [rows EXCEPT ![src] = Append(@, [ord |-> NextOrdinal(src), who |-> Fresh(src)])]
  /\ UNCHANGED <<home, members, drafts>>

Without(seq, m) == Those(seq, LAMBDA n : ~SameId(n, m))

\* A bug: the last instance of a source can be deleted.
Delete_Last(src, i) ==
  LET gone == [source |-> src, ord |-> rows[src][i].ord]
  IN  /\ rows' = [rows EXCEPT ![src] = RemoveAt(@, i)]
      /\ members' = [members EXCEPT ![home[src]] = IF @ = Off THEN Off ELSE Without(@, gone)]
      /\ UNCHANGED <<home, drafts>>

\* A bug: the deleted instance stays in the group.
Delete_KeepsMember(src, i) ==
  /\ Len(rows[src]) > 1
  /\ rows' = [rows EXCEPT ![src] = RemoveAt(@, i)]
  /\ UNCHANGED <<home, members, drafts>>

\* deleteInstance.  The instance leaves the group, but not the draft.
Delete(src, i) ==
  LET gone == [source |-> src, ord |-> rows[src][i].ord]
  IN  /\ Len(rows[src]) > 1
      /\ rows' = [rows EXCEPT ![src] = RemoveAt(@, i)]
      /\ members' = [members EXCEPT ![home[src]] = IF @ = Off THEN Off ELSE Without(@, gone)]
      /\ UNCHANGED <<home, drafts>>

-----------------------------------------------------------------------------
(* Aggregation groups *)

\* updateServerAggregationGroupState, for a row that is checked.
Put(seq, m) == Append(Without(seq, m), m)

\* handleServerAggregationEnableWithDefaults.  The draft is written back, and
\* then each row of the server is put in again or taken out: it stays if it was
\* in the draft or if its mode says so.  What the draft holds is not seen yet
\* when the first row is looked at.
Enable(s) ==
  /\ s \in ServersOf(home) /\ members[s] = Off
  /\ LET own     == RowsOf(s)
         draft   == IF drafts[s] = Off THEN <<>> ELSE drafts[s]
         strays  == Those(draft, LAMBDA m : ~HasId(own, m))
         meant(m) == draft[CHOOSE i \in DOMAIN draft : SameId(draft[i], m)]
     IN  \E byMode \in SUBSET ToSet(own) :
           /\ byMode # {} => Len(own) > 1
           /\ LET stays(m)  == m \in byMode \/ (m # own[1] /\ HasId(draft, m))
                  kept      == Those(own, stays)
                  entry(m)  == IF m \in byMode THEN m ELSE meant(m)
              IN  members' = [members EXCEPT ![s] = strays \o [i \in DOMAIN kept |-> entry(kept[i])]]
  /\ drafts' = [drafts EXCEPT ![s] = Off]
  /\ UNCHANGED <<home, rows>>

\* setServerAggregationEnabledState: what was in the groups is kept as a draft.
Disable(off) ==
  /\ off # {} /\ \A s \in off : members[s] # Off
  /\ drafts' = [s \in Servers |->
                  IF s \in off THEN [i \in DOMAIN members[s] |-> [members[s][i] EXCEPT !.who = Forgotten]]
                  ELSE drafts[s]]
  /\ members' = [s \in Servers |-> IF s \in off THEN Off ELSE members[s]]
  /\ UNCHANGED <<home, rows>>

\* handleServerAggregationChange, by the box of a row.
Check(s, m) ==
  /\ members[s] # Off
  /\ members' = [members EXCEPT ![s] = IF HasId(@, m) THEN Without(@, m) ELSE Put(@, m)]
  /\ UNCHANGED <<home, rows, drafts>>

\* The same handler, by the group's strategy: it is called for the first row,
\* as it is, and thereby puts it last.
ChangeStrategy(s, anchor) ==
  /\ members[s] # Off /\ HasId(members[s], anchor)
  /\ LET meant == members[s][CHOOSE i \in DOMAIN members[s] : SameId(members[s][i], anchor)]
     IN  members' = [members EXCEPT ![s] = Put(@, meant)]
  /\ UNCHANGED <<home, rows, drafts>>

\* getServerAggregationOrderedMembers: the list to drag in leaves out the members
\* that lead nowhere.
Displayed(s) == Those(members[s], Resolves)

\* moveMember: `to` is a place among all of the members.
MoveMember(s, m, to) ==
  LET from == CHOOSE i \in DOMAIN members[s] : SameId(members[s][i], m)
  IN  /\ from # to
      /\ members' = [members EXCEPT ![s] = InsertAt(RemoveAt(@, from), to, @[from])]
      /\ UNCHANGED <<home, rows, drafts>>

\* handleDragEnd: a member is dropped on another.  It goes to the place that the
\* other has among those displayed.
Drag(s, i, j) == i # j /\ MoveMember(s, Displayed(s)[i], j)

\* The list can be used while the group is on (and has the fallback strategy,
\* which any group may have here).
OrderMenu(s) == members[s] # Off /\ \E i, j \in DOMAIN Displayed(s) : Drag(s, i, j)

\* buildStage2AggregationTreeFromSnapshot: the servers that have rows, each of
\* which is known by its first.
Tree ==
  {[server |-> s, anchor |-> RowsOf(s)[1], rows |-> ToSet(RowsOf(s))] :
     s \in {t \in ServersOf(home) : RowsOf(t) # <<>>}}

\* The controls in the row of a server.
ServerRow(node) ==
  \/ Enable(node.server)
  \/ Disable({node.server})
  \/ ChangeStrategy(node.server, node.anchor)
  \/ OrderMenu(node.server)

\* The box in each row below it.
MemberBoxes(node) == \E m \in node.rows : Check(node.server, m)

\* The aggregation view is left: clearServerAggregationGroupsState.
LeaveTree == Disable(Grouped)

-----------------------------------------------------------------------------
(* Conversion, reset, restore *)

\* hydrateInstanceIds: the ids follow the order of the instances.
Renumbered(list) == [i \in DOMAIN list |-> [list[i] EXCEPT !.ord = i]]

NewSource(src) == <<[ord |-> 1, who |-> Fresh(src)]>>

NewId(m) == CHOOSE i \in DOMAIN rows[m.source] : rows[m.source][i].ord = m.ord

\* A bug: members stay whatever server their source is on now.
Merged_Anywhere(s, at) ==
  LET kept == Those(members[s], Resolves)
  IN  [i \in DOMAIN kept |-> [kept[i] EXCEPT !.ord = NewId(kept[i])]]

\* A bug: the members' ids are not renumbered.
Merged_OldIds(s, at) == Those(members[s], LAMBDA m : at[m.source] = s /\ Resolves(m))

\* The members of s once its sources are those of `at`, with their new ids.
Merged(s, at) ==
  LET kept == Those(members[s], LAMBDA m : at[m.source] = s /\ Resolves(m))
  IN  [i \in DOMAIN kept |-> [kept[i] EXCEPT !.ord = NewId(kept[i])]]

\* mergeSnapshotAfterConvert and applyStage1ConvertSuccessState.  Instances
\* follow their source, groups stay with their server; drafts are kept as they
\* are while their server is.
Convert(at) ==
  /\ home' = at
  /\ rows' = [src \in Sources |->
                IF at[src] = Gone THEN <<>>
                ELSE IF rows[src] = <<>> THEN NewSource(src) ELSE Renumbered(rows[src])]
  /\ members' = [s \in Servers |->
                   IF members[s] = Off \/ s \notin ServersOf(at) THEN Off ELSE Merged(s, at)]
  /\ drafts' = [s \in Servers |-> IF s \in ServersOf(at) THEN drafts[s] ELSE Off]

\* The whole snapshot is overwritten.
Reset(at) ==
  /\ home' = at
  /\ rows' = [src \in Sources |-> IF at[src] = Gone THEN <<>> ELSE NewSource(src)]
  /\ members' = [s \in Servers |-> Off]
  /\ drafts' = [s \in Servers |-> Off]

\* collectGeneratePrecheckBlockingErrors
PrecheckPasses == \A s \in Servers : members[s] # Off => Len(members[s]) >= 2

\* normalizeSnapshotForRequest: members are sent as the names of what they lead to.
Sent(s) == Those(members[s], Resolves)

\* validateServerAggregations
Accepted ==
  \A s \in Servers : members[s] # Off =>
    /\ \A m \in ToSet(Sent(s)) : home[m.source] = s
    /\ Len(Sent(s)) >= 2

\* A bug: the members of a restored group keep the ids they had.
Restored_OldIds(s, fallback) == Sent(s)

\* hydrateServerAggregation of what the server returns: in the order of the
\* members for groups with the fallback strategy, else of the rows.
Restored(s, fallback) ==
  LET sent == IF s \in fallback THEN Sent(s)
              ELSE Those(RowsOf(s), LAMBDA m : HasId(Sent(s), m))
      meant(m) == members[s][CHOOSE i \in DOMAIN members[s] : SameId(members[s][i], m)]
  IN  [i \in DOMAIN sent |-> [meant(sent[i]) EXCEPT !.ord = NewId(sent[i])]]

\* The link made from this snapshot is restored: buildRestorePatch.
Restore(fallback) ==
  /\ ServersOf(home) # {} /\ PrecheckPasses /\ Accepted
  /\ rows' = [src \in Sources |-> Renumbered(rows[src])]
  /\ members' = [s \in Servers |-> IF members[s] = Off THEN Off ELSE Restored(s, fallback)]
  /\ drafts' = [s \in Servers |-> Off]
  /\ UNCHANGED home

-----------------------------------------------------------------------------

Edit ==
  \/ \E src \in Sources : Clone(src)
  \/ \E src \in Sources : \E i \in DOMAIN rows[src] : Delete(src, i)
  \/ \E node \in Tree : ServerRow(node)
  \/ \E node \in Tree : MemberBoxes(node)
  \/ LeaveTree

EditorNext ==
  \/ Edit
  \/ \E at \in Catalogs : Convert(at)
  \/ \E at \in Catalogs : Reset(at)
  \/ \E fallback \in SUBSET Grouped : Restore(fallback)

EditorSpec == EditorInit /\ [][EditorNext]_editorVars

-----------------------------------------------------------------------------
(* Properties *)

\* Every variable stays within its type; a source that is there has at least
\* one instance, and only a server that is there has a group or a draft.
EditorTypeOK ==
  /\ home \in [Sources -> Servers \cup {Gone}]
  /\ rows \in [Sources -> Seq(Instance)]
  /\ members \in [Servers -> {Off} \cup Seq(Member)]
  /\ drafts \in [Servers -> {Off} \cup Seq(Member)]
  /\ \A src \in Sources : rows[src] = <<>> <=> home[src] = Gone
  /\ \A s \in Servers \ ServersOf(home) : members[s] = Off /\ drafts[s] = Off

\* No two instances have one id (06-stage2-model.md:187-188).
IdsUnique ==
  \A src \in Sources : \A i, j \in DOMAIN rows[src] : rows[src][i].ord = rows[src][j].ord => i = j

\* A group lists nothing twice, nor does a draft, and a server has not both.
ListedOnce ==
  /\ \A s \in Servers, list \in {members, drafts} : list[s] # Off =>
       \A i, j \in DOMAIN list[s] : SameId(list[s][i], list[s][j]) => i = j
  /\ \A s \in Servers : members[s] = Off \/ drafts[s] = Off

\* However ids are issued again and renumbered, nothing is there twice.
NothingTwice == IdsUnique /\ ListedOnce

\* Every member of a group that has not been in a draft is an instance of its
\* server, and the one that was meant when it was chosen
\* (06-stage2-model.md:173, which makes no exception for drafts).
Fits(s, m) == home[m.source] = s /\ Resolves(m) /\ Resolved(m).who = m.who

OnlyDraftsStray ==
  \A s \in Servers : members[s] # Off =>
    \A m \in ToSet(members[s]) : m.who # Forgotten => Fits(s, m)

\* What passes the page's precheck is accepted by the server's validation, when
\* no group has a member from a draft.
PrecheckSuffices ==
  /\ PrecheckPasses
  /\ \A s \in Servers : members[s] # Off => \A m \in ToSet(members[s]) : m.who # Forgotten
  => Accepted

\* A conversion keeps each group as it was, in its order, less the instances
\* whose source is gone or on another server; nothing dangles afterwards
\* (06-stage2-model.md:270 and :275).
MergeKeepsGroups ==
  [][(\E at \in Catalogs : Convert(at)) =>
       \A s \in Servers : members[s] # Off /\ s \in ServersOf(home') =>
         /\ Group(s)' = Those(Group(s), LAMBDA g : home'[g.source] = s)
         /\ Len(members'[s]) = Len(Group(s)')]_editorVars

\* Restoring the link of a snapshot brings back its instances in their order
\* and every group with the same instances (06-stage2-model.md:58).
RestoreBringsBack ==
  [][(\E fallback \in SUBSET Grouped : Restore(fallback)) =>
       /\ \A src \in Sources : [i \in DOMAIN rows'[src] |-> rows'[src][i].who]
                                 = [i \in DOMAIN rows[src] |-> rows[src][i].who]
       /\ \A s \in Servers : members[s] # Off => ToSet(Group(s)') = ToSet(Group(s))]_editorVars

=============================================================================
