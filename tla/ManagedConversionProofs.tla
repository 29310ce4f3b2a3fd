----------------------- MODULE ManagedConversionProofs -----------------------
(***************************************************************************)
(* Proofs about ManagedConversion, for any finite set of requests and any  *)
(* number of slots.                                                        *)
(*                                                                         *)
(* NoDocumentMissed is not inductive: that a document is found has to come *)
(* from its being in the store, which Holding says for every request by    *)
(* where it stands.  PassesLeft keeps Head and Tail of todo meaningful.    *)
(***************************************************************************)
EXTENDS ManagedConversion, FiniteSetTheorems, TLAPS

\* A request in either of these places has published nothing.
Outside == {"idle", "prepare"}

\* Where the managed documents are needed.
Managed(r) == stage[r] = "managed" /\ pc[r] \in {"pass", "upstream", "rendered"}

\* Every request that stands inside its pipeline run has its documents in
\* the store, and nobody else has any.
Holding ==
  /\ \A r \in Requests : pc[r] \notin Outside => <<r, "template">> \in store
  /\ \A r \in Requests : Managed(r) => <<r, "landing">> \in store /\ <<r, "transit">> \in store
  /\ \A d \in store : pc[d[1]] \notin Outside

\* A pass under way or about to start is the first of those left.
PassesLeft == \A r \in Requests : pc[r] \in {"pass", "upstream"} => todo[r] # <<>>

\* The documents looked for belong to the pass under way, and were found.
LookedAndFound == \A r \in Requests : looked[r] \subseteq found[r]

\* One slot for each pass under way.
SlotsTaken == slots = Cardinality(UnderWay)

IInv == TypeOK /\ Holding /\ PassesLeft /\ LookedAndFound /\ SlotsTaken

-----------------------------------------------------------------------------

\* However a pipeline run fails, its request goes idle with an answer.
LEMMA AbortEnds ==
  ASSUME TypeOK, NEW r \in Requests, NEW why \in Failures, Abort(r, why)
  PROVE  /\ pc' = [pc EXCEPT ![r] = "idle"]
         /\ kind' = kind /\ stage' = stage /\ round' = round
         /\ todo' = [todo EXCEPT ![r] = <<>>]
         /\ looked' = [looked EXCEPT ![r] = {}]
         /\ found' = [found EXCEPT ![r] = {}]
         /\ \E s \in {why, "conflicted", "replayable"} :
              reply' = [reply EXCEPT ![r] = [status |-> s, catalog |-> FALSE]]
  <1>1. CASE kind[r] # "resolve"
    BY <1>1 DEF Abort, Answer
  <1>2. CASE kind[r] = "resolve" /\ round[r] = 1
    BY <1>2 DEF Abort, Answer
  <1>3. CASE kind[r] = "resolve" /\ round[r] # 1
    BY <1>3 DEF Abort, Answer
  <1>4. QED
    BY <1>1, <1>2, <1>3

\* One that succeeds leaves its request idle, or at its second run.
LEMMA SucceedEnds ==
  ASSUME TypeOK, NEW r \in Requests, Succeed(r)
  PROVE  /\ \E s \in Outside : pc' = [pc EXCEPT ![r] = s]
         /\ kind' = kind /\ stage' = stage /\ todo' = todo
         /\ looked' = looked /\ found' = found
         /\ round' \in [Requests -> {1, 2}]
         /\ \/ reply' = reply
            \/ \E s \in {"ok", "replayable"}, b \in BOOLEAN :
                 reply' = [reply EXCEPT ![r] = [status |-> s, catalog |-> b]]
  <1>1. CASE kind[r] = "resolve" /\ round[r] = 1
    BY <1>1 DEF Succeed, Outside, TypeOK
  <1>2. CASE ~(kind[r] = "resolve" /\ round[r] = 1)
    <2>1. Answer(r, IF kind[r] = "resolve" THEN "replayable" ELSE "ok", kind[r] # "render")
      BY <1>2 DEF Succeed
    <2>2. UNCHANGED <<kind, stage, todo, looked, found>>
      BY DEF Succeed
    <2>3. QED
      BY <2>1, <2>2 DEF Answer, Outside, TypeOK
  <1>3. QED
    BY <1>1, <1>2

-----------------------------------------------------------------------------
(* The inductive invariant *)

\* Initially nothing is under way and nothing is published.
LEMMA InitIInv == Init => IInv
  <1> SUFFICES ASSUME Init PROVE IInv
    OBVIOUS
  <1>1. UnderWay = {}
    BY DEF Init, UnderWay
  <1>2. Cardinality({}) = 0
    BY FS_EmptySet
  <1>3. TypeOK
    BY ConstantsAssumption DEF Init, TypeOK, Kinds, Reply, Passes
  <1>4. QED
    BY <1>1, <1>2, <1>3 DEF Init, IInv, Holding, Outside, Managed, PassesLeft,
                            LookedAndFound, SlotsTaken

\* What keeps the count of slots: passes under way come and go one at a time.
LEMMA UnderWayFinite == IsFiniteSet(UnderWay)
  BY ConstantsAssumption, FS_Subset DEF UnderWay

LEMMA AcquireCounts ==
  ASSUME IInv, NEW r \in Requests, Acquire(r)
  PROVE  SlotsTaken'
  <1>1. UnderWay' = UnderWay \cup {r} /\ r \notin UnderWay
    BY DEF Acquire, UnderWay, IInv, TypeOK
  <1>2. Cardinality(UnderWay \cup {r}) = Cardinality(UnderWay) + 1
    BY <1>1, UnderWayFinite, FS_AddElement
  <1>3. QED
    BY <1>1, <1>2 DEF Acquire, IInv, SlotsTaken

LEMMA ReleaseCounts ==
  ASSUME IInv, NEW r \in Requests, pc[r] = "upstream", Release,
         NEW s, s # "upstream", pc' = [pc EXCEPT ![r] = s]
  PROVE  SlotsTaken' /\ slots' \in 0 .. MaxInFlight
  <1>1. UnderWay' = UnderWay \ {r} /\ r \in UnderWay
    BY DEF UnderWay, IInv, TypeOK
  <1>2. Cardinality(UnderWay \ {r}) = Cardinality(UnderWay) - 1
    BY <1>1, UnderWayFinite, FS_RemoveElement
  <1>3. Cardinality(UnderWay) \in Nat /\ Cardinality(UnderWay \ {r}) \in Nat
    BY <1>1, UnderWayFinite, FS_CardinalityType, FS_RemoveElement
  <1>4. slots > 0
    BY <1>2, <1>3 DEF IInv, SlotsTaken
  <1>5. slots' = slots - 1
    BY <1>4 DEF Release
  <1>6. slots \in 0 .. MaxInFlight
    BY DEF IInv, TypeOK
  <1>7. QED
    BY <1>1, <1>2, <1>4, <1>5, <1>6, ConstantsAssumption DEF IInv, SlotsTaken

LEMMA ElsewhereCounts ==
  ASSUME IInv, NEW r \in Requests, pc[r] # "upstream", slots' = slots,
         NEW s, s # "upstream", pc' = [pc EXCEPT ![r] = s]
  PROVE  SlotsTaken'
  <1>1. UnderWay' = UnderWay
    BY DEF UnderWay, IInv, TypeOK
  <1>2. QED
    BY <1>1 DEF IInv, SlotsTaken

\* A run that ends takes its request's documents with it.
LEMMA EndsHolding ==
  ASSUME IInv, NEW r \in Requests, NEW s \in Outside,
         pc' = [pc EXCEPT ![r] = s], stage' = stage, Cleanup(r) \/ (pc[r] \in Outside /\ store' = store)
  PROVE  Holding' /\ store' \in SUBSET Documents
  <1>1. \A d \in store : d \in Documents /\ d = <<d[1], d[2]>> /\ d[1] \in Requests /\ d[2] \in Roles
    BY DEF IInv, TypeOK, Documents
  <1>2. \A q \in Requests : q # r => pc'[q] = pc[q]
    BY DEF IInv, TypeOK
  <1>3. pc'[r] \in Outside
    BY DEF IInv, TypeOK
  <1>4. store' \subseteq store
    BY DEF Cleanup
  <1>5. \A d \in store' : d[1] # r
    <2>1. CASE Cleanup(r)
      BY <2>1, <1>1 DEF Cleanup
    <2>2. CASE pc[r] \in Outside /\ store' = store
      BY <2>2 DEF IInv, Holding
    <2>3. QED
      BY <2>1, <2>2
  <1>6. \A q \in Requests, x \in Roles : q # r /\ <<q, x>> \in store => <<q, x>> \in store'
    BY DEF Cleanup
  <1>7. ASSUME NEW q \in Requests, pc'[q] \notin Outside
        PROVE  <<q, "template">> \in store'
    BY <1>2, <1>3, <1>6, <1>7 DEF IInv, Holding, Roles
  <1>8. ASSUME NEW q \in Requests, Managed(q)'
        PROVE  <<q, "landing">> \in store' /\ <<q, "transit">> \in store'
    BY <1>2, <1>3, <1>6, <1>8 DEF IInv, Holding, Roles, Managed, Outside
  <1>9. ASSUME NEW d \in store' PROVE pc'[d[1]] \notin Outside
    BY <1>1, <1>2, <1>4, <1>5 DEF IInv, Holding
  <1>10. store' \in SUBSET Documents
    BY <1>1, <1>4
  <1>11. QED
    BY <1>7, <1>8, <1>9, <1>10 DEF Holding

\* The invariant over the variables of the request that ends.
LEMMA AbortKeeps ==
  ASSUME IInv, NEW r \in Requests, NEW why \in Failures, Abort(r, why),
         Cleanup(r) \/ (pc[r] \in Outside /\ store' = store),
         slots' \in 0 .. MaxInFlight, SlotsTaken'
  PROVE  IInv'
  <1>0. TypeOK
    BY DEF IInv
  <1>1. /\ pc' = [pc EXCEPT ![r] = "idle"]
        /\ kind' = kind /\ stage' = stage /\ round' = round
        /\ todo' = [todo EXCEPT ![r] = <<>>]
        /\ looked' = [looked EXCEPT ![r] = {}]
        /\ found' = [found EXCEPT ![r] = {}]
        /\ \E s \in {why, "conflicted", "replayable"} :
             reply' = [reply EXCEPT ![r] = [status |-> s, catalog |-> FALSE]]
    BY <1>0, AbortEnds
  <1>2. Holding' /\ store' \in SUBSET Documents
    BY <1>1, EndsHolding DEF Outside
  <1>3. TypeOK'
    <2>1. reply' \in [Requests -> Reply]
      BY <1>0, <1>1 DEF TypeOK, Reply
    <2>2. todo' \in [Requests -> Seq(Passes)]
      BY <1>0, <1>1 DEF TypeOK
    <2>3. looked' \in [Requests -> SUBSET Documents] /\ found' \in [Requests -> SUBSET Documents]
      BY <1>0, <1>1 DEF TypeOK
    <2>4. QED
      BY <1>0, <1>1, <1>2, <2>1, <2>2, <2>3 DEF TypeOK
  <1>4. PassesLeft'
    BY <1>0, <1>1 DEF IInv, PassesLeft, TypeOK
  <1>5. LookedAndFound'
    BY <1>0, <1>1 DEF IInv, LookedAndFound, TypeOK
  <1>6. QED
    BY <1>2, <1>3, <1>4, <1>5 DEF IInv

LEMMA SucceedKeeps ==
  ASSUME IInv, NEW r \in Requests, pc[r] \in {"discovered", "post"},
         Succeed(r), Cleanup(r), slots' = slots
  PROVE  IInv'
  <1>0. TypeOK
    BY DEF IInv
  <1>1. /\ \E s \in Outside : pc' = [pc EXCEPT ![r] = s]
        /\ kind' = kind /\ stage' = stage /\ todo' = todo
        /\ looked' = looked /\ found' = found
        /\ round' \in [Requests -> {1, 2}]
        /\ \/ reply' = reply
           \/ \E s \in {"ok", "replayable"}, b \in BOOLEAN :
                reply' = [reply EXCEPT ![r] = [status |-> s, catalog |-> b]]
    BY <1>0, SucceedEnds
  <1>2. PICK s \in Outside : pc' = [pc EXCEPT ![r] = s]
    BY <1>1
  <1>3. Holding' /\ store' \in SUBSET Documents
    <2>1. stage' = stage /\ Cleanup(r)
      BY <1>1
    <2>2. QED
      BY <1>2, <2>1, EndsHolding
  <1>4. SlotsTaken'
    BY <1>2, ElsewhereCounts DEF Outside
  <1>5. reply' \in [Requests -> Reply]
    <2>1. CASE reply' = reply
      BY <1>0, <2>1 DEF TypeOK
    <2>2. CASE \E t \in {"ok", "replayable"}, b \in BOOLEAN :
                 reply' = [reply EXCEPT ![r] = [status |-> t, catalog |-> b]]
      <3>1. PICK t \in {"ok", "replayable"}, b \in BOOLEAN :
              reply' = [reply EXCEPT ![r] = [status |-> t, catalog |-> b]]
        BY <2>2
      <3>2. [status |-> t, catalog |-> b] \in Reply
        BY DEF Reply
      <3>3. reply \in [Requests -> Reply]
        BY <1>0 DEF TypeOK
      <3>4. QED
        BY <3>1, <3>2, <3>3
    <2>3. QED
      BY <1>1, <2>1, <2>2
  <1>6. TypeOK'
    BY <1>0, <1>1, <1>2, <1>3, <1>5 DEF TypeOK, Outside
  <1>7. PassesLeft' /\ LookedAndFound'
    BY <1>0, <1>1, <1>2 DEF IInv, PassesLeft, LookedAndFound, TypeOK, Outside
  <1>8. QED
    BY <1>3, <1>4, <1>6, <1>7 DEF IInv

\* Every document the next pass names is in the store while it runs.
LEMMA NamedStored ==
  ASSUME IInv, NEW r \in Requests, pc[r] = "upstream"
  PROVE  Named(r) \subseteq store
  BY DEF IInv, TypeOK, Named, Holding, Managed, Outside

-----------------------------------------------------------------------------
(* One step per action *)

LEMMA NextIInv == IInv /\ [Next]_vars => IInv'
  <1> SUFFICES ASSUME IInv, [Next]_vars PROVE IInv'
    OBVIOUS
  <1>0. TypeOK /\ Holding /\ PassesLeft /\ LookedAndFound /\ SlotsTaken /\ slots \in 0 .. MaxInFlight
    BY DEF IInv, TypeOK
  <1>1. ASSUME NEW r \in Requests, NEW k \in Kinds, Arrive(r, k) PROVE IInv'
    <2>1. pc' = [pc EXCEPT ![r] = "prepare"] /\ pc[r] = "idle" /\ stage' = stage /\ store' = store
      BY <1>1 DEF Arrive
    <2>2. Holding'
      BY <2>1, EndsHolding DEF Outside
    <2>3. SlotsTaken'
      BY <1>1, <2>1, ElsewhereCounts DEF Arrive
    <2>4. TypeOK'
      BY <1>0, <1>1 DEF Arrive, TypeOK, Reply
    <2>5. PassesLeft' /\ LookedAndFound'
      BY <1>0, <1>1 DEF Arrive, PassesLeft, LookedAndFound, TypeOK
    <2>6. QED
      BY <2>2, <2>3, <2>4, <2>5 DEF IInv
  <1>2. ASSUME NEW r \in Requests, PrepareFails(r) PROVE IInv'
    <2>1. PICK why \in Failures : Abort(r, why)
      BY <1>2 DEF PrepareFails, Failures
    <2>2. pc' = [pc EXCEPT ![r] = "idle"]
      BY <1>0, <2>1, AbortEnds
    <2>3. SlotsTaken'
      BY <1>2, <2>2, ElsewhereCounts DEF PrepareFails
    <2>4. QED
      BY <1>0, <1>2, <2>1, <2>3, AbortKeeps DEF PrepareFails, Outside
  <1>3. ASSUME NEW r \in Requests, Prepare(r) PROVE IInv'
    <2>1. pc' = [pc EXCEPT ![r] = "pass"] /\ pc[r] = "prepare"
      BY <1>3 DEF Prepare
    <2>2. SlotsTaken'
      BY <1>3, <2>1, ElsewhereCounts DEF Prepare
    <2>3. TypeOK'
      <3>1. DiscoveryPasses \in Seq(Passes)
        BY DEF DiscoveryPasses, Passes
      <3>2. QED
        BY <1>0, <1>3, <3>1 DEF Prepare, TypeOK, Documents, Roles
    <2>4. PassesLeft' /\ LookedAndFound'
      <3>1. DiscoveryPasses # <<>>
        BY DEF DiscoveryPasses
      <3>2. QED
        BY <1>0, <1>3, <3>1 DEF Prepare, PassesLeft, LookedAndFound, TypeOK
    <2>5. Holding'
      <3>1. \A d \in store' : d[1] = r \/ d \in store
        BY <1>3 DEF Prepare
      <3>2. ASSUME NEW d \in store' PROVE pc'[d[1]] \notin Outside
        BY <1>0, <2>1, <3>1 DEF Holding, Outside, TypeOK, Documents
      <3>3. \A q \in Requests : pc'[q] \notin Outside => <<q, "template">> \in store'
        BY <1>0, <1>3 DEF Prepare, Holding, TypeOK
      <3>4. \A q \in Requests : Managed(q)' => <<q, "landing">> \in store' /\ <<q, "transit">> \in store'
        BY <1>0, <1>3 DEF Prepare, Holding, Managed, TypeOK
      <3>5. QED
        BY <3>2, <3>3, <3>4 DEF Holding
    <2>6. QED
      BY <2>2, <2>3, <2>4, <2>5 DEF IInv
  <1>4. ASSUME NEW r \in Requests, Acquire(r) PROVE IInv'
    <2>1. SlotsTaken'
      BY <1>4, AcquireCounts
    <2>2. TypeOK'
      BY <1>0, <1>4, ConstantsAssumption DEF Acquire, TypeOK
    <2>3. Holding' /\ PassesLeft' /\ LookedAndFound'
      BY <1>0, <1>4 DEF Acquire, Holding, Managed, Outside, PassesLeft, LookedAndFound, TypeOK, Documents
    <2>4. QED
      BY <2>1, <2>2, <2>3 DEF IInv
  <1>5. ASSUME NEW r \in Requests, Refused(r) PROVE IInv'
    <2>1. "refused" \in Failures
      BY DEF Failures
    <2>2. pc' = [pc EXCEPT ![r] = "idle"]
      BY <1>0, <1>5, <2>1, AbortEnds DEF Refused
    <2>3. SlotsTaken'
      BY <1>5, <2>2, ElsewhereCounts DEF Refused
    <2>4. QED
      <3>1. Abort(r, "refused") /\ Cleanup(r) /\ slots' \in 0 .. MaxInFlight
        BY <1>0, <1>5 DEF Refused
      <3>2. QED
        BY <2>1, <2>3, <3>1, AbortKeeps
  <1>6. ASSUME NEW r \in Requests, PassAnswers(r) PROVE IInv'
    <2>1. PICK s \in {"pass", "discovered", "rendered"} : pc' = [pc EXCEPT ![r] = s]
      BY <1>6 DEF PassAnswers
    <2>2. SlotsTaken' /\ slots' \in 0 .. MaxInFlight
      BY <1>6, <2>1, ReleaseCounts DEF PassAnswers
    <2>3. todo[r] # <<>> /\ todo[r] \in Seq(Passes)
      BY <1>0, <1>6 DEF PassAnswers, PassesLeft, TypeOK
    <2>4. Tail(todo[r]) \in Seq(Passes) /\ (Len(todo[r]) > 1 => Tail(todo[r]) # <<>>)
      <3> DEFINE t == todo[r]
      <3>1. t # <<>> /\ t \in Seq(Passes)
        BY <2>3
      <3> HIDE DEF t
      <3>2. Tail(t) \in Seq(Passes)
        BY <3>1
      <3>3. Len(Tail(t)) = Len(t) - 1
        BY <3>1
      <3>4. Len(t) > 1 => Tail(t) # <<>>
        BY <3>1, <3>3
      <3>5. QED
        BY <3>2, <3>4 DEF t
    <2>5. TypeOK'
      BY <1>0, <1>6, <2>1, <2>2, <2>4 DEF PassAnswers, TypeOK
    <2>6. PassesLeft'
      BY <1>0, <1>6, <2>4 DEF PassAnswers, PassesLeft, TypeOK
    <2>7. LookedAndFound'
      BY <1>0, <1>6 DEF PassAnswers, LookedAndFound, TypeOK
    <2>8. Holding'
      BY <1>0, <1>6, <2>1 DEF PassAnswers, Holding, Managed, Outside, TypeOK, Documents
    <2>9. QED
      BY <2>2, <2>5, <2>6, <2>7, <2>8 DEF IInv
  <1>7. ASSUME NEW r \in Requests, PassFails(r) PROVE IInv'
    <2>1. PICK why \in Failures : Abort(r, why)
      BY <1>7 DEF PassFails, Failures
    <2>2. pc' = [pc EXCEPT ![r] = "idle"]
      BY <1>0, <2>1, AbortEnds
    <2>3. SlotsTaken' /\ slots' \in 0 .. MaxInFlight
      BY <1>7, <2>2, ReleaseCounts DEF PassFails
    <2>4. QED
      <3>1. Cleanup(r)
        BY <1>7 DEF PassFails
      <3>2. QED
        BY <2>1, <2>3, <3>1, AbortKeeps
  <1>8. ASSUME NEW r \in Requests, DiscoveryFails(r) PROVE IInv'
    <2>1. PICK why \in Failures : Abort(r, why)
      BY <1>8 DEF DiscoveryFails, Failures
    <2>2. pc' = [pc EXCEPT ![r] = "idle"]
      BY <1>0, <2>1, AbortEnds
    <2>3. SlotsTaken'
      BY <1>8, <2>2, ElsewhereCounts DEF DiscoveryFails
    <2>4. QED
      <3>1. Cleanup(r) /\ slots' \in 0 .. MaxInFlight
        BY <1>0, <1>8 DEF DiscoveryFails
      <3>2. QED
        BY <2>1, <2>3, <3>1, AbortKeeps
  <1>9. ASSUME NEW r \in Requests, Converted(r) PROVE IInv'
    BY <1>9, SucceedKeeps DEF Converted
  <1>10. ASSUME NEW r \in Requests, HostManaged(r) PROVE IInv'
    <2>1. pc' = [pc EXCEPT ![r] = "pass"] /\ pc[r] = "discovered"
      BY <1>10 DEF HostManaged
    <2>2. SlotsTaken'
      BY <1>10, <2>1, ElsewhereCounts DEF HostManaged
    <2>3. TypeOK'
      <3>1. ManagedPasses \in Seq(Passes)
        BY DEF ManagedPasses, Passes
      <3>2. QED
        BY <1>0, <1>10, <3>1 DEF HostManaged, TypeOK, Documents, Roles
    <2>4. PassesLeft' /\ LookedAndFound'
      <3>1. ManagedPasses # <<>>
        BY DEF ManagedPasses
      <3>2. QED
        BY <1>0, <1>10, <3>1 DEF HostManaged, PassesLeft, LookedAndFound, TypeOK
    <2>5. Holding'
      <3>1. \A d \in store' : d[1] = r \/ d \in store
        BY <1>10 DEF HostManaged
      <3>2. ASSUME NEW d \in store' PROVE pc'[d[1]] \notin Outside
        BY <1>0, <2>1, <3>1 DEF Holding, Outside, TypeOK, Documents
      <3>3. \A q \in Requests : pc'[q] \notin Outside => <<q, "template">> \in store'
        BY <1>0, <1>10 DEF HostManaged, Holding, TypeOK, Outside
      <3>4. \A q \in Requests : Managed(q)' => <<q, "landing">> \in store' /\ <<q, "transit">> \in store'
        BY <1>0, <1>10 DEF HostManaged, Holding, Managed, TypeOK
      <3>5. QED
        BY <3>2, <3>3, <3>4 DEF Holding
    <2>6. QED
      BY <2>2, <2>3, <2>4, <2>5 DEF IInv
  <1>11. ASSUME NEW r \in Requests, RenderReturns(r) PROVE IInv'
    <2>1. pc' = [pc EXCEPT ![r] = "post"] /\ pc[r] = "rendered"
      BY <1>11 DEF RenderReturns
    <2>2. SlotsTaken'
      BY <1>11, <2>1, ElsewhereCounts DEF RenderReturns
    <2>3. TypeOK'
      BY <1>0, <1>11 DEF RenderReturns, TypeOK
    <2>4. PassesLeft' /\ LookedAndFound'
      BY <1>0, <1>11 DEF RenderReturns, PassesLeft, LookedAndFound, TypeOK
    <2>5. Holding'
      <3>1. \A d \in store' : pc'[d[1]] \notin Outside
        BY <1>0, <1>11 DEF RenderReturns, Holding, Outside, TypeOK, Documents
      <3>2. \A q \in Requests : pc'[q] \notin Outside => <<q, "template">> \in store'
        BY <1>0, <1>11 DEF RenderReturns, Holding, TypeOK, Outside
      <3>3. \A q \in Requests : Managed(q)' => <<q, "landing">> \in store' /\ <<q, "transit">> \in store'
        BY <1>0, <1>11 DEF RenderReturns, Holding, Managed, TypeOK
      <3>4. QED
        BY <3>1, <3>2, <3>3 DEF Holding
    <2>6. QED
      BY <2>2, <2>3, <2>4, <2>5 DEF IInv
  <1>12. ASSUME NEW r \in Requests, PostProcess(r) PROVE IInv'
    <2>1. CASE Succeed(r)
      BY <1>12, <2>1, SucceedKeeps DEF PostProcess
    <2>2. CASE \E why \in {"conflict", "invalid"} : Abort(r, why)
      <3>1. PICK why \in Failures : Abort(r, why)
        BY <2>2 DEF Failures
      <3>2. pc' = [pc EXCEPT ![r] = "idle"]
        BY <1>0, <3>1, AbortEnds
      <3>3. SlotsTaken'
        BY <1>12, <3>2, ElsewhereCounts DEF PostProcess
      <3>4. QED
        <4>1. Cleanup(r) /\ slots' \in 0 .. MaxInFlight
          BY <1>0, <1>12 DEF PostProcess
        <4>2. QED
          BY <3>1, <3>3, <4>1, AbortKeeps
    <2>3. QED
      BY <1>12, <2>1, <2>2 DEF PostProcess
  <1>13. ASSUME NEW r \in Requests, NEW d \in Documents, UpstreamLoads(r, d) PROVE IInv'
    <2>1. d \in store
      BY <1>13, NamedStored DEF UpstreamLoads
    <2>2. LookedAndFound'
      BY <1>0, <1>13, <2>1 DEF UpstreamLoads, LookedAndFound, TypeOK
    <2>3. TypeOK'
      BY <1>0, <1>13 DEF UpstreamLoads, TypeOK
    <2>4. UnderWay' = UnderWay
      BY <1>13 DEF UpstreamLoads, UnderWay
    <2>5. SlotsTaken' /\ Holding' /\ PassesLeft'
      BY <1>0, <1>13, <2>4 DEF UpstreamLoads, SlotsTaken, Holding, Managed, Outside, PassesLeft
    <2>6. QED
      BY <2>2, <2>3, <2>5 DEF IInv
  <1>14. CASE UNCHANGED vars
    <2>1. UnderWay' = UnderWay
      BY <1>14 DEF vars, request, UnderWay
    <2>2. QED
      BY <1>0, <1>14, <2>1 DEF vars, request, IInv, TypeOK, Holding, Managed, Outside, PassesLeft,
                               LookedAndFound, SlotsTaken
  <1>15. QED
    BY <1>1, <1>2, <1>3, <1>4, <1>5, <1>6, <1>7, <1>8, <1>9, <1>10, <1>11, <1>12, <1>13, <1>14
       DEF Next, Step

-----------------------------------------------------------------------------

\* The invariant that the three theorems below read off.
THEOREM Inductive == Spec => []IInv
  BY InitIInv, NextIInv, PTL DEF Spec

\* Every variable keeps its type: no request takes a pass that is not left, and
\* the slots are never fewer than none nor more than MaxInFlight.
THEOREM Typing == Spec => []TypeOK
  <1>1. IInv => TypeOK
    BY DEF IInv
  <1>2. QED
    BY <1>1, Inductive, PTL

\* The upstream finds every document a pass names while that pass is under way
\* (deferred Deletes of RenderManagedPass3, deferred Cleanup of its callers).
THEOREM DocumentsThere == Spec => []NoDocumentMissed
  <1>1. IInv => NoDocumentMissed
    BY DEF IInv, LookedAndFound, NoDocumentMissed
  <1>2. QED
    BY <1>1, Inductive, PTL

\* A request that has ended holds no document and no slot (Cleanup on every
\* error path, deferred release).
THEOREM CleanEnd == Spec => []NothingLeftBehind
  <1>1. IInv => NothingLeftBehind
    BY DEF IInv, Holding, Outside, SlotsTaken, NothingLeftBehind
  <1>2. QED
    BY <1>1, Inductive, PTL

\* An answer other than a refusal does not read like one.
LEMMA NoOtherRefusal ==
  ASSUME TypeOK, NEW q \in Requests, reply[q].status = "none", reply'[q].status = "refused",
         NEW r \in Requests
  PROVE  /\ \A why \in Failures : Abort(r, why) => why = "refused"
         /\ ~Succeed(r)
         /\ reply' # reply
  <1>1. ASSUME NEW why \in Failures, Abort(r, why) PROVE why = "refused"
    <2>1. PICK s \in {why, "conflicted", "replayable"} :
            reply' = [reply EXCEPT ![r] = [status |-> s, catalog |-> FALSE]]
      BY <1>1, AbortEnds
    <2>2. q = r
      BY <2>1 DEF TypeOK
    <2>3. reply'[q].status = s
      BY <2>1, <2>2 DEF TypeOK
    <2>4. QED
      BY <2>1, <2>3
  <1>2. reply' # reply
    OBVIOUS
  <1>3. ASSUME Succeed(r) PROVE FALSE
    <2>1. PICK s \in {"ok", "replayable"}, b \in BOOLEAN :
            reply' = [reply EXCEPT ![r] = [status |-> s, catalog |-> b]]
      BY <1>2, <1>3, SucceedEnds
    <2>2. q = r
      BY <2>1 DEF TypeOK
    <2>3. reply'[q].status = s
      BY <2>1, <2>2 DEF TypeOK
    <2>4. QED
      BY <2>1, <2>3
  <1>4. QED
    BY <1>1, <1>2, <1>3

LEMMA RefusalStep ==
  ASSUME IInv, [Next]_vars, NEW q \in Requests, reply[q].status = "none", reply'[q].status = "refused"
  PROVE  Cardinality(UnderWay) = MaxInFlight
  <1>0. TypeOK /\ slots = Cardinality(UnderWay)
    BY DEF IInv, SlotsTaken
  <1>1. reply' # reply
    OBVIOUS
  <1>2. ASSUME NEW r \in Requests, Step(r), ~Refused(r) PROVE FALSE
    <2>1. \A why \in Failures \ {"refused"} : ~Abort(r, why)
      BY <1>0, NoOtherRefusal
    <2>2. ~Succeed(r)
      BY <1>0, NoOtherRefusal
    <2>3. ~PrepareFails(r) /\ ~PassFails(r) /\ ~DiscoveryFails(r)
      BY <2>1 DEF PrepareFails, PassFails, DiscoveryFails, Failures
    <2>4. ~Converted(r)
      BY <2>2 DEF Converted
    <2>5. ~PostProcess(r)
      BY <2>1, <2>2 DEF PostProcess, Failures
    <2>6. ~Prepare(r) /\ ~Acquire(r) /\ ~PassAnswers(r) /\ ~HostManaged(r) /\ ~RenderReturns(r)
      BY <1>1 DEF Prepare, Acquire, PassAnswers, HostManaged, RenderReturns
    <2>7. QED
      BY <1>2, <2>3, <2>4, <2>5, <2>6 DEF Step
  <1>3. ASSUME NEW r \in Requests, NEW k \in Kinds, Arrive(r, k) PROVE FALSE
    <2>1. reply' = [reply EXCEPT ![r] = [status |-> "none", catalog |-> FALSE]]
      BY <1>3 DEF Arrive
    <2>2. QED
      BY <1>0, <2>1 DEF TypeOK
  <1>4. ASSUME NEW r \in Requests, NEW d \in Documents, UpstreamLoads(r, d) PROVE FALSE
    BY <1>1, <1>4 DEF UpstreamLoads
  <1>5. ~(UNCHANGED vars)
    BY <1>1 DEF vars, request
  <1>6. ASSUME NEW r \in Requests, Refused(r) PROVE Cardinality(UnderWay) = MaxInFlight
    BY <1>0, <1>6 DEF Refused
  <1>7. QED
    BY <1>2, <1>3, <1>4, <1>5, <1>6 DEF Next

\* Fail-fast is no more eager than it has to be: a pass is refused only while
\* MaxInFlight others are under way (Client.acquire, Client.release).
THEOREM RefusalsJustified == Spec => RefusedOnlyWhenFull
  <1>1. IInv /\ [Next]_vars =>
          [\A r \in Requests :
             reply[r].status = "none" /\ reply'[r].status = "refused"
               => Cardinality(UnderWay) = MaxInFlight]_vars
    BY RefusalStep
  <1>2. QED
    BY <1>1, Inductive, PTL DEF Spec, RefusedOnlyWhenFull

=============================================================================
