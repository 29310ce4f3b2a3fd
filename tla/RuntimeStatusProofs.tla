------------------------- MODULE RuntimeStatusProofs -------------------------
(***************************************************************************)
(* That a status is current, for any number of pages and requests.  The    *)
(* argument is the mutex: of the requests only its holder probes, so that  *)
(* what the prober keeps is the newest check there is, and a probe that is *)
(* under way is newer still.                                               *)
(***************************************************************************)
EXTENDS RuntimeStatus, TLAPS

\* Nobody probes without the mutex.
HolderProbes == \A q \in Requests : pc[q] = "probe" => mu = q

\* What the prober keeps is the newest check that was ever answered.
KeepsNewest == newest = IF cached = Nothing THEN -1 ELSE cached.at

\* No request began before what it must not be older than; its probe is newer
\* than every check so far.
InOrder(q) ==
  /\ floor[q] <= newest /\ begun[q] <= clock
  /\ pc[q] = "probe" => started[q] >= newest /\ started[q] >= begun[q] /\ started[q] <= clock

\* StatusIsCurrent for one request.
Current(q) ==
  reply[q] # Nothing =>
    /\ reply[q].at >= floor[q]
    /\ refresh[q] => reply[q].at >= begun[q] /\ (reply[q].cut => gone[q])

\* Only who has been answered has a reply.
Unanswered(q) == pc[q] # "answered" => reply[q] = Nothing

IInv ==
  /\ TypeOK /\ HolderProbes /\ KeepsNewest /\ newest <= clock
  /\ \A q \in Requests : InOrder(q) /\ Current(q) /\ Unanswered(q)

-----------------------------------------------------------------------------

\* Init and every action keep the variables in their types.
THEOREM Typing == Spec => []TypeOK
<1>1. Init => TypeOK
  BY ConstantsAssumption DEF Init, TypeOK, Ticks
<1>2. TypeOK /\ [Next]_vars => TypeOK'
  <2>. SUFFICES ASSUME TypeOK, [Next]_vars PROVE TypeOK'
    OBVIOUS
  <2>. USE ConstantsAssumption DEF TypeOK, Ticks
  <2>1. ASSUME NEW q \in Requests, Open(q) PROVE TypeOK'
    BY <2>1 DEF Open, Send, proberVars, Working
  <2>2. ASSUME NEW q \in Requests, Point(q) PROVE TypeOK'
    BY <2>2 DEF Point, Send, proberVars, Working
  <2>3. ASSUME NEW q \in Requests, Arrive(q) PROVE TypeOK'
    BY <2>3 DEF Arrive, proberVars, Working
  <2>4. ASSUME NEW q \in Requests, Cached(q) PROVE TypeOK'
    BY <2>4 DEF Cached, Fresh, Answer, proberVars, Working, Status
  <2>5. ASSUME NEW q \in Requests, Probe(q) PROVE TypeOK'
    BY <2>5 DEF Probe, Working
  <2>6. ASSUME NEW q \in Requests, Count(q) PROVE TypeOK'
    BY <2>6 DEF Count, proberVars, Working
  <2>7. ASSUME NEW q \in Requests, CountFails(q) PROVE TypeOK'
    BY <2>7 DEF CountFails, Answer, proberVars, Working
  <2>8. ASSUME NEW q \in Requests, Probed(q) PROVE TypeOK'
    <3>1. [at |-> started[q], cut |-> gone[q]] \in Status
      BY DEF Status
    <3>. QED
      BY <2>8, <3>1 DEF Probed, Answer, Working, Status
  <2>9. ASSUME NEW p \in Pages, Leave(p) PROVE TypeOK'
    BY <2>9 DEF Leave, proberVars, Working
  <2>10. CASE Tick
    BY <2>10 DEF Tick, proberVars, callVars
  <2>11. CASE UNCHANGED vars
    BY <2>11 DEF vars, proberVars, callVars
  <2>. QED
    BY <2>1, <2>2, <2>3, <2>4, <2>5, <2>6, <2>7, <2>8, <2>9, <2>10, <2>11
    DEF Next, Acquire, Proceed
<1>. QED
  BY <1>1, <1>2, PTL DEF Spec

-----------------------------------------------------------------------------

LEMMA Starts == Init => IInv
<1>. SUFFICES ASSUME Init PROVE IInv
  OBVIOUS
<1>1. TypeOK
  BY ConstantsAssumption DEF Init, TypeOK, Ticks
<1>. QED
  BY <1>1, ConstantsAssumption
  DEF Init, IInv, HolderProbes, KeepsNewest, InOrder, Current, Unanswered, Working

\* Each action, of any request or page, keeps the invariant.
LEMMA Keeps == ASSUME IInv, TypeOK', [Next]_vars PROVE IInv'
<1>. USE ConstantsAssumption DEF IInv
<1>. DEFINE Rest == HolderProbes' /\ KeepsNewest' /\ newest' <= clock'
                    /\ \A r \in Requests : InOrder(r)' /\ Current(r)' /\ Unanswered(r)'
<1>0. Rest => IInv'
  OBVIOUS
<1>. USE DEF TypeOK, Ticks, HolderProbes, KeepsNewest, InOrder, Current, Unanswered, Working
<1>1. ASSUME NEW q \in Requests, Open(q) \/ Point(q) PROVE Rest
  BY <1>1 DEF Open, Point, Send, proberVars
<1>3. ASSUME NEW q \in Requests, Arrive(q) PROVE Rest
  BY <1>3 DEF Arrive, proberVars
<1>4. ASSUME NEW q \in Requests, Cached(q) PROVE Rest
  BY <1>4 DEF Cached, Fresh, Answer, proberVars, Status
<1>5. ASSUME NEW q \in Requests, Probe(q) PROVE Rest
  BY <1>5 DEF Probe
<1>6. ASSUME NEW q \in Requests, Count(q) PROVE Rest
  BY <1>6 DEF Count, proberVars
<1>7. ASSUME NEW q \in Requests, CountFails(q) PROVE Rest
  BY <1>7 DEF CountFails, Answer, proberVars
<1>8. ASSUME NEW q \in Requests, Probed(q) PROVE Rest
  <2>. DEFINE found == [at |-> started[q], cut |-> gone[q]]
  <2>1. found \in Status /\ found # Nothing
    BY DEF Status
  <2>2. /\ cached' = found /\ newest' = started[q] /\ mu' = Nobody /\ clock' = clock
        /\ pc' = [pc EXCEPT ![q] = "answered"] /\ reply' = [reply EXCEPT ![q] = found]
        /\ UNCHANGED <<refresh, begun, gone, floor>>
        /\ started' = [started EXCEPT ![q] = 0] /\ pc[q] = "probe"
    BY <1>8, <2>1 DEF Probed, Answer
  <2>3. \A r \in Requests \ {q} : pc[r] # "probe"
    BY <2>2
  <2>4. found.at = started[q] /\ found.cut = gone[q]
    OBVIOUS
  <2>. HIDE DEF found
  <2>5. HolderProbes' /\ KeepsNewest' /\ newest' <= clock'
    BY <2>1, <2>2, <2>3, <2>4
  <2>6. \A r \in Requests : InOrder(r)' /\ Unanswered(r)'
    BY <2>2, <2>3
  <2>7. \A r \in Requests : Current(r)'
    BY <2>1, <2>2, <2>4
  <2>. QED
    BY <2>5, <2>6, <2>7
<1>9. ASSUME NEW p \in Pages, Leave(p) PROVE Rest
  BY <1>9 DEF Leave, proberVars
<1>10. CASE Tick
  <2>1. Rest
    BY <1>10 DEF Tick, proberVars, callVars
  <2>. QED
    BY <1>0, <2>1
<1>11. CASE UNCHANGED vars
  <2>1. Rest
    BY <1>11 DEF vars, proberVars, callVars
  <2>. QED
    BY <1>0, <2>1
<1>. HIDE DEF Rest
<1>. QED
  BY <1>0, <1>1, <1>3, <1>4, <1>5, <1>6, <1>7, <1>8, <1>9, <1>10, <1>11
  DEF Next, Acquire, Proceed

\* No status is of an older check than one answered before its request came, and
\* only a page that did not ask for a probe is told of one that was cut off.
THEOREM Currency == Spec => []StatusIsCurrent
<1>1. IInv => StatusIsCurrent
  BY DEF IInv, Current, StatusIsCurrent
<1>2. TypeOK' /\ IInv /\ [Next]_vars => IInv'
  BY Keeps
<1>. QED
  BY <1>1, <1>2, Starts, Typing, PTL DEF Spec

\* Whatever requests are cut off and pages left, the prober's state is well
\* formed and its answers are current (UpstreamProber.Status).
THEOREM Sound == Spec => []StatusIsSound
<1>1. TypeOK /\ StatusIsCurrent => StatusIsSound
  BY DEF StatusIsSound
<1>. QED
  BY <1>1, Typing, Currency, PTL

=============================================================================
