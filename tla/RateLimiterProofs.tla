------------------------- MODULE RateLimiterProofs -------------------------
(***************************************************************************)
(* For any rate, burst and TTL, as long as the TTL covers the time a       *)
(* bucket takes to fill and the longest wait for the mutex: the limiter's  *)
(* safety, and that it implements TokenBuckets.                            *)
(***************************************************************************)
EXTENDS RateLimiter, TLAPS

\* How late a stamp can be: before the mutex, in the map, and in nextSweep.
AsksFit ==
  \A p \in Requests : asks[p] # None =>
    asks[p].at <= clock /\ clock - asks[p].at <= MaxDelay

EntriesFit ==
  \A c \in Clients : limiters[c] # None =>
    /\ limiters[c].last <= clock
    /\ limiters[c].last <= limiters[c].lastSeen + MaxDelay
    /\ nextSweep <= limiters[c].lastSeen + 2 * EntryTTL

SpentFits == \A c \in Clients : spent[c] + Tokens(limiters[c]) <= Full + clock

IInv ==
  /\ TypeOK
  /\ AsksFit
  /\ EntriesFit
  /\ nextSweep <= clock + EntryTTL
  /\ SpentFits

\* What a bucket holds is between nothing and Full.
LEMMA TokensType ==
  ASSUME NEW e \in Entry \cup {None}, clock \in Nat, e # None => e.last <= clock
  PROVE  Tokens(e) \in 0 .. Full
BY ConstantsAssumption DEF Tokens, Capped, Entry

\* A sweep takes entries whose buckets are full again, and no others.
LEMMA SweepIsInvisible ==
  ASSUME IInv, NEW p \in Requests, asks[p] # None, NEW c \in Clients
  PROVE  /\ asks[p] \in Stamp
         /\ Swept(asks[p].at)[c] \in {limiters[c], None}
         /\ Swept(asks[p].at)[c] \in Entry \cup {None}
         /\ Tokens(Swept(asks[p].at)[c]) = Tokens(limiters[c])
         /\ Tokens(limiters[c]) \in 0 .. Full
<1> DEFINE at == asks[p].at
<1> DEFINE e == limiters[c]
<1>1. asks[p] \in Stamp /\ at \in Nat /\ at <= clock /\ clock - at <= MaxDelay
  BY DEF IInv, TypeOK, AsksFit, Stamp
<1>2. e \in Entry \cup {None} /\ clock \in Nat
  BY DEF IInv, TypeOK
<1>3. e # None => e.last <= clock /\ e.last <= e.lastSeen + MaxDelay
  BY DEF IInv, EntriesFit
<1>4. Tokens(e) \in 0 .. Full
  <2> HIDE DEF e
  <2> QED BY <1>2, <1>3, TokensType
<1>5. Swept(at)[c] = IF at >= nextSweep /\ Idle(e, at) THEN None ELSE e
  BY DEF Swept
<1>6. CASE at >= nextSweep /\ Idle(e, at)
  <2> HIDE DEF e, at
  <2>1. e # None /\ e.lastSeen < at - EntryTTL /\ e \in Entry
    BY <1>2, <1>6 DEF Idle
  <2>2. e.level + (clock - e.last) >= Full
    BY <1>1, <1>2, <1>3, <2>1, ConstantsAssumption DEF Entry
  <2>3. Tokens(e) = Full /\ Tokens(None) = Full
    BY <1>2, <2>1, <2>2, ConstantsAssumption DEF Tokens, Capped, Entry
  <2>4. Swept(at)[c] = None
    BY <1>5, <1>6
  <2> QED BY <1>1, <1>4, <2>3, <2>4 DEF e, at
<1>7. CASE ~(at >= nextSweep /\ Idle(e, at))
  BY <1>1, <1>2, <1>4, <1>5, <1>7
<1> QED BY <1>6, <1>7

\* An entry that a sweep has left was seen within two TTLs of the next sweep.
LEMMA SweepFits ==
  ASSUME IInv, NEW p \in Requests, Serve(p), NEW c \in Clients,
         Swept(asks[p].at)[c] # None
  PROVE  /\ Swept(asks[p].at)[c] = limiters[c]
         /\ limiters[c] \in Entry
         /\ nextSweep' <= limiters[c].lastSeen + 2 * EntryTTL
<1>1. asks[p] \in Stamp /\ asks[p].at \in Nat /\ nextSweep \in Nat /\ EntryTTL \in Nat
  BY ConstantsAssumption DEF IInv, TypeOK, Serve, Stamp
<1>2. Swept(asks[p].at)[c] = limiters[c] /\ limiters[c] \in Entry
  BY DEF IInv, TypeOK, Swept
<1>3. ~(asks[p].at >= nextSweep /\ Idle(limiters[c], asks[p].at))
  BY DEF Swept
<1>4. nextSweep <= limiters[c].lastSeen + 2 * EntryTTL /\ limiters[c].lastSeen \in Nat
  BY <1>2 DEF IInv, EntriesFit, Entry
<1>5. nextSweep' = IF asks[p].at >= nextSweep THEN asks[p].at + EntryTTL ELSE nextSweep
  BY DEF Serve
<1>6. asks[p].at >= nextSweep => limiters[c].lastSeen >= asks[p].at - EntryTTL
  BY <1>1, <1>2, <1>3, <1>4 DEF Idle
<1> QED BY <1>1, <1>2, <1>4, <1>5, <1>6

\* The step that grants keeps the invariant.
LEMMA GrantKeeps ==
  ASSUME IInv, NEW p \in Requests, Grant(p)
  PROVE  IInv'
<1> DEFINE at == asks[p].at
<1> DEFINE c == asks[p].client
<1> DEFINE left == Tokens(Swept(at)[c])
<1>1. /\ asks[p] # None /\ asks[p] \in Stamp /\ at \in Nat /\ c \in Clients
      /\ at <= clock /\ clock - at <= MaxDelay
      /\ clock \in Nat /\ nextSweep \in Nat /\ spent \in [Clients -> Nat]
  BY DEF IInv, TypeOK, AsksFit, Stamp, Grant, Serve
<1>2. /\ Serve(p) /\ left >= Cost /\ clock' = clock
      /\ limiters' = [Swept(at) EXCEPT ![c] = [level |-> left - Cost, last |-> clock, lastSeen |-> at]]
      /\ verdict' = [client |-> c, granted |-> TRUE]
      /\ spent' = [spent EXCEPT ![c] = @ + Cost]
  BY DEF Grant, Serve
<1>3. left = Tokens(limiters[c]) /\ left \in 0 .. Full
  BY <1>1, SweepIsInvisible
<1>4. \A d \in Clients : d # c => limiters'[d] = Swept(at)[d]
  BY <1>2 DEF Swept
<1>5. limiters'[c] = [level |-> left - Cost, last |-> clock, lastSeen |-> at]
  BY <1>1, <1>2 DEF Swept
<1> HIDE DEF left
<1>6. limiters'[c] \in Entry
  BY <1>1, <1>2, <1>3, <1>5, ConstantsAssumption DEF Entry
<1>7. TypeOK'
  <2>1. asks' \in [Requests -> Stamp \cup {None}]
    BY <1>2 DEF IInv, TypeOK, Serve
  <2>2. limiters' \in [Clients -> Entry \cup {None}]
    <3>1. \A d \in Clients : limiters'[d] \in Entry \cup {None}
      BY <1>1, <1>4, <1>6, SweepIsInvisible
    <3>2. limiters' = [d \in Clients |-> limiters'[d]]
      BY <1>2 DEF Swept
    <3> QED BY <3>1, <3>2
  <2>3. nextSweep' \in Nat
    BY <1>1, <1>2, ConstantsAssumption DEF Serve
  <2>4. spent' \in [Clients -> Nat]
    BY <1>1, <1>2, ConstantsAssumption
  <2> QED BY <1>1, <1>2, <2>1, <2>2, <2>3, <2>4 DEF TypeOK
<1>8. AsksFit'
  BY <1>2 DEF IInv, TypeOK, AsksFit, Serve
<1>9. nextSweep' <= clock' + EntryTTL
  BY <1>1, <1>2, ConstantsAssumption DEF IInv, Serve
<1>10. EntriesFit'
  <2> SUFFICES ASSUME NEW d \in Clients, limiters'[d] # None
               PROVE  /\ limiters'[d].last <= clock
                      /\ limiters'[d].last <= limiters'[d].lastSeen + MaxDelay
                      /\ nextSweep' <= limiters'[d].lastSeen + 2 * EntryTTL
    BY <1>2 DEF EntriesFit
  <2>1. CASE d = c
    BY <1>1, <1>2, <1>5, <1>9, <2>1, ConstantsAssumption DEF Serve
  <2>2. CASE d # c
    BY <1>2, <1>4, <2>2, SweepFits DEF IInv, EntriesFit
  <2> QED BY <2>1, <2>2
<1>11. SpentFits'
  <2> SUFFICES ASSUME NEW d \in Clients
               PROVE  spent'[d] + Tokens(limiters[d])' <= Full + clock
    BY <1>2 DEF SpentFits
  <2>0. spent[d] + Tokens(limiters[d]) <= Full + clock
    BY DEF IInv, SpentFits
  <2>1. CASE d = c
    <3>1. Tokens(limiters[d])' = left - Cost
      <4>0. limiters'[d] = [level |-> left - Cost, last |-> clock, lastSeen |-> at]
        BY <1>5, <2>1
      <4>1. limiters'[d] # None
        BY <2>1, <1>1, <1>3, <1>5, <1>6, ConstantsAssumption DEF Entry
      <4>2. Tokens(limiters[d])' = Capped((left - Cost) + (clock - clock))
        BY <1>2, <4>0, <4>1 DEF Tokens, Capped
      <4> QED BY <1>1, <1>2, <1>3, <4>2, ConstantsAssumption DEF Capped
    <3>2. spent'[d] = spent[d] + Cost
      BY <1>1, <1>2, <2>1
    <3>3. left = Tokens(limiters[d])
      BY <1>3, <2>1
    <3> QED BY <1>1, <1>3, <2>0, <3>1, <3>2, <3>3, ConstantsAssumption
  <2>2. CASE d # c
    <3>1. Tokens(limiters[d])' = Tokens(Swept(at)[d])
      BY <1>2, <1>4, <2>2 DEF Tokens, Capped
    <3>2. spent'[d] = spent[d]
      BY <1>1, <1>2, <2>2
    <3> QED BY <1>1, <2>0, <3>1, <3>2, SweepIsInvisible
  <2> QED BY <2>1, <2>2
<1> QED BY <1>7, <1>8, <1>9, <1>10, <1>11 DEF IInv

\* The step that refuses keeps the invariant: only lastSeen moves.
LEMMA RefuseKeeps ==
  ASSUME IInv, NEW p \in Requests, Refuse(p)
  PROVE  /\ IInv'
         /\ \A d \in Clients : Tokens(limiters[d])' = Tokens(limiters[d])
<1> DEFINE at == asks[p].at
<1> DEFINE c == asks[p].client
<1>1. /\ asks[p] # None /\ asks[p] \in Stamp /\ at \in Nat /\ c \in Clients
      /\ at <= clock /\ clock - at <= MaxDelay
      /\ clock \in Nat /\ nextSweep \in Nat /\ spent \in [Clients -> Nat]
  BY DEF IInv, TypeOK, AsksFit, Stamp, Refuse, Serve
<1>2. /\ Serve(p) /\ Tokens(Swept(at)[c]) < Cost /\ clock' = clock
      /\ limiters' = [Swept(at) EXCEPT ![c].lastSeen = at]
      /\ verdict' = [client |-> c, granted |-> FALSE]
      /\ spent' = spent
  BY DEF Refuse, Serve
<1>3. Swept(at)[c] = limiters[c] /\ limiters[c] \in Entry
  <2>1. Tokens(None) >= Cost
    BY ConstantsAssumption DEF Tokens
  <2>2. Swept(at)[c] # None
    BY <1>2, <2>1, ConstantsAssumption DEF Tokens
  <2> QED BY <1>1, <1>2, <2>2, SweepFits
<1>4. \A d \in Clients : d # c => limiters'[d] = Swept(at)[d]
  BY <1>2 DEF Swept
<1>5. limiters'[c] = [limiters[c] EXCEPT !.lastSeen = at]
  BY <1>1, <1>2, <1>3 DEF Swept
<1>6. /\ limiters'[c] \in Entry
      /\ limiters'[c].level = limiters[c].level /\ limiters'[c].last = limiters[c].last
      /\ limiters'[c].lastSeen = at
  BY <1>1, <1>3, <1>5 DEF Entry
<1>7. TypeOK'
  <2>1. asks' \in [Requests -> Stamp \cup {None}]
    BY <1>2 DEF IInv, TypeOK, Serve
  <2>2. limiters' \in [Clients -> Entry \cup {None}]
    <3>1. \A d \in Clients : limiters'[d] \in Entry \cup {None}
      BY <1>1, <1>4, <1>6, SweepIsInvisible
    <3>2. limiters' = [d \in Clients |-> limiters'[d]]
      BY <1>2 DEF Swept
    <3> QED BY <3>1, <3>2
  <2>3. nextSweep' \in Nat
    BY <1>1, <1>2, ConstantsAssumption DEF Serve
  <2> QED BY <1>1, <1>2, <2>1, <2>2, <2>3 DEF TypeOK
<1>8. AsksFit'
  BY <1>2 DEF IInv, TypeOK, AsksFit, Serve
<1>9. nextSweep' <= clock' + EntryTTL
  BY <1>1, <1>2, ConstantsAssumption DEF IInv, Serve
<1>10. EntriesFit'
  <2> SUFFICES ASSUME NEW d \in Clients, limiters'[d] # None
               PROVE  /\ limiters'[d].last <= clock
                      /\ limiters'[d].last <= limiters'[d].lastSeen + MaxDelay
                      /\ nextSweep' <= limiters'[d].lastSeen + 2 * EntryTTL
    BY <1>2 DEF EntriesFit
  <2>1. CASE d = c
    <3>1. limiters[c].last <= clock /\ limiters[c].last \in Nat
      BY <1>1, <1>3, ConstantsAssumption DEF IInv, EntriesFit, Entry
    <3> QED BY <1>1, <1>2, <1>6, <1>9, <2>1, <3>1, ConstantsAssumption DEF Serve
  <2>2. CASE d # c
    BY <1>2, <1>4, <2>2, SweepFits DEF IInv, EntriesFit
  <2> QED BY <2>1, <2>2
<1>11. ASSUME NEW d \in Clients
       PROVE  Tokens(limiters[d])' = Tokens(limiters[d])
  <2>1. CASE d = c
    <3>1. limiters'[d] # None /\ limiters[d] # None
      BY <1>3, <1>6, <2>1, ConstantsAssumption DEF Entry
    <3>2. limiters'[d].level = limiters[d].level /\ limiters'[d].last = limiters[d].last
      BY <1>6, <2>1
    <3> QED BY <1>2, <3>1, <3>2 DEF Tokens, Capped
  <2>2. CASE d # c
    <3>1. Tokens(limiters[d])' = Tokens(Swept(at)[d])
      BY <1>2, <1>4, <2>2 DEF Tokens, Capped
    <3> QED BY <1>1, <3>1, SweepIsInvisible
  <2> QED BY <2>1, <2>2
<1>12. SpentFits'
  BY <1>2, <1>11 DEF IInv, SpentFits
<1> QED BY <1>7, <1>8, <1>9, <1>10, <1>11, <1>12 DEF IInv

\* A tick fills every bucket by one, those without an entry included.
LEMMA TickFills ==
  ASSUME IInv, Tick, NEW c \in Clients
  PROVE  /\ Tokens(limiters[c])' = Capped(Tokens(limiters[c]) + 1)
         /\ Tokens(limiters[c]) \in 0 .. Full
<1>1. /\ clock \in Nat /\ clock' = clock + 1 /\ limiters' = limiters
      /\ limiters[c] \in Entry \cup {None}
      /\ limiters[c] # None => limiters[c].last <= clock
  BY DEF Tick, IInv, TypeOK, EntriesFit
<1>2. Tokens(limiters[c]) \in 0 .. Full
  BY <1>1, TokensType
<1>3. CASE limiters[c] = None
  BY <1>1, <1>2, <1>3, ConstantsAssumption DEF Tokens, Capped
<1>4. CASE limiters[c] # None
  <2> DEFINE n == limiters[c].level + (clock - limiters[c].last)
  <2>1. limiters[c].level \in Nat /\ limiters[c].last \in Nat /\ limiters[c].last <= clock
    BY <1>1, <1>4, ConstantsAssumption DEF Entry
  <2>2. n \in Nat /\ limiters[c].level + ((clock + 1) - limiters[c].last) = n + 1
    BY <1>1, <2>1
  <2>3. Tokens(limiters[c]) = Capped(n)
    BY <1>4 DEF Tokens
  <2>4. Tokens(limiters[c])' = Capped(n + 1)
    BY <1>1, <1>4, <2>2 DEF Tokens, Capped
  <2>5. Capped(Capped(n) + 1) = Capped(n + 1)
    <3> HIDE DEF n
    <3> QED BY <2>2, ConstantsAssumption DEF Capped
  <2> QED BY <1>2, <2>3, <2>4, <2>5
<1> QED BY <1>3, <1>4

\* IInv is inductive.
THEOREM Inductive == Spec => []IInv
<1>1. Init => IInv
  <2> SUFFICES ASSUME Init PROVE IInv
    OBVIOUS
  <2>1. TypeOK
    BY DEF Init, TypeOK
  <2>2. AsksFit /\ EntriesFit
    BY DEF Init, AsksFit, EntriesFit
  <2>3. nextSweep <= clock + EntryTTL
    BY ConstantsAssumption DEF Init
  <2>4. SpentFits
    <3> SUFFICES ASSUME NEW c \in Clients
                 PROVE  spent[c] + Tokens(limiters[c]) <= Full + clock
      BY DEF SpentFits
    <3>1. Tokens(limiters[c]) = Full
      BY DEF Init, Tokens
    <3> QED BY <3>1, ConstantsAssumption DEF Init
  <2> QED BY <2>1, <2>2, <2>3, <2>4 DEF IInv
<1>2. IInv /\ [Next]_vars => IInv'
  <2> SUFFICES ASSUME IInv, [Next]_vars PROVE IInv'
    OBVIOUS
  <2>1. ASSUME NEW p \in Requests, NEW c \in Clients, Read(p, c)
        PROVE  IInv'
    <3>1. TypeOK'
      BY <2>1 DEF IInv, TypeOK, Read, Stamp
    <3>2. AsksFit'
      <4> SUFFICES ASSUME NEW q \in Requests, asks'[q] # None
                   PROVE  asks'[q].at <= clock /\ clock - asks'[q].at <= MaxDelay
        BY <2>1 DEF AsksFit, Read
      <4>1. CASE q = p
        BY <2>1, <4>1, ConstantsAssumption DEF IInv, TypeOK, Read
      <4>2. CASE q # p
        BY <2>1, <4>2 DEF IInv, TypeOK, AsksFit, Read
      <4> QED BY <4>1, <4>2
    <3>3. EntriesFit'
      BY <2>1 DEF IInv, EntriesFit, Read
    <3>4. SpentFits'
      BY <2>1 DEF IInv, SpentFits, Tokens, Capped, Read
    <3> QED BY <2>1, <3>1, <3>2, <3>3, <3>4 DEF IInv, Read
  <2>2. ASSUME NEW p \in Requests, Grant(p)
        PROVE  IInv'
    BY <2>2, GrantKeeps
  <2>3. ASSUME NEW p \in Requests, Refuse(p)
        PROVE  IInv'
    BY <2>3, RefuseKeeps
  <2>4. CASE Tick
    <3>1. TypeOK'
      BY <2>4 DEF IInv, TypeOK, Tick
    <3>2. AsksFit'
      BY <2>4, ConstantsAssumption DEF IInv, TypeOK, AsksFit, Stamp, Tick
    <3>3. EntriesFit'
      BY <2>4 DEF IInv, TypeOK, EntriesFit, Entry, Tick
    <3>4. nextSweep' <= clock' + EntryTTL
      BY <2>4, ConstantsAssumption DEF IInv, TypeOK, Tick
    <3>5. SpentFits'
      <4> SUFFICES ASSUME NEW c \in Clients
                   PROVE  spent[c] + Tokens(limiters[c])' <= Full + (clock + 1)
        BY <2>4 DEF SpentFits, Tick
      <4>1. spent[c] + Tokens(limiters[c]) <= Full + clock /\ spent[c] \in Nat /\ clock \in Nat
        BY DEF IInv, TypeOK, SpentFits
      <4>2. Tokens(limiters[c])' = Capped(Tokens(limiters[c]) + 1) /\ Tokens(limiters[c]) \in 0 .. Full
        BY <2>4, TickFills
      <4> QED BY <4>1, <4>2, ConstantsAssumption DEF Capped
    <3> QED BY <3>1, <3>2, <3>3, <3>4, <3>5 DEF IInv
  <2>5. CASE UNCHANGED vars
    BY <2>5 DEF vars, IInv, TypeOK, AsksFit, EntriesFit, SpentFits, Tokens, Capped
  <2> QED BY <2>1, <2>2, <2>3, <2>4, <2>5 DEF Next
<1> QED BY <1>1, <1>2, PTL DEF Spec

\* Every variable keeps its type, and no bucket overflows.
THEOREM Typing == Spec => []TypeOK
BY Inductive, PTL DEF IInv

\* What a client is granted stays within its rate (TestIPRateLimiter_* try one
\* client and one sweep).
THEOREM WithinRate == Spec => []SpentWithinRate
<1>1. IInv => SpentWithinRate
  <2> SUFFICES ASSUME IInv, NEW c \in Clients
               PROVE  spent[c] <= Full + clock
    BY DEF SpentWithinRate
  <2>1. spent[c] + Tokens(limiters[c]) <= Full + clock /\ spent[c] \in Nat /\ clock \in Nat
    BY DEF IInv, TypeOK, SpentFits
  <2>2. Tokens(limiters[c]) \in 0 .. Full
    BY TokensType DEF IInv, TypeOK, EntriesFit
  <2> QED BY <2>1, <2>2, ConstantsAssumption
<1> QED BY <1>1, Inductive, PTL

\* Entries that are not used are forgotten.
THEOREM Forgets == Spec => ForgetsIdle
<1>1. IInv /\ IInv' /\ [Next]_vars =>
        [\A p \in Requests : asks[p] # None /\ asks'[p] = None =>
           \A c \in Clients : limiters'[c] # None =>
             asks[p].at - limiters'[c].lastSeen <= 2 * EntryTTL]_vars
  <2> SUFFICES ASSUME IInv, IInv', [Next]_vars, NEW p \in Requests,
                      asks[p] # None, asks'[p] = None, NEW c \in Clients, limiters'[c] # None
               PROVE  asks[p].at - limiters'[c].lastSeen <= 2 * EntryTTL
    OBVIOUS
  <2>1. Serve(p)
    <3>1. ASSUME NEW q \in Requests, Serve(q) PROVE q = p
      BY <3>1 DEF IInv, TypeOK, Serve
    <3>2. \A q \in Requests, d \in Clients : ~Read(q, d)
      <4> SUFFICES ASSUME NEW q \in Requests, NEW d \in Clients, Read(q, d)
                   PROVE  FALSE
        OBVIOUS
      <4>1. [client |-> d, at |-> clock] # None
        BY ConstantsAssumption DEF IInv, TypeOK
      <4> QED BY <4>1 DEF IInv, TypeOK, Read
    <3> QED BY <3>1, <3>2 DEF Next, Grant, Refuse, Tick, vars
  <2>2. asks[p].at <= nextSweep' /\ asks[p].at \in Nat /\ nextSweep' \in Nat
    BY <2>1, ConstantsAssumption DEF Serve, IInv, TypeOK, Stamp
  <2>3. nextSweep' <= limiters'[c].lastSeen + 2 * EntryTTL /\ limiters'[c].lastSeen \in Nat
    BY DEF IInv, TypeOK, EntriesFit, Entry
  <2> QED BY <2>2, <2>3, ConstantsAssumption
<1> QED BY <1>1, Inductive, PTL DEF Spec, ForgetsIdle

\* The limiter implements one bucket per client that is never forgotten.
THEOREM Implements == Spec => ImplementsBuckets
<1> DEFINE Level == [c \in Clients |-> Tokens(limiters[c])]
<1>1. Init => Buckets!Init
  BY DEF Init, Buckets!Init, Tokens
<1>2. IInv /\ [Next]_vars => [Buckets!Next]_<<Level, verdict>>
  <2> SUFFICES ASSUME IInv, [Next]_vars
               PROVE  Buckets!Next \/ (Level' = Level /\ verdict' = verdict)
    OBVIOUS
  <2>1. ASSUME NEW p \in Requests, NEW c \in Clients, Read(p, c)
        PROVE  Level' = Level /\ verdict' = verdict
    BY <2>1 DEF Read, Tokens, Capped
  <2>2. ASSUME NEW p \in Requests, Grant(p)
        PROVE  Buckets!Next
    <3> PICK c \in Clients : c = asks[p].client
      BY <2>2 DEF IInv, TypeOK, Stamp, Grant, Serve
    <3>1. /\ asks[p] # None /\ asks[p].at \in Nat /\ clock \in Nat /\ clock' = clock
          /\ Tokens(Swept(asks[p].at)[c]) >= Cost
          /\ verdict' = [client |-> c, granted |-> TRUE]
          /\ limiters' = [Swept(asks[p].at) EXCEPT ![c] =
               [level |-> Tokens(Swept(asks[p].at)[c]) - Cost, last |-> clock, lastSeen |-> asks[p].at]]
      BY <2>2 DEF Grant, Serve, IInv, TypeOK, Stamp
    <3>2. \A d \in Clients : /\ Tokens(Swept(asks[p].at)[d]) = Tokens(limiters[d])
                             /\ Tokens(limiters[d]) \in 0 .. Full
      BY <3>1, SweepIsInvisible
    <3>3. Tokens(limiters[c])' = Tokens(limiters[c]) - Cost
      <4>1. limiters'[c] = [level |-> Tokens(limiters[c]) - Cost, last |-> clock, lastSeen |-> asks[p].at]
        BY <3>1, <3>2 DEF Swept
      <4>2. limiters'[c] # None
        BY <3>1, <3>2, <4>1, ConstantsAssumption
      <4>3. Tokens(limiters[c])' = Capped((Tokens(limiters[c]) - Cost) + (clock - clock))
        BY <3>1, <4>1, <4>2 DEF Tokens, Capped
      <4> QED BY <3>1, <3>2, <4>3, ConstantsAssumption DEF Capped
    <3>4. ASSUME NEW d \in Clients, d # c
          PROVE  Tokens(limiters[d])' = Tokens(limiters[d])
      <4>1. limiters'[d] = Swept(asks[p].at)[d]
        BY <3>1, <3>4 DEF Swept
      <4>2. Tokens(limiters[d])' = Tokens(Swept(asks[p].at)[d])
        BY <3>1, <4>1 DEF Tokens, Capped
      <4> QED BY <3>2, <4>2
    <3>5. Level' = [Level EXCEPT ![c] = @ - Cost]
      BY <3>3, <3>4
    <3>6. Level[c] >= Cost
      BY <3>1, <3>2
    <3> HIDE DEF Level
    <3> QED BY <3>1, <3>5, <3>6 DEF Buckets!Next, Buckets!Grant, Level
  <2>3. ASSUME NEW p \in Requests, Refuse(p)
        PROVE  Buckets!Next
    <3> PICK c \in Clients : c = asks[p].client
      BY <2>3 DEF IInv, TypeOK, Stamp, Refuse, Serve
    <3>1. asks[p] # None /\ Tokens(Swept(asks[p].at)[c]) < Cost /\ verdict' = [client |-> c, granted |-> FALSE]
      BY <2>3 DEF Refuse, Serve
    <3>2. Level[c] < Cost
      BY <3>1, SweepIsInvisible
    <3>3. Level' = Level
      BY <2>3, RefuseKeeps
    <3> QED BY <3>1, <3>2, <3>3 DEF Buckets!Next, Buckets!Refuse
  <2>4. CASE Tick
    <3>1. Level' = [c \in Clients |-> Buckets!Capped(Level[c] + 1)]
      BY <2>4, TickFills DEF Buckets!Capped, Capped
    <3> QED BY <2>4, <3>1 DEF Buckets!Next, Buckets!Fill, Tick
  <2>5. CASE UNCHANGED vars
    BY <2>5 DEF vars, Tokens, Capped
  <2> QED BY <2>1, <2>2, <2>3, <2>4, <2>5 DEF Next
<1> QED BY <1>1, <1>2, Inductive, PTL DEF Spec, ImplementsBuckets, Buckets!Spec
=============================================================================
