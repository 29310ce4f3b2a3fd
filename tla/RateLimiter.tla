---------------------------- MODULE RateLimiter ----------------------------
(***************************************************************************)
(* The limiter of requests per client address: internal/api/rate_limit.go. *)
(*                                                                         *)
(* A request reads the clock, takes the mutex and then does the rest in    *)
(* one critical section: a sweep if one is due, the look-up of its         *)
(* client's limiter, and the question to that limiter, which reads the     *)
(* clock again.  Between the two readings the request may wait, so stamps  *)
(* reach the map late and out of order.                                    *)
(*                                                                         *)
(* Tokens are counted in units of the time they take to fill, as in        *)
(* TokenBuckets: a request costs the interval of a token.                  *)
(***************************************************************************)
EXTENDS Integers

CONSTANTS
  Clients,
  Requests,  \* requests that may be asking at the same time
  None,
  Cost,      \* rate.Every(...): the time of one token
  Full,      \* the time of `burst` tokens: a minute
  EntryTTL,  \* ipRateLimiterEntryTTL: 15 minutes
  MaxDelay,  \* longest wait between the clock and the mutex
  MaxClock   \* bound on the clock

\* An entry outlives the filling of its bucket by more than a request waits.
ASSUME ConstantsAssumption ==
  /\ Cost \in Nat \ {0} /\ Full \in Nat /\ Cost <= Full
  /\ EntryTTL \in Nat /\ MaxDelay \in Nat /\ Full + MaxDelay <= EntryTTL
  /\ MaxClock \in Nat
  /\ None \notin [client : Clients, at : Nat]
  /\ None \notin [level : Nat, last : Nat, lastSeen : Nat]

VARIABLES
  clock,
  asks,       \* the client and the stamp of each request before the mutex
  limiters,   \* limiters: what is left, when that was, lastSeen
  nextSweep,
  verdict,    \* the latest answer
  spent       \* what each client was granted in all (history)

vars == <<clock, asks, limiters, nextSweep, verdict, spent>>

Init ==
  /\ clock = 0
  /\ asks = [p \in Requests |-> None]
  /\ limiters = [c \in Clients |-> None]
  /\ nextSweep = 0
  /\ verdict = None
  /\ spent = [c \in Clients |-> 0]

Capped(n) == IF n > Full THEN Full ELSE n

\* A bug: buckets overflow.
Tokens_Uncapped(entry) ==
  IF entry = None THEN Full ELSE entry.level + (clock - entry.last)

\* What an entry's bucket holds by now; a new one is full (golang.org/x/time/rate).
Tokens(entry) ==
  IF entry = None THEN Full ELSE Capped(entry.level + (clock - entry.last))

\* A bug: an entry is idle once its bucket would be full, going by its stamp.
Idle_WhenFull(entry, at) == entry # None /\ entry.lastSeen <= at - Full

\* deleteExpiredEntriesLocked
Idle(entry, at) == entry # None /\ entry.lastSeen < at - EntryTTL

\* A bug: a sweep only moves the time of the next one.
Swept_Never(at) == limiters

\* The entries after the sweep, if one is due.
Swept(at) ==
  [c \in Clients |-> IF at >= nextSweep /\ Idle(limiters[c], at) THEN None ELSE limiters[c]]

Read(p, c) ==
  /\ asks[p] = None
  /\ asks' = [asks EXCEPT ![p] = [client |-> c, at |-> clock]]
  /\ UNCHANGED <<clock, limiters, nextSweep, verdict, spent>>

\* What both answers share: the sweep and the end of the request.
Serve(p) ==
  /\ asks[p] # None
  /\ nextSweep' = IF asks[p].at >= nextSweep THEN asks[p].at + EntryTTL ELSE nextSweep
  /\ asks' = [asks EXCEPT ![p] = None]
  /\ UNCHANGED clock

\* A bug: what is taken is not written back.
Grant_TakesNothing(p) ==
  /\ Serve(p)
  /\ LET at   == asks[p].at
         c    == asks[p].client
         left == Tokens(Swept(at)[c])
     IN  /\ left >= Cost
         /\ limiters' = [Swept(at) EXCEPT ![c] = [level |-> left, last |-> clock, lastSeen |-> at]]
         /\ verdict' = [client |-> c, granted |-> TRUE]
         /\ spent' = [spent EXCEPT ![c] = @ + Cost]

\* allow, when the limiter lets the request pass.
Grant(p) ==
  /\ Serve(p)
  /\ LET at   == asks[p].at
         c    == asks[p].client
         left == Tokens(Swept(at)[c])
     IN  /\ left >= Cost
         /\ limiters' = [Swept(at) EXCEPT ![c] = [level |-> left - Cost, last |-> clock, lastSeen |-> at]]
         /\ verdict' = [client |-> c, granted |-> TRUE]
         /\ spent' = [spent EXCEPT ![c] = @ + Cost]

\* allow, when it does not: the limiter stays as it is.
Refuse(p) ==
  /\ Serve(p)
  /\ LET at == asks[p].at
         c  == asks[p].client
     IN  /\ Tokens(Swept(at)[c]) < Cost
         /\ limiters' = [Swept(at) EXCEPT ![c].lastSeen = at]
         /\ verdict' = [client |-> c, granted |-> FALSE]
         /\ UNCHANGED spent

\* Time passes, but no request waits for longer than MaxDelay.
Tick ==
  /\ clock < MaxClock
  /\ \A p \in Requests : asks[p] # None => clock - asks[p].at < MaxDelay
  /\ clock' = clock + 1
  /\ UNCHANGED <<asks, limiters, nextSweep, verdict, spent>>

Next ==
  \/ \E p \in Requests, c \in Clients : Read(p, c)
  \/ \E p \in Requests : Grant(p) \/ Refuse(p)
  \/ Tick

Spec == Init /\ [][Next]_vars

-----------------------------------------------------------------------------

Stamp == [client : Clients, at : Nat]
Entry == [level : 0 .. Full, last : Nat, lastSeen : Nat]

\* Every variable stays within its type; no bucket holds more than Full.
TypeOK ==
  /\ clock \in Nat
  /\ asks \in [Requests -> Stamp \cup {None}]
  /\ limiters \in [Clients -> Entry \cup {None}]
  /\ nextSweep \in Nat
  /\ verdict \in [client : Clients, granted : BOOLEAN] \cup {None}
  /\ spent \in [Clients -> Nat]

\* No client is granted more than a full bucket and what time has filled,
\* whatever is swept and however late stamps are written (03-backend-api.md:248).
SpentWithinRate == \A c \in Clients : spent[c] <= Full + clock

\* The map does not keep what is not used: whoever is served finds no entry
\* that was last seen two TTLs before its own stamp.
ForgetsIdle ==
  [][\A p \in Requests : asks[p] # None /\ asks'[p] = None =>
       \A c \in Clients : limiters'[c] # None =>
         asks[p].at - limiters'[c].lastSeen <= 2 * EntryTTL]_vars

Buckets == INSTANCE TokenBuckets
  WITH level <- [c \in Clients |-> Tokens(limiters[c])]

\* Sweeping cannot be noticed: the limiter grants and refuses as if it kept a
\* bucket for every client for ever.
ImplementsBuckets == Buckets!Spec

=============================================================================
