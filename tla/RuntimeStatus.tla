---------------------------- MODULE RuntimeStatus ----------------------------
(***************************************************************************)
(* GET /api/runtime-status: the badges in the footer of the pages, the     *)
(* handler, and the prober of the upstream (internal/runtimestatus), which *)
(* holds its mutex while it probes and keeps what it found for a while.    *)
(*                                                                         *)
(* A probe uses the context of the request it is made for: when that page  *)
(* is left the probe is cut off, and the prober keeps that the upstream is *)
(* not there.  A page asks when it is opened and, for a probe of its own,  *)
(* whenever the badges are pointed at.  The badges show the last answer to  *)
(* arrive, in whatever order, which is not modelled.                       *)
(***************************************************************************)
EXTENDS Integers

CONSTANTS
  Requests,    \* GET requests that may be under way
  Pages,
  PageOf,      \* the page a request is made by
  Nobody,      \* nobody holds the mutex
  Nothing,     \* no status
  TTL,         \* defaultProbeCacheTTL
  Timeout,     \* of the prober's HTTP client
  MaxTick      \* bound on the clock

ASSUME ConstantsAssumption ==
  /\ PageOf \in [Requests -> Pages] /\ Nobody \notin Requests
  /\ Nothing \notin [at : 0 .. MaxTick, cut : BOOLEAN]
  /\ TTL \in Nat \ {0} /\ Timeout \in Nat /\ MaxTick \in Nat

VARIABLES
  clock,
  open,      \* is a page there, with its badges?
  pc,        \* where each request stands
  refresh,   \* does it ask for a probe?
  started,   \* clock when its probe began
  gone,      \* has its context ended?
  reply,     \* its answer
  mu,        \* holder of prober.mu
  cached,    \* prober.cached
  cachedAt,  \* prober.cachedAt
  begun,     \* clock when it began (history)
  newest,    \* the latest check any request was answered with (history)
  floor      \* `newest` when the request began (history)

proberVars == <<mu, cached, cachedAt>>
callVars   == <<pc, refresh, started, begun, gone, reply, newest, floor>>
vars       == <<clock, open, proberVars, callVars>>

Ticks == 0 .. MaxTick

\* lastCheckedAt, and whether the probe was cut off by the client (history): it
\* then says that the upstream is not there.  Otherwise it says what was found.
Status == [at : Ticks, cut : BOOLEAN]

Working == {"count", "wait", "probe"}

Init ==
  /\ clock = 0
  /\ open = [p \in Pages |-> FALSE]
  /\ pc = [q \in Requests |-> "idle"] /\ refresh = [q \in Requests |-> FALSE]
  /\ started = [q \in Requests |-> 0] /\ begun = [q \in Requests |-> 0]
  /\ gone = [q \in Requests |-> FALSE]
  /\ reply = [q \in Requests |-> Nothing] /\ floor = [q \in Requests |-> -1]
  /\ mu = Nobody /\ cached = Nothing /\ cachedAt = 0 /\ newest = -1

-----------------------------------------------------------------------------
(* Pages *)

Send(q, probe) ==
  /\ pc[q] = "idle"
  /\ pc' = [pc EXCEPT ![q] = "count"]
  /\ refresh' = [refresh EXCEPT ![q] = probe]
  /\ begun' = [begun EXCEPT ![q] = clock]
  /\ floor' = [floor EXCEPT ![q] = newest]
  /\ UNCHANGED <<clock, proberVars, started, gone, reply, newest>>

\* The badges are mounted: load(false).
Open(q) ==
  /\ ~open[PageOf[q]]
  /\ open' = [open EXCEPT ![PageOf[q]] = TRUE]
  /\ Send(q, FALSE)

\* handleRefreshIntent: the pointer or the focus comes to the badges.
Point(q) == open[PageOf[q]] /\ Send(q, TRUE) /\ UNCHANGED open

\* The page is closed; the contexts of its requests end and nobody reads what
\* they are answered.
Leave(p) ==
  /\ open[p]
  /\ open' = [open EXCEPT ![p] = FALSE]
  /\ gone' = [q \in Requests |-> gone[q] \/ (PageOf[q] = p /\ pc[q] # "idle")]
  /\ UNCHANGED <<clock, proberVars, pc, refresh, started, begun, reply, newest, floor>>

\* The answer arrives, or has nowhere to arrive.
Arrive(q) ==
  /\ pc[q] = "answered"
  /\ pc' = [pc EXCEPT ![q] = "idle"]
  /\ refresh' = [refresh EXCEPT ![q] = FALSE]
  /\ gone' = [gone EXCEPT ![q] = FALSE]
  /\ reply' = [reply EXCEPT ![q] = Nothing]
  /\ begun' = [begun EXCEPT ![q] = 0]
  /\ floor' = [floor EXCEPT ![q] = -1]
  /\ UNCHANGED <<clock, open, proberVars, started, newest>>

-----------------------------------------------------------------------------
(* The handler *)

Answer(q, status) ==
  /\ pc' = [pc EXCEPT ![q] = "answered"]
  /\ reply' = [reply EXCEPT ![q] = status]
  /\ newest' = IF status = Nothing THEN newest ELSE status.at
  /\ UNCHANGED <<clock, open, refresh, begun, gone, floor>>

\* StorageStats comes first.
Count(q) ==
  /\ pc[q] = "count"
  /\ pc' = [pc EXCEPT ![q] = "wait"]
  /\ UNCHANGED <<clock, open, proberVars, refresh, started, begun, gone, reply, newest, floor>>

\* It fails: 500, without a probe.
CountFails(q) == pc[q] = "count" /\ Answer(q, Nothing) /\ UNCHANGED <<started, proberVars>>

Fresh == cached # Nothing /\ clock - cachedAt < TTL

\* A status from the cache.  The mutex is free again at once.
Cached(q) ==
  /\ pc[q] = "wait" /\ mu = Nobody
  /\ ~refresh[q] /\ Fresh
  /\ Answer(q, cached)
  /\ UNCHANGED <<started, proberVars>>

\* A bug: the mutex is released while the upstream is asked.
Probe_Unlocked(q) ==
  /\ pc[q] = "wait" /\ mu = Nobody
  /\ refresh[q] \/ ~Fresh
  /\ started' = [started EXCEPT ![q] = clock]
  /\ pc' = [pc EXCEPT ![q] = "probe"]
  /\ UNCHANGED <<clock, open, proberVars, refresh, begun, gone, reply, newest, floor>>

\* The mutex is taken, and held while the upstream is asked.
Probe(q) ==
  /\ pc[q] = "wait" /\ mu = Nobody
  /\ refresh[q] \/ ~Fresh
  /\ mu' = q
  /\ started' = [started EXCEPT ![q] = clock]
  /\ pc' = [pc EXCEPT ![q] = "probe"]
  /\ UNCHANGED <<clock, open, cached, cachedAt, refresh, begun, gone, reply, newest, floor>>

\* The probe ends: /version answers, or does not, or the context has ended.
\* What was found is kept either way, from now on.
Probed(q) ==
  /\ pc[q] = "probe"
  /\ cached' = [at |-> started[q], cut |-> gone[q]]
  /\ Answer(q, cached')
  /\ cachedAt' = clock /\ mu' = Nobody
  /\ started' = [started EXCEPT ![q] = 0]

\* Time passes; no probe takes longer than the client's timeout.
Tick ==
  /\ clock < MaxTick
  /\ \A q \in Requests : pc[q] = "probe" => clock < started[q] + Timeout
  /\ clock' = clock + 1
  /\ UNCHANGED <<open, proberVars, callVars>>

-----------------------------------------------------------------------------

Acquire(q) == Cached(q) \/ Probe(q)
Proceed(q) == Count(q) \/ CountFails(q) \/ Probed(q)

Next ==
  \/ \E q \in Requests : Open(q) \/ Point(q) \/ Arrive(q) \/ Acquire(q) \/ Proceed(q)
  \/ \E p \in Pages : Leave(p)
  \/ Tick

\* The handlers go on, the probes by their timeout, and a mutex is handed to
\* whoever has waited for long.  The pages and the network owe nothing.
Fairness == \A q \in Requests : WF_vars(Proceed(q)) /\ SF_vars(Acquire(q))

Spec == Init /\ [][Next]_vars

FairSpec == Spec /\ Fairness

-----------------------------------------------------------------------------
(* Properties *)

TypeOK ==
  /\ clock \in Ticks /\ newest \in Ticks \cup {-1}
  /\ open \in [Pages -> BOOLEAN]
  /\ pc \in [Requests -> Working \cup {"idle", "answered"}]
  /\ refresh \in [Requests -> BOOLEAN] /\ gone \in [Requests -> BOOLEAN]
  /\ started \in [Requests -> Ticks] /\ begun \in [Requests -> Ticks]
  /\ floor \in [Requests -> Ticks \cup {-1}]
  /\ reply \in [Requests -> Status \cup {Nothing}]
  /\ mu \in Requests \cup {Nobody}
  /\ cached \in Status \cup {Nothing} /\ cachedAt \in Ticks

\* Several requests share one prober.  A status is never of an older check than
\* one that was answered before the request came, to whomever; a page that asks
\* for a probe gets one that began after it asked; and of a probe that was cut
\* off by a page that left, only those are told who did not ask for one.
StatusIsCurrent ==
  \A q \in Requests : reply[q] # Nothing =>
    /\ reply[q].at >= floor[q]
    /\ refresh[q] => reply[q].at >= begun[q] /\ (reply[q].cut => gone[q])

\* What is answered is a status, and no older than the page may expect.
StatusIsSound == TypeOK /\ StatusIsCurrent

\* Every request is answered, however many are made to probe before it.
EveryStatusAnswered == \A q \in Requests : pc[q] \in Working ~> pc[q] \notin Working

=============================================================================
