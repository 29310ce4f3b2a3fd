------------------------- MODULE TemplateFetchCache -------------------------
(***************************************************************************)
(* templateFetchCache of internal/service/managed_conversion_source.go:    *)
(* the TTL cache with single-flight fetches that PrepareConversion reads   *)
(* templates through.                                                      *)
(*                                                                         *)
(* Callers are request goroutines.  The default template goes through      *)
(* LoadOrFetchStaleOnError, any other one through LoadOrFetch.  The leader *)
(* of a fetch uses its own request's context; the others wait for its      *)
(* result.  The server that hosts the templates may change one at any      *)
(* time, to valid or to invalid content, and any fetch may fail.           *)
(***************************************************************************)
EXTENDS Integers, FiniteSets

CONSTANTS
  Callers,      \* request goroutines
  Templates,    \* template URLs
  Default,      \* the deployment's default template URL
  TTL,          \* time to live per URL, at least 1 where there is a cache
  Nobody,       \* no leader
  NoEntry,      \* no cached content
  MaxVersion,   \* bound on the versions a template goes through
  MaxTick       \* bound on the clock

ASSUME ConstantsAssumption ==
  /\ Default \in Templates
  /\ TTL \in [Templates -> Nat \ {0}]
  /\ Nobody \notin Callers
  /\ MaxVersion \in Nat /\ MaxTick \in Nat
  /\ NoEntry \notin [content : 0 .. MaxVersion, expiresAt : Nat]

VARIABLES
  upstream,   \* version each template's host serves now
  valid,      \* does a version pass parseRegionMatchers?
  entries,    \* cache.entries
  inflight,   \* cache.inflight: the leader of the fetch under way
  clock,
  pc,         \* where each caller stands
  url,        \* the template it asked for
  stale,      \* its staleEntry
  leader,     \* whose fetch it waits for
  got,        \* the result it has or was woken with
  cancelled,  \* has its request's context ended?
  reply,      \* what its last call returned
  since,      \* clock when its call started (history)
  served,     \* newest version returned per template, -1 before any (history)
  floor       \* `served` of its template when its call started (history)

cacheVars  == <<entries, inflight>>
hostVars   == <<upstream, valid>>
callerVars == <<pc, url, stale, leader, got, cancelled, reply, since, served, floor>>
vars       == <<hostVars, cacheVars, clock, callerVars>>

-----------------------------------------------------------------------------

Versions == 0 .. MaxVersion
Entry    == [content : Versions, expiresAt : Nat]

\* Result of a fetch; `at` is when finishFetch published it (history).
Fetched == [kind : {"content"}, content : Versions, at : 0 .. MaxTick]
Failed  == [kind : {"unavailable", "invalid", "cancelled", "none"}]
Failure(k) == [kind |-> k]

\* Reply of LoadOrFetch[StaleOnError]: `stale` is the second result.
Reply == [kind : {"content"}, content : Versions, at : Int, stale : BOOLEAN] \cup Failed

Content(v, t, s) == [kind |-> "content", content |-> v, at |-> t, stale |-> s]

Init ==
  /\ upstream = [u \in Templates |-> 0]
  /\ valid \in [Templates -> [Versions -> BOOLEAN]]
  /\ entries = [u \in Templates |-> NoEntry]
  /\ inflight = [u \in Templates |-> Nobody]
  /\ clock = 0
  /\ pc = [c \in Callers |-> "idle"]
  /\ url = [c \in Callers |-> Default]
  /\ stale = [c \in Callers |-> NoEntry]
  /\ leader = [c \in Callers |-> Nobody]
  /\ got = [c \in Callers |-> Failure("none")]
  /\ cancelled = [c \in Callers |-> FALSE]
  /\ reply = [c \in Callers |-> Failure("none")]
  /\ since = [c \in Callers |-> 0]
  /\ served = [u \in Templates |-> -1]
  /\ floor = [c \in Callers |-> -1]

Fresh(u) == entries[u] # NoEntry /\ clock < entries[u].expiresAt

Serve(u, r) ==
  served' = [served EXCEPT ![u] = IF r.kind = "content" /\ r.content > @ THEN r.content ELSE @]

\* Return r to the caller of template u and forget the call.
Return(c, u, r) ==
  /\ Serve(u, r)
  /\ pc' = [pc EXCEPT ![c] = "idle"]
  /\ reply' = [reply EXCEPT ![c] = r]
  /\ stale' = [stale EXCEPT ![c] = NoEntry]
  /\ leader' = [leader EXCEPT ![c] = Nobody]
  /\ got' = [got EXCEPT ![c] = Failure("none")]
  /\ cancelled' = [cancelled EXCEPT ![c] = FALSE]

\* A bug: the fallback forgets to say so.
Answer_Unflagged(c, r) ==
  IF r.kind # "content" /\ stale[c] # NoEntry
    THEN Content(stale[c].content, stale[c].expiresAt - TTL[url[c]], FALSE)
    ELSE IF r.kind = "content" THEN Content(r.content, r.at, FALSE) ELSE r

\* What a caller with result r returns: a failed refresh falls back on the
\* expired entry it saw.
Answer(c, r) ==
  IF r.kind = "content" THEN Content(r.content, r.at, FALSE)
  ELSE IF stale[c] # NoEntry
         THEN Content(stale[c].content, stale[c].expiresAt - TTL[url[c]], TRUE)
         ELSE r

-----------------------------------------------------------------------------
(* The first critical section of LoadOrFetch and LoadOrFetchStaleOnError *)

Asks(c, u) ==
  /\ pc[c] = "idle"
  /\ url' = [url EXCEPT ![c] = u]
  /\ since' = [since EXCEPT ![c] = clock]
  /\ floor' = [floor EXCEPT ![c] = served[u]]

\* A fresh entry answers at once.
Hit(c, u) ==
  /\ Asks(c, u)
  /\ Fresh(u)
  /\ Return(c, u, Content(entries[u].content, entries[u].expiresAt - TTL[u], FALSE))
  /\ UNCHANGED <<hostVars, cacheVars, clock>>

\* A bug: the default template's expired entry is deleted and not kept.
Expire_DropsDefault(c, u) ==
  /\ entries' = [entries EXCEPT ![u] = NoEntry]
  /\ stale' = [stale EXCEPT ![c] = NoEntry]

\* An expired entry: LoadOrFetch deletes it, LoadOrFetchStaleOnError keeps
\* it in the cache and in the caller's hands.
Expire(c, u) ==
  /\ entries' = [entries EXCEPT ![u] = IF u = Default THEN @ ELSE NoEntry]
  /\ stale' = [stale EXCEPT ![c] = IF u = Default THEN entries[u] ELSE NoEntry]

\* Somebody is fetching this template: wait for that call.
Join(c, u) ==
  /\ Asks(c, u)
  /\ ~Fresh(u) /\ inflight[u] # Nobody
  /\ Expire(c, u)
  /\ leader' = [leader EXCEPT ![c] = inflight[u]]
  /\ pc' = [pc EXCEPT ![c] = "wait"]
  /\ reply' = [reply EXCEPT ![c] = Failure("none")]
  /\ UNCHANGED <<hostVars, inflight, clock, got, cancelled, served>>

\* A bug: the caller does not look for a call under way.
Lead_WithoutLooking(c, u) ==
  /\ Asks(c, u)
  /\ ~Fresh(u)
  /\ Expire(c, u)
  /\ inflight' = [inflight EXCEPT ![u] = c]
  /\ pc' = [pc EXCEPT ![c] = "fetch"]
  /\ reply' = [reply EXCEPT ![c] = Failure("none")]
  /\ UNCHANGED <<hostVars, clock, leader, got, cancelled, served>>

\* Nobody is: register the call and fetch.
Lead(c, u) ==
  /\ Asks(c, u)
  /\ ~Fresh(u) /\ inflight[u] = Nobody
  /\ Expire(c, u)
  /\ inflight' = [inflight EXCEPT ![u] = c]
  /\ pc' = [pc EXCEPT ![c] = "fetch"]
  /\ reply' = [reply EXCEPT ![c] = Failure("none")]
  /\ UNCHANGED <<hostVars, clock, leader, got, cancelled, served>>

-----------------------------------------------------------------------------
(* fetch and finishFetch *)

\* The host answers 2xx and the content is validated before it is returned.
FetchAnswered(c) ==
  /\ pc[c] = "fetch" /\ ~cancelled[c]
  /\ LET v == upstream[url[c]]
     IN  got' = [got EXCEPT ![c] =
                   IF valid[url[c]][v]
                     THEN [kind |-> "content", content |-> v, at |-> clock]
                     ELSE Failure("invalid")]
  /\ pc' = [pc EXCEPT ![c] = "fetched"]
  /\ UNCHANGED <<hostVars, cacheVars, clock, url, stale, leader, cancelled, reply, since, served, floor>>

\* A bug: the status is not looked at, and an error page passes for content.
FetchFailed_ErrorPage(c) ==
  /\ pc[c] = "fetch"
  /\ got' = [got EXCEPT ![c] = [kind |-> "content", content |-> -1, at |-> clock]]
  /\ pc' = [pc EXCEPT ![c] = "fetched"]
  /\ UNCHANGED <<hostVars, cacheVars, clock, url, stale, leader, cancelled, reply, since, served, floor>>

\* No usable answer: refused, timed out, an error status, or the leader's
\* own request has ended.
FetchFailed(c) ==
  /\ pc[c] = "fetch"
  /\ got' = [got EXCEPT ![c] = Failure(IF cancelled[c] THEN "cancelled" ELSE "unavailable")]
  /\ pc' = [pc EXCEPT ![c] = "fetched"]
  /\ UNCHANGED <<hostVars, cacheVars, clock, url, stale, leader, cancelled, reply, since, served, floor>>

\* finishFetch: drop the call, store a success, wake the waiters with the
\* result; then the leader returns.
FinishFetch(c) ==
  LET u       == url[c]
      waiters == {w \in Callers : pc[w] = "wait" /\ leader[w] = c}
      result  == IF got[c].kind = "content" THEN [got[c] EXCEPT !.at = clock] ELSE got[c]
  IN  /\ pc[c] = "fetched"
      /\ inflight' = [inflight EXCEPT ![u] = Nobody]
      /\ entries' = [entries EXCEPT ![u] =
                       IF result.kind = "content"
                         THEN [content |-> result.content, expiresAt |-> clock + TTL[u]]
                         ELSE @]
      /\ pc' = [w \in Callers |-> IF w = c THEN "idle"
                                  ELSE IF w \in waiters THEN "woken" ELSE pc[w]]
      /\ got' = [w \in Callers |-> IF w = c THEN Failure("none")
                                   ELSE IF w \in waiters THEN result ELSE got[w]]
      /\ leader' = [w \in Callers |-> IF w \in waiters THEN Nobody ELSE leader[w]]
      /\ reply' = [reply EXCEPT ![c] = Answer(c, result)]
      /\ Serve(u, Answer(c, result))
      /\ stale' = [stale EXCEPT ![c] = NoEntry]
      /\ cancelled' = [cancelled EXCEPT ![c] = FALSE]
      /\ UNCHANGED <<hostVars, clock, url, since, floor>>

-----------------------------------------------------------------------------
(* Waiting *)

\* <-call.done
FollowerReturns(c) ==
  /\ pc[c] = "woken"
  /\ Return(c, url[c], Answer(c, got[c]))
  /\ UNCHANGED <<hostVars, cacheVars, clock, url, since, floor>>

\* <-ctx.Done(); when both channels are ready select takes either.
FollowerGivesUp(c) ==
  /\ pc[c] \in {"wait", "woken"} /\ cancelled[c]
  /\ Return(c, url[c], Failure("cancelled"))
  /\ UNCHANGED <<hostVars, cacheVars, clock, url, since, floor>>

-----------------------------------------------------------------------------
(* Environment *)

\* The client of a request goes away.
Cancel(c) ==
  /\ pc[c] # "idle" /\ ~cancelled[c]
  /\ cancelled' = [cancelled EXCEPT ![c] = TRUE]
  /\ UNCHANGED <<hostVars, cacheVars, clock, pc, url, stale, leader, got, reply, since, served, floor>>

\* The template's author publishes the next version.
Publish(u) ==
  /\ upstream[u] < MaxVersion
  /\ upstream' = [upstream EXCEPT ![u] = @ + 1]
  /\ UNCHANGED <<valid, cacheVars, clock, callerVars>>

Tick ==
  /\ clock < MaxTick
  /\ clock' = clock + 1
  /\ UNCHANGED <<hostVars, cacheVars, callerVars>>

Step(c) ==
  \/ FetchAnswered(c)
  \/ FetchFailed(c)
  \/ FinishFetch(c)
  \/ FollowerReturns(c)
  \/ FollowerGivesUp(c)

Next ==
  \/ \E c \in Callers, u \in Templates : Hit(c, u) \/ Join(c, u) \/ Lead(c, u)
  \/ \E c \in Callers : Step(c) \/ Cancel(c)
  \/ \E u \in Templates : Publish(u)
  \/ Tick

Spec == Init /\ [][Next]_vars

\* Goroutines run and the HTTP client's Timeout ends every fetch.
Fairness == \A c \in Callers : WF_vars(Step(c))

FairSpec == Spec /\ Fairness

-----------------------------------------------------------------------------
(* Properties *)

\* Every variable stays within the types of the program.
TypeOK ==
  /\ upstream \in [Templates -> Versions]
  /\ valid \in [Templates -> [Versions -> BOOLEAN]]
  /\ entries \in [Templates -> Entry \cup {NoEntry}]
  /\ inflight \in [Templates -> Callers \cup {Nobody}]
  /\ clock \in 0 .. MaxTick
  /\ pc \in [Callers -> {"idle", "fetch", "fetched", "wait", "woken"}]
  /\ url \in [Callers -> Templates]
  /\ stale \in [Callers -> Entry \cup {NoEntry}]
  /\ leader \in [Callers -> Callers \cup {Nobody}]
  /\ got \in [Callers -> Fetched \cup Failed]
  /\ cancelled \in [Callers -> BOOLEAN]
  /\ reply \in [Callers -> Reply]
  /\ since \in [Callers -> 0 .. MaxTick]
  /\ served \in [Templates -> Versions \cup {-1}]
  /\ floor \in [Callers -> Versions \cup {-1}]

\* One fetch per template at a time, by the caller the cache has on record,
\* and nobody waits for a fetch that has ended (cache.inflight, call.done).
Fetching(c) == pc[c] \in {"fetch", "fetched"}

SingleFlight ==
  /\ \A c \in Callers : Fetching(c) => inflight[url[c]] = c
  /\ \A u \in Templates : inflight[u] # Nobody => Fetching(inflight[u]) /\ url[inflight[u]] = u
  /\ \A w \in Callers : pc[w] = "wait" =>
       leader[w] \in Callers /\ Fetching(leader[w]) /\ url[leader[w]] = url[w]

\* Only content that passed validation is cached or returned
\* (04-business-rules.md:73).
OnlyValidated ==
  /\ \A u \in Templates : entries[u] # NoEntry => valid[u][entries[u].content]
  /\ \A c \in Callers : reply[c].kind = "content" => valid[url[c]][reply[c].content]

\* Content without the warning was fetched within the time to live before
\* the call, or during it; content with the warning is older, and is the
\* default template's (04-business-rules.md:74).
WarnedIffOutdated ==
  \A c \in Callers : reply[c].kind = "content" =>
    /\ reply[c].stale <=> reply[c].at + TTL[url[c]] <= since[c]
    /\ reply[c].stale => url[c] = Default

\* What is served is valid, and comes with the warning when it is outdated.
ServedAsPromised == OnlyValidated /\ WarnedIffOutdated

\* A call never returns an older version than a call that ended before it
\* began: a slow fetch cannot overwrite what a later one stored.
MonotoneReads ==
  \A c \in Callers : reply[c].kind = "content" => reply[c].content >= floor[c]

\* Once the default template was served, no outage and no broken update of
\* it fails a request that is still there (04-business-rules.md:74).
DefaultSurvivesOutage ==
  [][\A c \in Callers :
       pc[c] # "idle" /\ pc'[c] = "idle" /\ url[c] = Default /\ floor[c] # -1
         => reply'[c].kind = "content" \/ cancelled[c]]_vars

\* Every caller is answered: a fetch that fails, or whose request goes away,
\* still wakes those who wait for it.
EveryCallerAnswered == \A c \in Callers : pc[c] # "idle" ~> pc[c] = "idle"

=============================================================================
