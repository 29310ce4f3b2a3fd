---------------------- MODULE TemplateFetchCacheProofs ----------------------
(***************************************************************************)
(* Proofs about TemplateFetchCache, for any callers, templates, times to   *)
(* live and bounds.                                                        *)
(*                                                                         *)
(* SingleFlight is inductive with the types.  What is answered rests on    *)
(* what a caller carries: the expired entry it saw (CarriedFits) and the   *)
(* result it has (ResultFits), both compared with what was served.         *)
(***************************************************************************)
EXTENDS TemplateFetchCache, TLAPS

LEMMA Kinds ==
  /\ \A r \in Fetched : r.kind = "content" /\ r.content \in Versions /\ r.at \in 0 .. MaxTick
  /\ \A r \in Failed : r.kind # "content"
  /\ \A k \in {"unavailable", "invalid", "cancelled", "none"} :
       Failure(k) \in Failed /\ Failure(k).kind = k
BY DEF Fetched, Failed, Failure

LEMMA Contents ==
  ASSUME NEW v \in Versions, NEW t \in Int, NEW s \in BOOLEAN
  PROVE  /\ Content(v, t, s) \in Reply
         /\ Content(v, t, s).kind = "content" /\ Content(v, t, s).content = v
         /\ Content(v, t, s).at = t /\ Content(v, t, s).stale = s
BY DEF Content, Reply

LEMMA ReplyKinds ==
  ASSUME NEW r \in Reply
  PROVE  r.kind = "content" => r.content \in Versions /\ r.at \in Int /\ r.stale \in BOOLEAN
BY Kinds DEF Reply

\* What a caller answers has the type of an answer.
LEMMA AnswerTyped ==
  ASSUME TypeOK, NEW c \in Callers, NEW r \in Fetched \cup Failed
  PROVE  Answer(c, r) \in Reply
<1>1. CASE r.kind = "content"
  <2>1. r.content \in Versions /\ r.at \in Int
    BY <1>1, Kinds
  <2>. QED
    BY <1>1, <2>1, Contents DEF Answer
<1>2. CASE r.kind # "content" /\ stale[c] # NoEntry
  <2>1. stale[c] \in Entry /\ TTL[url[c]] \in Nat
    BY <1>2, ConstantsAssumption DEF TypeOK
  <2>2. stale[c].content \in Versions /\ stale[c].expiresAt - TTL[url[c]] \in Int
    BY <2>1 DEF Entry
  <2>. QED
    BY <1>2, <2>2, Contents DEF Answer
<1>3. CASE r.kind # "content" /\ stale[c] = NoEntry
  BY <1>3, Kinds DEF Answer, Reply
<1>. QED
  BY <1>1, <1>2, <1>3

LEMMA ServeTyped ==
  ASSUME TypeOK, NEW u \in Templates, NEW r \in Reply, Serve(u, r)
  PROVE  served' \in [Templates -> Versions \cup {-1}]
BY ReplyKinds DEF Serve, TypeOK

LEMMA ReturnTyped ==
  ASSUME TypeOK, NEW c \in Callers, NEW u \in Templates, NEW r \in Reply, Return(c, u, r)
  PROVE  /\ pc' \in [Callers -> {"idle", "fetch", "fetched", "wait", "woken"}]
         /\ reply' \in [Callers -> Reply]
         /\ stale' \in [Callers -> Entry \cup {NoEntry}]
         /\ leader' \in [Callers -> Callers \cup {Nobody}]
         /\ got' \in [Callers -> Fetched \cup Failed]
         /\ cancelled' \in [Callers -> BOOLEAN]
         /\ served' \in [Templates -> Versions \cup {-1}]
<1>1. Failure("none") \in Failed
  BY Kinds
<1>2. served' \in [Templates -> Versions \cup {-1}]
  BY ServeTyped DEF Return
<1>. QED
  BY <1>1, <1>2 DEF Return, TypeOK

LEMMA AsksTyped ==
  ASSUME TypeOK, NEW c \in Callers, NEW u \in Templates, Asks(c, u)
  PROVE  /\ url' \in [Callers -> Templates]
         /\ since' \in [Callers -> 0 .. MaxTick]
         /\ floor' \in [Callers -> Versions \cup {-1}]
BY DEF Asks, TypeOK

LEMMA ExpireTyped ==
  ASSUME TypeOK, NEW c \in Callers, NEW u \in Templates, Expire(c, u)
  PROVE  /\ entries' \in [Templates -> Entry \cup {NoEntry}]
         /\ stale' \in [Callers -> Entry \cup {NoEntry}]
BY DEF Expire, TypeOK

\* What finishFetch publishes for the leader c.
Published(c) == IF got[c].kind = "content" THEN [got[c] EXCEPT !.at = clock] ELSE got[c]

LEMMA PublishedTyped ==
  ASSUME TypeOK, NEW c \in Callers
  PROVE  /\ Published(c) \in Fetched \cup Failed
         /\ Published(c).kind = got[c].kind
         /\ got[c].kind = "content" =>
              /\ Published(c).content = got[c].content /\ Published(c).content \in Versions
              /\ Published(c).at = clock
<1>1. got[c] \in Fetched \cup Failed /\ clock \in 0 .. MaxTick
  BY DEF TypeOK
<1>. QED
  BY <1>1, Kinds DEF Published, Fetched, Failed

LEMMA NextTyped == TypeOK /\ [Next]_vars => TypeOK'
<1>. SUFFICES ASSUME TypeOK, [Next]_vars PROVE TypeOK'
  OBVIOUS
<1>. USE ConstantsAssumption
<1>1. Failure("none") \in Reply /\ Failure("none") \in Fetched \cup Failed
  BY Kinds DEF Reply
<1>2. ASSUME NEW c \in Callers, NEW u \in Templates, Hit(c, u) PROVE TypeOK'
  <2>1. Content(entries[u].content, entries[u].expiresAt - TTL[u], FALSE) \in Reply
    <3>1. entries[u] \in Entry /\ TTL[u] \in Nat
      BY <1>2 DEF Hit, Fresh, TypeOK
    <3>2. entries[u].content \in Versions /\ entries[u].expiresAt - TTL[u] \in Int
      BY <3>1 DEF Entry
    <3>. QED
      BY <3>2, Contents
  <2>. QED
    BY <1>2, <2>1, ReturnTyped, AsksTyped DEF Hit, TypeOK, hostVars, cacheVars
<1>3. ASSUME NEW c \in Callers, NEW u \in Templates, Join(c, u) PROVE TypeOK'
  <2>1. reply' \in [Callers -> Reply]
    BY <1>1, <1>3 DEF Join, TypeOK
  <2>. QED
    BY <1>3, <2>1, AsksTyped, ExpireTyped DEF Join, TypeOK, hostVars
<1>4. ASSUME NEW c \in Callers, NEW u \in Templates, Lead(c, u) PROVE TypeOK'
  <2>1. reply' \in [Callers -> Reply]
    BY <1>1, <1>4 DEF Lead, TypeOK
  <2>. QED
    BY <1>4, <2>1, AsksTyped, ExpireTyped DEF Lead, TypeOK, hostVars
<1>5. ASSUME NEW c \in Callers, FetchAnswered(c) PROVE TypeOK'
  <2>1. got' \in [Callers -> Fetched \cup Failed]
    <3>1. [kind |-> "content", content |-> upstream[url[c]], at |-> clock] \in Fetched
      BY DEF TypeOK, Fetched
    <3>2. Failure("invalid") \in Failed
      BY Kinds
    <3>. QED
      BY <1>5, <3>1, <3>2 DEF FetchAnswered, TypeOK
  <2>. QED
    BY <1>5, <2>1 DEF FetchAnswered, TypeOK, hostVars, cacheVars
<1>6. ASSUME NEW c \in Callers, FetchFailed(c) PROVE TypeOK'
  <2>1. got' \in [Callers -> Fetched \cup Failed]
    BY <1>6, Kinds DEF FetchFailed, TypeOK
  <2>. QED
    BY <1>6, <2>1 DEF FetchFailed, TypeOK, hostVars, cacheVars
<1>7. ASSUME NEW c \in Callers, FinishFetch(c) PROVE TypeOK'
  <2>. DEFINE u == url[c]
              waiters == {w \in Callers : pc[w] = "wait" /\ leader[w] = c}
  <2>1. /\ inflight' = [inflight EXCEPT ![u] = Nobody]
        /\ entries' = [entries EXCEPT ![u] =
                         IF Published(c).kind = "content"
                           THEN [content |-> Published(c).content, expiresAt |-> clock + TTL[u]]
                           ELSE @]
        /\ pc' = [w \in Callers |-> IF w = c THEN "idle"
                                    ELSE IF w \in waiters THEN "woken" ELSE pc[w]]
        /\ got' = [w \in Callers |-> IF w = c THEN Failure("none")
                                     ELSE IF w \in waiters THEN Published(c) ELSE got[w]]
        /\ leader' = [w \in Callers |-> IF w \in waiters THEN Nobody ELSE leader[w]]
        /\ reply' = [reply EXCEPT ![c] = Answer(c, Published(c))]
        /\ Serve(u, Answer(c, Published(c)))
        /\ stale' = [stale EXCEPT ![c] = NoEntry]
        /\ cancelled' = [cancelled EXCEPT ![c] = FALSE]
        /\ UNCHANGED <<hostVars, clock, url, since, floor>>
    BY <1>7 DEF FinishFetch, Published
  <2>. HIDE DEF waiters
  <2>2. u \in Templates /\ Published(c) \in Fetched \cup Failed /\ Answer(c, Published(c)) \in Reply
    BY PublishedTyped, AnswerTyped DEF TypeOK
  <2>3. entries' \in [Templates -> Entry \cup {NoEntry}]
    <3>1. clock + TTL[u] \in Nat
      BY <2>2 DEF TypeOK
    <3>2. Published(c).kind = "content" => Published(c).content \in Versions
      BY PublishedTyped
    <3>. QED
      BY <2>1, <2>2, <3>1, <3>2 DEF TypeOK, Entry
  <2>4. got' \in [Callers -> Fetched \cup Failed] /\ reply' \in [Callers -> Reply]
    BY <1>1, <2>1, <2>2 DEF TypeOK
  <2>5. served' \in [Templates -> Versions \cup {-1}]
    BY <2>1, <2>2, ServeTyped
  <2>. QED
    BY <2>1, <2>2, <2>3, <2>4, <2>5 DEF TypeOK, hostVars
<1>8. ASSUME NEW c \in Callers, FollowerReturns(c) PROVE TypeOK'
  <2>1. Answer(c, got[c]) \in Reply /\ url[c] \in Templates
    BY AnswerTyped DEF TypeOK
  <2>. QED
    BY <1>8, <2>1, ReturnTyped DEF FollowerReturns, TypeOK, hostVars, cacheVars
<1>9. ASSUME NEW c \in Callers, FollowerGivesUp(c) PROVE TypeOK'
  <2>1. Failure("cancelled") \in Reply /\ url[c] \in Templates
    BY Kinds DEF Reply, TypeOK
  <2>. QED
    BY <1>9, <2>1, ReturnTyped DEF FollowerGivesUp, TypeOK, hostVars, cacheVars
<1>10. ASSUME NEW c \in Callers, Cancel(c) PROVE TypeOK'
  BY <1>10 DEF Cancel, TypeOK, hostVars, cacheVars
<1>11. ASSUME NEW u \in Templates, Publish(u) PROVE TypeOK'
  BY <1>11 DEF Publish, TypeOK, Versions, cacheVars, callerVars
<1>12. CASE Tick
  BY <1>12 DEF Tick, TypeOK, hostVars, cacheVars, callerVars
<1>13. CASE UNCHANGED vars
  BY <1>13 DEF vars, TypeOK, hostVars, cacheVars, callerVars
<1>. QED
  BY <1>2, <1>3, <1>4, <1>5, <1>6, <1>7, <1>8, <1>9, <1>10, <1>11, <1>12, <1>13
     DEF Next, Step

LEMMA InitTyped == Init => TypeOK
<1>1. Failure("none") \in Reply /\ Failure("none") \in Fetched \cup Failed
  BY Kinds DEF Reply
<1>. QED
  BY <1>1, ConstantsAssumption DEF Init, TypeOK, Versions

\* Every variable keeps its type.
THEOREM Typing == Spec => []TypeOK
BY InitTyped, NextTyped, PTL DEF Spec

-----------------------------------------------------------------------------
(* One fetch at a time *)

LEMMA NextSingle == TypeOK /\ SingleFlight /\ [Next]_vars => SingleFlight'
<1>. SUFFICES ASSUME TypeOK, SingleFlight, [Next]_vars PROVE SingleFlight'
  OBVIOUS
<1>. USE ConstantsAssumption DEF SingleFlight, Fetching
<1>1. ASSUME NEW c \in Callers, NEW u \in Templates, Hit(c, u) PROVE SingleFlight'
  BY <1>1 DEF Hit, Asks, Return, TypeOK, cacheVars
<1>2. ASSUME NEW c \in Callers, NEW u \in Templates, Join(c, u) PROVE SingleFlight'
  BY <1>2 DEF Join, Asks, TypeOK
<1>3. ASSUME NEW c \in Callers, NEW u \in Templates, Lead(c, u) PROVE SingleFlight'
  BY <1>3 DEF Lead, Asks, TypeOK
<1>4. ASSUME NEW c \in Callers, FetchAnswered(c) PROVE SingleFlight'
  BY <1>4 DEF FetchAnswered, TypeOK, cacheVars
<1>5. ASSUME NEW c \in Callers, FetchFailed(c) PROVE SingleFlight'
  BY <1>5 DEF FetchFailed, TypeOK, cacheVars
<1>6. ASSUME NEW c \in Callers, FinishFetch(c) PROVE SingleFlight'
  <2>. DEFINE waiters == {w \in Callers : pc[w] = "wait" /\ leader[w] = c}
  <2>1. /\ pc[c] = "fetched" /\ url' = url
        /\ inflight' = [inflight EXCEPT ![url[c]] = Nobody]
        /\ pc' = [w \in Callers |-> IF w = c THEN "idle"
                                    ELSE IF w \in waiters THEN "woken" ELSE pc[w]]
        /\ leader' = [w \in Callers |-> IF w \in waiters THEN Nobody ELSE leader[w]]
    BY <1>6 DEF FinishFetch
  <2>2. \A d \in Callers : Fetching(d)' => d # c /\ Fetching(d) /\ url[d] # url[c]
    BY <2>1
  <2>3. \A w \in Callers : pc'[w] = "wait" => pc[w] = "wait" /\ leader[w] # c /\ leader'[w] = leader[w]
    BY <2>1
  <2>4. \A d \in Callers \ {c} : Fetching(d) => Fetching(d)'
    BY <2>1
  <2>5. inflight \in [Templates -> Callers \cup {Nobody}] /\ url \in [Callers -> Templates]
    BY DEF TypeOK
  <2>. QED
    BY <2>1, <2>2, <2>3, <2>4, <2>5
<1>7. ASSUME NEW c \in Callers, FollowerReturns(c) PROVE SingleFlight'
  BY <1>7 DEF FollowerReturns, Return, TypeOK, cacheVars
<1>8. ASSUME NEW c \in Callers, FollowerGivesUp(c) PROVE SingleFlight'
  BY <1>8 DEF FollowerGivesUp, Return, TypeOK, cacheVars
<1>9. ASSUME NEW c \in Callers, Cancel(c) PROVE SingleFlight'
  BY <1>9 DEF Cancel, cacheVars
<1>10. ASSUME NEW u \in Templates, Publish(u) PROVE SingleFlight'
  BY <1>10 DEF Publish, cacheVars, callerVars
<1>11. CASE Tick \/ UNCHANGED vars
  BY <1>11 DEF Tick, vars, cacheVars, callerVars
<1>. QED
  BY <1>1, <1>2, <1>3, <1>4, <1>5, <1>6, <1>7, <1>8, <1>9, <1>10, <1>11 DEF Next, Step

\* The cache never has two fetches of one template under way, and nobody
\* waits for a fetch that is over (LoadOrFetch, LoadOrFetchStaleOnError).
THEOREM OneFetch == Spec => []SingleFlight
<1>1. Init => SingleFlight
  BY DEF Init, SingleFlight, Fetching
<1>2. Spec => []TypeOK
  BY Typing
<1>. QED
  BY <1>1, <1>2, NextSingle, PTL DEF Spec

-----------------------------------------------------------------------------
(* What is cached, carried and answered *)

\* An entry is valid and holds the newest version served; the default
\* template has one from the first time it was served.
ServedFits ==
  /\ \A u \in Templates : entries[u] # NoEntry =>
       valid[u][entries[u].content] /\ entries[u].content = served[u]
  /\ served[Default] # -1 => entries[Default] # NoEntry
  /\ \A u \in Templates : served[u] <= upstream[u]

\* A call knows the past of its start; the expired entry it carries, if any,
\* is the default template's, and it carries one if there was one.
CarriedFits(c) ==
  pc[c] # "idle" =>
    /\ floor[c] <= served[url[c]] /\ since[c] <= clock
    /\ stale[c] # NoEntry =>
         /\ url[c] = Default /\ valid[url[c]][stale[c].content]
         /\ floor[c] <= stale[c].content /\ stale[c].content <= served[url[c]]
         /\ stale[c].expiresAt <= since[c]
    /\ url[c] = Default /\ floor[c] # -1 => stale[c] # NoEntry

\* A leader's content is not older than anything served, nor a waiter's than
\* what was served when its call started.
ResultFits(c) ==
  got[c].kind = "content" =>
    /\ pc[c] \in {"fetched", "woken"}
    /\ valid[url[c]][got[c].content]
    /\ pc[c] = "fetched" =>
         served[url[c]] <= got[c].content /\ got[c].content <= upstream[url[c]]
    /\ pc[c] = "woken" =>
         /\ floor[c] <= got[c].content /\ got[c].content <= served[url[c]]
         /\ since[c] <= got[c].at

\* The three properties of an answer, of which the cache's runs check one each.
GoodReply(r, u, s, f) ==
  r.kind = "content" =>
    /\ valid[u][r.content]
    /\ f <= r.content
    /\ r.stale <=> r.at + TTL[u] <= s
    /\ r.stale => u = Default

ReplyFits(c) == GoodReply(reply[c], url[c], since[c], floor[c])

Fits(c) == CarriedFits(c) /\ ResultFits(c) /\ ReplyFits(c)

IInv == TypeOK /\ SingleFlight /\ ServedFits /\ \A c \in Callers : Fits(c)

\* A caller that takes no step is not disturbed by what the others do.
LEMMA Unaffected ==
  ASSUME TypeOK, TypeOK', NEW d \in Callers, Fits(d),
         pc'[d] = pc[d], url'[d] = url[d], floor'[d] = floor[d], since'[d] = since[d],
         stale'[d] = stale[d], got'[d] = got[d], reply'[d] = reply[d],
         valid' = valid, clock <= clock',
         \A v \in Templates : upstream[v] <= upstream'[v],
         served[url[d]] <= served'[url[d]],
         pc[d] = "fetched" => served'[url[d]] = served[url[d]]
  PROVE  Fits(d)'
<1>. DEFINE u == url[d]
<1>1. /\ u \in Templates /\ upstream[u] \in Int /\ upstream'[u] \in Int
      /\ served[u] \in Int /\ served'[u] \in Int /\ floor[d] \in Int
      /\ clock \in Int /\ clock' \in Int /\ since[d] \in Int
      /\ upstream[u] <= upstream'[u]
  BY DEF TypeOK, Versions
<1>2. stale[d] # NoEntry => stale[d].content \in Int
  BY DEF TypeOK, Entry, Versions
<1>3. got[d].kind = "content" => got[d].content \in Int
  BY Kinds DEF TypeOK, Versions
<1>4. CarriedFits(d)'
  BY <1>1, <1>2 DEF Fits, CarriedFits
<1>5. ResultFits(d)'
  BY <1>1, <1>3 DEF Fits, ResultFits
<1>6. ReplyFits(d)'
  BY DEF Fits, ReplyFits, GoodReply
<1>. QED
  BY <1>4, <1>5, <1>6 DEF Fits

\* What a caller answers, given a result that fits it.
LEMMA GoodAnswer ==
  ASSUME TypeOK, NEW c \in Callers, CarriedFits(c), pc[c] # "idle",
         NEW r \in Fetched \cup Failed,
         r.kind = "content" =>
           valid[url[c]][r.content] /\ floor[c] <= r.content /\ since[c] <= r.at
  PROVE  /\ GoodReply(Answer(c, r), url[c], since[c], floor[c])
         /\ Answer(c, r).kind = "content" =>
              \/ r.kind = "content" /\ Answer(c, r).content = r.content
              \/ Answer(c, r).content <= served[url[c]]
         /\ r.kind = "content" => Answer(c, r).kind = "content"
         /\ url[c] = Default /\ floor[c] # -1 => Answer(c, r).kind = "content"
<1>1. /\ TTL[url[c]] \in Nat /\ TTL[url[c]] > 0 /\ since[c] \in Int
      /\ url[c] \in Templates
  BY ConstantsAssumption DEF TypeOK
<1>2. CASE r.kind = "content"
  <2>1. r.content \in Versions /\ r.at \in Int
    BY <1>2, Kinds
  <2>2. Answer(c, r) = Content(r.content, r.at, FALSE)
    BY <1>2 DEF Answer
  <2>3. /\ Answer(c, r).kind = "content" /\ Answer(c, r).content = r.content
        /\ Answer(c, r).at = r.at /\ Answer(c, r).stale = FALSE
    BY <2>2 DEF Content
  <2>4. ~(r.at + TTL[url[c]] <= since[c])
    BY <1>1, <1>2, <2>1
  <2>. QED
    BY <1>2, <2>3, <2>4 DEF GoodReply
<1>3. CASE r.kind # "content" /\ stale[c] # NoEntry
  <2>1. stale[c].content \in Versions /\ stale[c].expiresAt \in Int
    BY <1>3 DEF TypeOK, Entry
  <2>2. /\ stale[c].expiresAt - TTL[url[c]] \in Int
        /\ stale[c].expiresAt - TTL[url[c]] + TTL[url[c]] = stale[c].expiresAt
    BY <1>1, <2>1
  <2>3. Answer(c, r) = Content(stale[c].content, stale[c].expiresAt - TTL[url[c]], TRUE)
    BY <1>3 DEF Answer
  <2>4. /\ Answer(c, r).kind = "content" /\ Answer(c, r).content = stale[c].content
        /\ Answer(c, r).at = stale[c].expiresAt - TTL[url[c]] /\ Answer(c, r).stale = TRUE
    BY <2>3 DEF Content
  <2>5. /\ url[c] = Default /\ valid[url[c]][stale[c].content]
        /\ floor[c] <= stale[c].content /\ stale[c].content <= served[url[c]]
        /\ stale[c].expiresAt <= since[c]
    BY <1>3 DEF CarriedFits
  <2>. QED
    BY <1>3, <2>2, <2>4, <2>5 DEF GoodReply
<1>4. CASE r.kind # "content" /\ stale[c] = NoEntry
  <2>1. Answer(c, r) = r /\ ~(url[c] = Default /\ floor[c] # -1)
    BY <1>4 DEF Answer, CarriedFits
  <2>. QED
    BY <1>4, <2>1 DEF GoodReply
<1>. QED
  BY <1>2, <1>3, <1>4

LEMMA AnswerOfContent ==
  ASSUME NEW c \in Callers, NEW r, r.kind = "content"
  PROVE  Answer(c, r).content = r.content
BY DEF Answer, Content

\* Serving what was served before changes nothing.
LEMMA ServedAgain ==
  ASSUME TypeOK, NEW u \in Templates, NEW r \in Reply, Serve(u, r),
         r.kind = "content" => r.content <= served[u]
  PROVE  served' = served
<1>1. r.kind = "content" => r.content \in Int
  BY ReplyKinds DEF Versions
<1>2. served[u] \in Int
  BY DEF TypeOK, Versions
<1>. QED
  BY <1>1, <1>2 DEF Serve, TypeOK

\* A call that ends with a good answer, and serves nothing new.
LEMMA ReturnFits ==
  ASSUME IInv, TypeOK', NEW c \in Callers, NEW u \in Templates, NEW r \in Reply,
         Return(c, u, r), url'[c] = u, GoodReply(r, u, since'[c], floor'[c]),
         r.kind = "content" => r.content <= served[u],
         \A d \in Callers \ {c} :
           url'[d] = url[d] /\ since'[d] = since[d] /\ floor'[d] = floor[d],
         UNCHANGED <<hostVars, cacheVars, clock>>
  PROVE  ServedFits' /\ \A d \in Callers : Fits(d)'
<1>. USE DEF IInv
<1>1. served' = served
  BY ServedAgain DEF Return
<1>2. /\ pc'[c] = "idle" /\ reply'[c] = r /\ got'[c] = Failure("none")
      /\ \A d \in Callers \ {c} :
           pc'[d] = pc[d] /\ reply'[d] = reply[d] /\ stale'[d] = stale[d] /\ got'[d] = got[d]
  BY DEF Return, TypeOK
<1>3. UNCHANGED <<upstream, valid, entries, clock>>
  BY DEF hostVars, cacheVars
<1>4. ServedFits'
  BY <1>1, <1>3 DEF ServedFits
<1>5. Fits(c)'
  <2>1. got'[c].kind # "content"
    BY <1>2, Kinds
  <2>2. ReplyFits(c)'
    BY <1>2, <1>3 DEF ReplyFits, GoodReply
  <2>. QED
    BY <1>2, <2>1, <2>2 DEF Fits, CarriedFits, ResultFits
<1>6. ASSUME NEW d \in Callers \ {c} PROVE Fits(d)'
  <2>1. \A v \in Templates : upstream[v] \in Int /\ served[v] \in Int
    BY DEF TypeOK, Versions
  <2>2. url[d] \in Templates /\ clock \in Int
    BY DEF TypeOK
  <2>. QED
    BY <1>1, <1>2, <1>3, <2>1, <2>2, Unaffected
<1>. QED
  BY <1>4, <1>5, <1>6

\* A call that starts and finds no fresh entry.
LEMMA StartFits ==
  ASSUME IInv, TypeOK', NEW c \in Callers, NEW u \in Templates,
         Asks(c, u), ~Fresh(u), Expire(c, u),
         NEW p \in {"fetch", "wait"}, pc' = [pc EXCEPT ![c] = p],
         reply' = [reply EXCEPT ![c] = Failure("none")],
         UNCHANGED <<hostVars, clock, got, served>>
  PROVE  ServedFits' /\ \A d \in Callers : Fits(d)'
<1>. USE DEF IInv
<1>1. /\ pc[c] = "idle" /\ pc'[c] = p /\ url'[c] = u
      /\ since'[c] = clock /\ floor'[c] = served[u] /\ reply'[c] = Failure("none")
      /\ stale'[c] = IF u = Default THEN entries[u] ELSE NoEntry
  BY DEF Asks, Expire, TypeOK
<1>2. \A d \in Callers \ {c} :
        /\ pc'[d] = pc[d] /\ url'[d] = url[d] /\ since'[d] = since[d]
        /\ floor'[d] = floor[d] /\ stale'[d] = stale[d] /\ reply'[d] = reply[d]
  BY DEF Asks, Expire, TypeOK
<1>3. UNCHANGED <<upstream, valid, clock, got, served>>
  BY DEF hostVars
<1>4. ServedFits'
  <2>1. \A v \in Templates : entries'[v] # NoEntry => entries'[v] = entries[v]
    BY DEF Expire, TypeOK
  <2>2. entries'[Default] = entries[Default]
    BY ConstantsAssumption DEF Expire, TypeOK
  <2>. QED
    BY <1>3, <2>1, <2>2 DEF ServedFits
<1>5. Fits(c)'
  <2>1. served[u] \in Int /\ clock \in Int
    BY DEF TypeOK, Versions
  <2>2. entries[u] # NoEntry =>
          /\ valid[u][entries[u].content] /\ entries[u].content = served[u]
          /\ entries[u].expiresAt <= clock
    <3>1. entries[u] # NoEntry => entries[u].expiresAt \in Int
      BY DEF TypeOK, Entry
    <3>. QED
      BY <2>1, <3>1 DEF ServedFits, Fresh
  <2>3. u = Default /\ served[u] # -1 => entries[u] # NoEntry
    BY DEF ServedFits
  <2>4. CarriedFits(c)'
    BY <1>1, <1>3, <2>1, <2>2, <2>3 DEF CarriedFits
  <2>5. ResultFits(c)'
    BY <1>1, <1>3 DEF Fits, ResultFits
  <2>6. ReplyFits(c)'
    BY <1>1, Kinds DEF ReplyFits, GoodReply
  <2>. QED
    BY <2>4, <2>5, <2>6 DEF Fits
<1>6. ASSUME NEW d \in Callers \ {c} PROVE Fits(d)'
  <2>1. \A v \in Templates : upstream[v] \in Int /\ served[v] \in Int
    BY DEF TypeOK, Versions
  <2>2. url[d] \in Templates /\ clock \in Int
    BY DEF TypeOK
  <2>. QED
    BY <1>2, <1>3, <2>1, <2>2, Unaffected
<1>. QED
  BY <1>4, <1>5, <1>6

\* The fetch of a leader ends, with a result that fits.
LEMMA FetchFits ==
  ASSUME IInv, TypeOK', NEW c \in Callers, pc[c] = "fetch", NEW r,
         got' = [got EXCEPT ![c] = r], pc' = [pc EXCEPT ![c] = "fetched"],
         r.kind = "content" => valid[url[c]][r.content] /\ r.content = upstream[url[c]],
         UNCHANGED <<hostVars, cacheVars, clock, url, stale, reply, since, served, floor>>
  PROVE  ServedFits' /\ \A d \in Callers : Fits(d)'
<1>. USE DEF IInv
<1>1. /\ pc'[c] = "fetched" /\ got'[c] = r
      /\ \A d \in Callers \ {c} : pc'[d] = pc[d] /\ got'[d] = got[d]
  BY DEF TypeOK
<1>2. UNCHANGED <<upstream, valid, entries, clock, url, stale, reply, since, served, floor>>
  BY DEF hostVars, cacheVars
<1>3. \A v \in Templates : upstream[v] \in Int /\ served[v] \in Int
  BY DEF TypeOK, Versions
<1>4. ServedFits'
  BY <1>2 DEF ServedFits
<1>5. Fits(c)'
  <2>1. url[c] \in Templates
    BY DEF TypeOK
  <2>2. CarriedFits(c)'
    BY <1>1, <1>2 DEF Fits, CarriedFits
  <2>3. ResultFits(c)'
    BY <1>1, <1>2, <1>3, <2>1 DEF ServedFits, ResultFits
  <2>4. ReplyFits(c)'
    BY <1>2 DEF Fits, ReplyFits, GoodReply
  <2>. QED
    BY <2>2, <2>3, <2>4 DEF Fits
<1>6. ASSUME NEW d \in Callers \ {c} PROVE Fits(d)'
  <2>1. url[d] \in Templates /\ clock \in Int
    BY DEF TypeOK
  <2>. QED
    BY <1>1, <1>2, <1>3, <2>1, Unaffected
<1>. QED
  BY <1>4, <1>5, <1>6

\* finishFetch: the leader's result is stored, served and handed out.
LEMMA FinishFits ==
  ASSUME IInv, TypeOK', NEW c \in Callers, FinishFetch(c)
  PROVE  ServedFits' /\ \A d \in Callers : Fits(d)'
<1>. USE DEF IInv
<1>. DEFINE u == url[c]
            r == Published(c)
            a == Answer(c, r)
            waiters == {w \in Callers : pc[w] = "wait" /\ leader[w] = c}
<1>1. /\ pc[c] = "fetched"
      /\ entries' = [entries EXCEPT ![u] =
                       IF r.kind = "content"
                         THEN [content |-> r.content, expiresAt |-> clock + TTL[u]] ELSE @]
      /\ pc' = [w \in Callers |-> IF w = c THEN "idle"
                                  ELSE IF w \in waiters THEN "woken" ELSE pc[w]]
      /\ got' = [w \in Callers |-> IF w = c THEN Failure("none")
                                   ELSE IF w \in waiters THEN r ELSE got[w]]
      /\ reply' = [reply EXCEPT ![c] = a]
      /\ Serve(u, a)
      /\ stale' = [stale EXCEPT ![c] = NoEntry]
      /\ UNCHANGED <<hostVars, clock, url, since, floor>>
  BY DEF FinishFetch, Published
<1>2. /\ u \in Templates /\ clock \in Int /\ served[u] \in Int /\ upstream[u] \in Int
      /\ floor[c] \in Int /\ since[c] \in Int
  BY DEF TypeOK, Versions
<1>3. /\ r \in Fetched \cup Failed /\ a \in Reply
      /\ r.kind = "content" =>
           /\ r.content \in Int /\ r.at = clock /\ valid[u][r.content]
           /\ served[u] <= r.content /\ r.content <= upstream[u]
  <2>1. /\ r \in Fetched \cup Failed /\ r.kind = got[c].kind
        /\ r.kind = "content" => r.content = got[c].content /\ r.content \in Versions /\ r.at = clock
    BY PublishedTyped
  <2>2. a \in Reply
    BY <2>1, AnswerTyped
  <2>3. r.kind = "content" =>
          /\ valid[u][r.content]
          /\ served[u] <= r.content /\ r.content <= upstream[u]
    BY <1>1, <2>1 DEF Fits, ResultFits
  <2>. QED
    BY <2>1, <2>2, <2>3 DEF Versions
<1>4. /\ CarriedFits(c) /\ floor[c] <= served[u] /\ since[c] <= clock
  BY <1>1 DEF Fits, CarriedFits
<1>. HIDE DEF r, u, a
<1>5. /\ GoodReply(a, u, since[c], floor[c])
      /\ a.kind = "content" =>
           (r.kind = "content" /\ a.content = r.content) \/ a.content <= served[u]
      /\ r.kind = "content" => a.kind = "content"
  <2>1. r.kind = "content" =>
          valid[url[c]][r.content] /\ floor[c] <= r.content /\ since[c] <= r.at
    BY <1>2, <1>3, <1>4 DEF u
  <2>. QED
    BY <1>1, <1>3, <1>4, <2>1, GoodAnswer DEF u, a
<1>6. a.kind = "content" => a.content \in Int
  BY <1>3, ReplyKinds DEF Versions
<1>7. /\ r.kind = "content" => served'[u] = r.content
      /\ r.kind # "content" => served' = served
      /\ \A v \in Templates \ {u} : served'[v] = served[v]
  <2>1. served' = [served EXCEPT ![u] = IF a.kind = "content" /\ a.content > @ THEN a.content ELSE @]
    BY <1>1 DEF Serve
  <2>2. served'[u] = IF a.kind = "content" /\ a.content > served[u] THEN a.content ELSE served[u]
    BY <1>2, <2>1 DEF TypeOK
  <2>3. CASE r.kind = "content"
    <3>1. a.kind = "content" /\ (a.content = r.content \/ a.content <= served[u])
      BY <1>5, <2>3
    <3>2. a.content = r.content
      BY <2>3, AnswerOfContent, <1>3 DEF a
    <3>3. r.content \in Int /\ served[u] \in Int /\ served[u] <= r.content
      BY <1>2, <1>3, <2>3
    <3>4. ASSUME r.content > served[u] PROVE served'[u] = r.content
      <4>1. a.content > served[u]
        BY <3>2, <3>4
      <4>2. served'[u] = a.content
        BY <2>2, <3>1, <4>1, Zenon
      <4>. QED
        BY <3>2, <4>2, Zenon
    <3>5. ASSUME ~(r.content > served[u]) PROVE served'[u] = r.content
      <4>1. ~(a.content > served[u])
        BY <3>2, <3>5, Zenon
      <4>2. served'[u] = served[u]
        BY <2>2, <4>1, Zenon
      <4>3. r.content = served[u]
        BY <3>3, <3>5
      <4>. QED
        BY <4>2, <4>3, Zenon
    <3>6. served'[u] = r.content
      BY <3>4, <3>5
    <3>7. \A v \in Templates \ {u} : served'[v] = served[v]
      BY <2>1 DEF TypeOK
    <3>. QED
      BY <2>3, <3>6, <3>7
  <2>4. CASE r.kind # "content"
    <3>1. served'[u] = served[u]
      BY <1>2, <1>5, <1>6, <2>2, <2>4
    <3>. QED
      BY <2>1, <2>4, <3>1 DEF TypeOK
  <2>. QED
    BY <2>3, <2>4
<1>8. UNCHANGED <<upstream, valid, clock, url, since, floor>>
  BY <1>1 DEF hostVars
<1>9. \A v \in Templates : served[v] \in Int /\ upstream[v] \in Int /\ served[v] <= served'[v]
  <2>1. \A v \in Templates : served[v] \in Int /\ upstream[v] \in Int
    BY DEF TypeOK, Versions
  <2>. QED
    BY <1>3, <1>7, <2>1
<1>10. ServedFits'
  <2>1. /\ r.kind = "content" =>
             /\ entries'[u].content = r.content /\ entries'[u] # NoEntry
             /\ \A v \in Templates \ {u} : entries'[v] = entries[v]
        /\ r.kind # "content" => entries' = entries
    <3>1. r.kind = "content" =>
            [content |-> r.content, expiresAt |-> clock + TTL[u]]
              \in [content : 0 .. MaxVersion, expiresAt : Nat]
      <4>1. clock \in Nat /\ TTL[u] \in Nat
        BY <1>2, ConstantsAssumption DEF TypeOK
      <4>2. r.kind = "content" => r.content \in 0 .. MaxVersion
        BY <1>3, Kinds DEF Versions
      <4>. QED
        BY <4>1, <4>2
    <3>. QED
      BY <1>1, <1>2, <3>1, ConstantsAssumption DEF TypeOK
  <2>2. CASE r.kind = "content"
    <3>1. /\ served'[u] = r.content /\ r.content <= upstream[u] /\ valid[u][r.content]
          /\ entries'[u].content = r.content /\ entries'[u] # NoEntry
          /\ \A v \in Templates \ {u} : served'[v] = served[v] /\ entries'[v] = entries[v]
      BY <1>3, <1>7, <2>1, <2>2
    <3>2. \A v \in Templates : served'[v] <= upstream'[v]
      BY <1>8, <3>1 DEF ServedFits
    <3>3. \A v \in Templates : entries'[v] # NoEntry =>
            entries'[v].content = served'[v] /\ valid'[v][entries'[v].content]
      BY <1>8, <3>1 DEF ServedFits
    <3>4. served'[Default] # -1 => entries'[Default] # NoEntry
      BY <3>1, ConstantsAssumption DEF ServedFits
    <3>. QED
      BY <3>2, <3>3, <3>4 DEF ServedFits
  <2>3. CASE r.kind # "content"
    BY <1>7, <1>8, <2>1, <2>3 DEF ServedFits
  <2>. QED
    BY <2>2, <2>3
<1>11. Fits(c)'
  <2>1. pc'[c] = "idle" /\ got'[c].kind # "content" /\ reply'[c] = a
    BY <1>1, Kinds DEF TypeOK
  <2>2. ReplyFits(c)'
    BY <1>5, <1>8, <2>1 DEF ReplyFits, GoodReply, u
  <2>. QED
    BY <2>1, <2>2 DEF Fits, CarriedFits, ResultFits
<1>12. ASSUME NEW w \in waiters PROVE Fits(w)'
  <2>1. /\ w \in Callers /\ w # c /\ pc[w] = "wait" /\ url[w] = u
        /\ pc'[w] = "woken" /\ got'[w] = r /\ stale'[w] = stale[w] /\ reply'[w] = reply[w]
    BY <1>1 DEF SingleFlight, u, TypeOK
  <2>2. floor[w] \in Int /\ since[w] \in Int
    BY <2>1 DEF TypeOK, Versions
  <2>3. Fits(w) /\ floor[w] <= served[u] /\ since[w] <= clock
    BY <2>1 DEF Fits, CarriedFits
  <2>4. stale[w] # NoEntry => stale[w].content \in Int
    BY <2>1 DEF TypeOK, Entry, Versions
  <2>5. served'[u] \in Int /\ served[u] <= served'[u]
    BY <1>2, <1>9 DEF TypeOK, Versions
  <2>6. CarriedFits(w)'
    BY <1>2, <1>8, <2>1, <2>2, <2>3, <2>4, <2>5 DEF Fits, CarriedFits
  <2>7. ResultFits(w)'
    BY <1>2, <1>3, <1>7, <1>8, <2>1, <2>2, <2>3 DEF ResultFits
  <2>8. ReplyFits(w)'
    BY <1>8, <2>1, <2>3 DEF Fits, ReplyFits, GoodReply
  <2>. QED
    BY <2>6, <2>7, <2>8 DEF Fits
<1>13. ASSUME NEW d \in Callers \ {c}, d \notin waiters PROVE Fits(d)'
  <2>1. /\ pc'[d] = pc[d] /\ got'[d] = got[d] /\ stale'[d] = stale[d] /\ reply'[d] = reply[d]
    BY <1>1, <1>13 DEF TypeOK
  <2>2. pc[d] = "fetched" => url[d] # u
    BY <1>1 DEF SingleFlight, Fetching, u
  <2>3. url[d] \in Templates
    BY DEF TypeOK
  <2>. QED
    BY <1>2, <1>7, <1>8, <1>9, <2>1, <2>2, <2>3, Unaffected
<1>. QED
  BY <1>10, <1>11, <1>12, <1>13

LEMMA NextFits ==
  IInv /\ TypeOK' /\ [Next]_vars => ServedFits' /\ \A d \in Callers : Fits(d)'
<1>. SUFFICES ASSUME IInv, TypeOK', [Next]_vars
              PROVE  ServedFits' /\ \A d \in Callers : Fits(d)'
  OBVIOUS
<1>. DEFINE Goal == ServedFits' /\ \A d \in Callers : Fits(d)'
<1>. USE DEF IInv
<1>1. ASSUME NEW c \in Callers, NEW u \in Templates, Hit(c, u) PROVE Goal
  <2>. DEFINE r == Content(entries[u].content, entries[u].expiresAt - TTL[u], FALSE)
  <2>1. /\ entries[u] \in Entry /\ TTL[u] \in Nat /\ clock \in Int /\ served[u] \in Int
        /\ clock < entries[u].expiresAt
        /\ valid[u][entries[u].content] /\ entries[u].content = served[u]
    BY <1>1, ConstantsAssumption DEF Hit, Fresh, TypeOK, ServedFits, Versions
  <2>2. /\ entries[u].content \in Versions /\ entries[u].expiresAt \in Int
        /\ entries[u].expiresAt - TTL[u] \in Int
    BY <2>1 DEF Entry
  <2>3. r \in Reply
    BY <2>2, Contents
  <2>4. /\ r.kind = "content" /\ r.content = entries[u].content
        /\ r.at = entries[u].expiresAt - TTL[u] /\ r.stale = FALSE
    BY DEF Content
  <2>5. /\ Return(c, u, r) /\ url'[c] = u /\ since'[c] = clock /\ floor'[c] = served[u]
        /\ \A d \in Callers \ {c} :
             url'[d] = url[d] /\ since'[d] = since[d] /\ floor'[d] = floor[d]
        /\ UNCHANGED <<hostVars, cacheVars, clock>>
    BY <1>1 DEF Hit, Asks, TypeOK
  <2>. HIDE DEF r
  <2>6. ~(r.at + TTL[u] <= clock)
    BY <2>1, <2>2, <2>4
  <2>7. GoodReply(r, u, since'[c], floor'[c]) /\ r.content <= served[u]
    BY <2>1, <2>4, <2>5, <2>6 DEF GoodReply
  <2>. QED
    BY <2>3, <2>5, <2>7, ReturnFits
<1>2. ASSUME NEW c \in Callers, NEW u \in Templates, Join(c, u) PROVE Goal
  BY <1>2, StartFits DEF Join
<1>3. ASSUME NEW c \in Callers, NEW u \in Templates, Lead(c, u) PROVE Goal
  BY <1>3, StartFits DEF Lead
<1>4. ASSUME NEW c \in Callers, FetchAnswered(c) PROVE Goal
  <2>. DEFINE v == upstream[url[c]]
              r == IF valid[url[c]][v]
                     THEN [kind |-> "content", content |-> v, at |-> clock]
                     ELSE Failure("invalid")
  <2>1. r.kind = "content" => valid[url[c]][r.content] /\ r.content = v
    BY Kinds
  <2>2. /\ pc[c] = "fetch" /\ got' = [got EXCEPT ![c] = r] /\ pc' = [pc EXCEPT ![c] = "fetched"]
        /\ UNCHANGED <<hostVars, cacheVars, clock, url, stale, reply, since, served, floor>>
    BY <1>4 DEF FetchAnswered
  <2>. HIDE DEF r
  <2>. QED
    BY <2>1, <2>2, FetchFits
<1>5. ASSUME NEW c \in Callers, FetchFailed(c) PROVE Goal
  <2>. DEFINE r == Failure(IF cancelled[c] THEN "cancelled" ELSE "unavailable")
  <2>1. r.kind # "content"
    BY Kinds
  <2>2. /\ pc[c] = "fetch" /\ got' = [got EXCEPT ![c] = r] /\ pc' = [pc EXCEPT ![c] = "fetched"]
        /\ UNCHANGED <<hostVars, cacheVars, clock, url, stale, reply, since, served, floor>>
    BY <1>5 DEF FetchFailed
  <2>. HIDE DEF r
  <2>. QED
    BY <2>1, <2>2, FetchFits
<1>6. ASSUME NEW c \in Callers, FinishFetch(c) PROVE Goal
  BY <1>6, FinishFits
<1>7. ASSUME NEW c \in Callers, FollowerReturns(c) PROVE Goal
  <2>1. /\ pc[c] = "woken" /\ url[c] \in Templates /\ got[c] \in Fetched \cup Failed
        /\ CarriedFits(c)
    BY <1>7 DEF FollowerReturns, TypeOK, Fits
  <2>2. got[c].kind = "content" =>
          /\ valid[url[c]][got[c].content] /\ floor[c] <= got[c].content
          /\ since[c] <= got[c].at /\ got[c].content <= served[url[c]]
    BY <2>1 DEF Fits, ResultFits
  <2>3. /\ GoodReply(Answer(c, got[c]), url[c], since[c], floor[c])
        /\ Answer(c, got[c]).kind = "content" =>
             \/ got[c].kind = "content" /\ Answer(c, got[c]).content = got[c].content
             \/ Answer(c, got[c]).content <= served[url[c]]
    BY <2>1, <2>2, GoodAnswer
  <2>4. Answer(c, got[c]) \in Reply
    BY <2>1, AnswerTyped
  <2>5. /\ Return(c, url[c], Answer(c, got[c]))
        /\ UNCHANGED <<hostVars, cacheVars, clock, url, since, floor>>
    BY <1>7 DEF FollowerReturns
  <2>. QED
    BY <2>1, <2>2, <2>3, <2>4, <2>5, ReturnFits
<1>8. ASSUME NEW c \in Callers, FollowerGivesUp(c) PROVE Goal
  <2>1. Failure("cancelled") \in Reply /\ Failure("cancelled").kind # "content"
    BY Kinds DEF Reply
  <2>2. /\ Return(c, url[c], Failure("cancelled")) /\ url[c] \in Templates
        /\ UNCHANGED <<hostVars, cacheVars, clock, url, since, floor>>
    BY <1>8 DEF FollowerGivesUp, TypeOK
  <2>3. GoodReply(Failure("cancelled"), url[c], since'[c], floor'[c])
    BY <2>1 DEF GoodReply
  <2>. QED
    BY <2>1, <2>2, <2>3, ReturnFits
<1>9. ASSUME UNCHANGED <<valid, entries, pc, url, stale, got, reply, since, served, floor>>,
             clock <= clock', \A v \in Templates : upstream[v] <= upstream'[v]
      PROVE  Goal
  <2>1. \A v \in Templates : upstream[v] \in Int /\ upstream'[v] \in Int /\ served[v] \in Int
    BY DEF TypeOK, Versions
  <2>2. \A v \in Templates : served[v] <= upstream'[v]
    BY <1>9, <2>1 DEF ServedFits
  <2>3. ServedFits'
    BY <1>9, <2>2 DEF ServedFits
  <2>4. ASSUME NEW d \in Callers PROVE Fits(d)'
    <3>1. url[d] \in Templates /\ served[url[d]] <= served'[url[d]]
      BY <1>9, <2>1 DEF TypeOK
    <3>. QED
      BY <1>9, <3>1, Unaffected
  <2>. QED
    BY <2>3, <2>4
<1>10. clock \in Int /\ \A v \in Templates : upstream[v] \in Int
  BY DEF TypeOK, Versions
<1>11. ASSUME NEW c \in Callers, Cancel(c) PROVE Goal
  <2>1. UNCHANGED <<upstream, clock, valid, entries, pc, url, stale, got, reply, since, served, floor>>
    BY <1>11 DEF Cancel, hostVars, cacheVars
  <2>. QED
    BY <1>9, <1>10, <2>1
<1>12. ASSUME NEW u \in Templates, Publish(u) PROVE Goal
  <2>1. UNCHANGED <<clock, valid, entries, pc, url, stale, got, reply, since, served, floor>>
    BY <1>12 DEF Publish, cacheVars, callerVars
  <2>2. \A v \in Templates : upstream[v] <= upstream'[v]
    BY <1>10, <1>12 DEF Publish, TypeOK
  <2>. QED
    BY <1>9, <1>10, <2>1, <2>2
<1>13. CASE Tick
  <2>1. UNCHANGED <<upstream, valid, entries, pc, url, stale, got, reply, since, served, floor>>
    BY <1>13 DEF Tick, hostVars, cacheVars, callerVars
  <2>2. clock <= clock'
    BY <1>10, <1>13 DEF Tick
  <2>. QED
    BY <1>9, <1>10, <2>1, <2>2
<1>14. CASE UNCHANGED vars
  <2>1. UNCHANGED <<upstream, clock, valid, entries, pc, url, stale, got, reply, since, served, floor>>
    BY <1>14 DEF vars, hostVars, cacheVars, callerVars
  <2>. QED
    BY <1>9, <1>10, <2>1
<1>. QED
  BY <1>1, <1>2, <1>3, <1>4, <1>5, <1>6, <1>7, <1>8, <1>11, <1>12, <1>13, <1>14
     DEF Next, Step

\* Everything the answers rest on is an invariant.
THEOREM Inductive == Spec => []IInv
<1>1. Init => SingleFlight /\ ServedFits /\ \A c \in Callers : Fits(c)
  <2>1. Failure("none").kind # "content"
    BY Kinds
  <2>. QED
    BY <2>1, ConstantsAssumption
       DEF Init, SingleFlight, Fetching, ServedFits, Fits, CarriedFits, ResultFits,
           ReplyFits, GoodReply
<1>2. IInv /\ [Next]_vars => IInv'
  BY NextTyped, NextSingle, NextFits DEF IInv
<1>3. Init => TypeOK
  BY InitTyped
<1>. QED
  BY <1>1, <1>2, <1>3, PTL DEF Spec, IInv

\* Only validated content is cached or answered (fetchTemplateConfig).
THEOREM Validated == Spec => []OnlyValidated
<1>1. IInv => OnlyValidated
  BY DEF IInv, ServedFits, Fits, ReplyFits, GoodReply, OnlyValidated
<1>. QED
  BY <1>1, Inductive, PTL

\* The warning goes with exactly the outdated answers, which are the default
\* template's (the second result of LoadOrFetchStaleOnError).
THEOREM Warned == Spec => []WarnedIffOutdated
<1>1. IInv => WarnedIffOutdated
  BY DEF IInv, Fits, ReplyFits, GoodReply, WarnedIffOutdated
<1>. QED
  BY <1>1, Inductive, PTL

\* Both together: what a call of the cache returns is what it promises.
THEOREM Promised == Spec => []ServedAsPromised
<1>1. OnlyValidated /\ WarnedIffOutdated => ServedAsPromised
  BY DEF ServedAsPromised
<1>. QED
  BY <1>1, Validated, Warned, PTL

\* No caller is answered with something older than what was answered before
\* it asked (finishFetch of a slow leader included).
THEOREM Monotone == Spec => []MonotoneReads
<1>1. IInv => MonotoneReads
  <2>. SUFFICES ASSUME IInv, NEW c \in Callers, reply[c].kind = "content"
                PROVE  reply[c].content >= floor[c]
    BY DEF MonotoneReads
  <2>1. reply[c].content \in Int /\ floor[c] \in Int
    BY ReplyKinds DEF IInv, TypeOK, Versions
  <2>2. floor[c] <= reply[c].content
    BY DEF IInv, Fits, ReplyFits, GoodReply
  <2>. QED
    BY <2>1, <2>2
<1>. QED
  BY <1>1, Inductive, PTL

\* Once served, the default template is there for every request that is not
\* cancelled itself (the staleEntry of LoadOrFetchStaleOnError).
THEOREM DefaultSurvives == Spec => DefaultSurvivesOutage
<1>. DEFINE Ends(c) ==
       pc[c] # "idle" /\ pc'[c] = "idle" /\ url[c] = Default /\ floor[c] # -1
         => reply'[c].kind = "content" \/ cancelled[c]
<1>1. ASSUME IInv, [Next]_vars, NEW c \in Callers PROVE Ends(c)
  <2>. SUFFICES ASSUME pc[c] # "idle", pc'[c] = "idle", url[c] = Default, floor[c] # -1
                PROVE  reply'[c].kind = "content" \/ cancelled[c]
    OBVIOUS
  <2>. USE DEF IInv
  <2>1. stale[c] # NoEntry
    BY <1>1 DEF Fits, CarriedFits
  <2>2. \A r \in Fetched \cup Failed : Answer(c, r).kind = "content"
    BY <2>1 DEF Answer, Content
  <2>3. ASSUME NEW d \in Callers, NEW u, NEW r, Return(d, u, r)
        PROVE  d = c /\ reply'[c] = r
    BY <1>1, <2>3 DEF Return, TypeOK
  <2>4. ASSUME NEW d \in Callers, NEW u \in Templates, Hit(d, u) PROVE FALSE
    BY <2>3, <2>4 DEF Hit, Asks
  <2>5. ASSUME NEW d \in Callers, NEW u \in Templates, Join(d, u) \/ Lead(d, u) PROVE FALSE
    BY <1>1, <2>5 DEF Join, Lead, TypeOK
  <2>6. ASSUME NEW d \in Callers, FetchAnswered(d) \/ FetchFailed(d) \/ Cancel(d) PROVE FALSE
    BY <1>1, <2>6 DEF FetchAnswered, FetchFailed, Cancel, TypeOK
  <2>7. ASSUME NEW d \in Callers, FinishFetch(d) PROVE reply'[c].kind = "content"
    <3>1. d = c /\ reply' = [reply EXCEPT ![c] = Answer(c, Published(c))]
      BY <1>1, <2>7 DEF FinishFetch, Published, TypeOK
    <3>2. Published(c) \in Fetched \cup Failed
      BY <1>1, PublishedTyped
    <3>. QED
      BY <1>1, <2>2, <3>1, <3>2 DEF TypeOK
  <2>8. ASSUME NEW d \in Callers, FollowerReturns(d) PROVE reply'[c].kind = "content"
    BY <1>1, <2>2, <2>3, <2>8 DEF FollowerReturns, TypeOK
  <2>9. ASSUME NEW d \in Callers, FollowerGivesUp(d) PROVE cancelled[c]
    BY <2>3, <2>9 DEF FollowerGivesUp
  <2>10. ASSUME NEW u \in Templates, Publish(u) PROVE FALSE
    BY <2>10 DEF Publish, callerVars
  <2>11. CASE Tick \/ UNCHANGED vars
    BY <2>11 DEF Tick, vars, callerVars
  <2>. QED
    BY <1>1, <2>4, <2>5, <2>6, <2>7, <2>8, <2>9, <2>10, <2>11 DEF Next, Step
<1>2. IInv /\ [Next]_vars => [\A c \in Callers : Ends(c)]_vars
  BY <1>1
<1>. QED
  BY <1>2, Inductive, PTL DEF DefaultSurvivesOutage, Spec

=============================================================================
