------------------------------- MODULE MCServer -------------------------------
(***************************************************************************)
(* Small instances of the parts of the server in which requests wait for   *)
(* one another, side by side: `part` says which of them a behaviour is     *)
(* about, and the variables of the others keep their first values.         *)
(*   links      ShortLinkStore, two states on one short id,                 *)
(*   templates  TemplateFetchCache, one template,                           *)
(*   status     RuntimeStatus.                                              *)
(***************************************************************************)
EXTENDS RuntimeStatus, TLC

CONSTANTS q1, q2, p1, p2, c1, c2, c3, k1, k3, s1, b1, default, NoEntry

VARIABLES
  part,
  db, tx, capacity, rows_clock, writeMu, conn, storePc, call, now, answer, written,
  upstream, valid, entries, inflight, fetch_clock, cachePc, url, stale, leader, got,
  cancelled, result, since, served, oldest

Links == INSTANCE ShortLinkStore WITH
  Clients <- {c1, c2, c3}, NoClient <- Nobody, StateKeys <- {k1, k3}, ShortIDs <- {s1},
  ShortIDOf <- (k1 :> s1) @@ (k3 :> s1), Bases <- {b1}, Capacities <- {2},
  Radix <- 2, MaxTick <- 0, MaxRowid <- 4,
  clock <- rows_clock, mu <- writeMu, pc <- storePc, reply <- answer

Templates == INSTANCE TemplateFetchCache WITH
  Callers <- {c1, c2, c3}, Templates <- {default}, Default <- default, TTL <- (default :> 1),
  MaxVersion <- 0, MaxTick <- 1,
  clock <- fetch_clock, pc <- cachePc, reply <- result, floor <- oldest

OnePageEach == (q1 :> p1) @@ (q2 :> p2)

-----------------------------------------------------------------------------

links == <<db, tx, capacity, rows_clock, writeMu, conn, storePc, call, now, answer, written>>
templates ==
  <<upstream, valid, entries, inflight, fetch_clock, cachePc, url, stale, leader, got,
    cancelled, result, since, served, oldest>>

Start ==
  /\ part \in {"links", "templates", "status"}
  /\ Init /\ Links!Init /\ Templates!Init
  /\ part = "templates" \/ \A u \in DOMAIN valid : \A v \in DOMAIN valid[u] : valid[u][v]

Step ==
  /\ UNCHANGED part
  /\ \/ part = "links" /\ Links!Next /\ UNCHANGED <<templates, vars>>
     \/ part = "templates" /\ Templates!Next /\ UNCHANGED <<links, vars>>
     \/ part = "status" /\ Next /\ UNCHANGED <<links, templates>>

-----------------------------------------------------------------------------
(* Each part is as fair as it is alone.  Who takes a step in one part takes  *)
(* none in the others, so that the conditions on them are one.               *)

Places == 1 .. 3

Client(i)  == <<c1, c2, c3>>[i]
Request(i) == <<q1, q2, q1>>[i]

Goes(i) ==
  \/ part = "links" /\ Links!Step(Client(i)) /\ UNCHANGED <<part, templates, vars>>
  \/ part = "templates" /\ Templates!Step(Client(i)) /\ UNCHANGED <<part, links, vars>>
  \/ part = "status" /\ Proceed(Request(i)) /\ UNCHANGED <<part, links, templates>>

Locks(i) ==
  \/ part = "links" /\ Links!LockWrites(Client(i)) /\ UNCHANGED <<part, templates, vars>>
  \/ part = "status" /\ Acquire(Request(i)) /\ UNCHANGED <<part, links, templates>>

Connects(i) ==
  part = "links" /\ Links!BeginTx(Client(i)) /\ UNCHANGED <<part, templates, vars>>

Everything == <<part, links, templates, vars>>

Server ==
  /\ Start /\ [][Step]_Everything
  /\ \A i \in Places :
       WF_Everything(Goes(i)) /\ SF_Everything(Locks(i)) /\ SF_Everything(Connects(i))

-----------------------------------------------------------------------------
(* Properties *)

Waits ==
  \/ storePc[Client(1)] # "idle"
  \/ cachePc[Client(1)] # "idle"
  \/ pc[Request(1)] \in Working

\* Whoever calls the store, reads a template or asks for the status is answered.
\* In each part all are alike, so that one stands for all.
EveryoneIsAnswered == Waits ~> ~Waits
=============================================================================
