--------------------------- MODULE ShortLinkStore ---------------------------
(***************************************************************************)
(* The SQLite short-link store (internal/store/sqlite.go) as its callers   *)
(* in internal/service/short_links.go and the /sub/<id> handler use it.    *)
(*                                                                         *)
(* Request goroutines ("clients") call CreateOrGet and ResolveShortID      *)
(* concurrently.  A create holds writeMu for the whole call; both kinds of *)
(* call run in a transaction on the single pooled connection.  A           *)
(* transaction works on its own copy `tx` of the table and publishes it at *)
(* COMMIT; every SQL statement, and the wait for the connection, may fail  *)
(* or be cancelled, and the process may die and come back with another     *)
(* configured capacity.                                                    *)
(***************************************************************************)
EXTENDS Integers, FiniteSets

CONSTANTS
  Clients,      \* goroutines serving requests
  NoClient,     \* nobody holds the mutex / the connection
  StateKeys,    \* canonical state keys
  ShortIDs,     \* short ids
  ShortIDOf,    \* DeterministicShortID: 64 bits of a hash, not injective
  Bases,        \* public base URLs under which a state may be published
  Capacities,   \* values SHORT_LINK_CAPACITY takes over the restarts
  Radix,        \* digits per decimal place of a time stamp's fraction (10)
  MaxTick,      \* bound on the wall clock
  MaxRowid      \* bound on the rowids handed out

ASSUME ConstantsAssumption ==
  /\ NoClient \notin Clients
  /\ ShortIDOf \in [StateKeys -> ShortIDs]
  /\ Capacities \subseteq Nat \ {0}
  /\ Radix \in Nat \ {0}
  /\ MaxTick \in Nat
  /\ MaxRowid \in Nat

VARIABLES
  db,        \* committed rows of short_links
  tx,        \* the rows the open transaction sees
  capacity,  \* maxCapacity of the running process
  clock,     \* wall clock, in units of the last fraction digit
  mu,        \* holder of writeMu
  conn,      \* holder of the only database connection
  pc,        \* where each call stands
  call,      \* the call each client is serving
  now,       \* the time stamp each call took
  reply,     \* what the last call of each client returned
  written    \* has a create committed since the process started? (history)

dbVars   == <<db, tx, capacity>>
callVars == <<pc, call, now, reply>>
lockVars == <<mu, conn>>
vars     == <<dbVars, clock, lockVars, callVars, written>>

-----------------------------------------------------------------------------
(* Data *)

Ticks == 0 .. MaxTick

\* A long URL: the state it encodes under a public base URL.
LongURL == [state : StateKeys, base : Bases]

Row == [key : StateKeys, sid : ShortIDs, url : LongURL, at : Ticks, rowid : Nat]

CreateCall  == [op : {"create"}, key : StateKeys, url : LongURL]
ResolveCall == [op : {"resolve"}, sid : ShortIDs]
NoCall      == [op |-> "none"]

Entry    == [sid : ShortIDs, url : LongURL]
Ok(s, u) == [status |-> "ok", entry |-> [sid |-> s, url |-> u]]
Error(e) == [status |-> e]
Errors   == {"none", "not_found", "collision", "unavailable", "lost"}
Reply    == [status : {"ok"}, entry : Entry] \cup [status : Errors]

\* canonicalizeShortLinkTarget: key and URL come from one decoded payload.
CanonicalCreate(k, b) ==
  [op |-> "create", key |-> k, url |-> [state |-> k, base |-> b]]

(***************************************************************************)
(* last_accessed_at is time.RFC3339Nano text and SQLite compares it as     *)
(* text.  The layout drops the fraction's trailing zeros, and a fraction   *)
(* of zero with its dot, so a shorter text meets "Z" where a longer one    *)
(* still has "." or a digit; "Z" is the largest of these characters.       *)
(* A stamp has two fraction digits here: one second is Radix^2 ticks.      *)
(***************************************************************************)
Second(t) == t \div (Radix * Radix)

TextRank(t) ==
  LET high == (t \div Radix) % Radix
      low  == t % Radix
  IN  CASE low # 0              -> (Radix + 1) * high + low
        [] low = 0 /\ high # 0  -> (Radix + 1) * high + Radix
        [] low = 0 /\ high = 0  -> (Radix + 1) * (Radix + 1)

TextBefore(s, t) ==
  \/ Second(s) < Second(t)
  \/ Second(s) = Second(t) /\ TextRank(s) < TextRank(t)

\* Mutant: evict in insertion order instead of access order.
OrderedBefore_ByInsertion(r, s) == r.rowid < s.rowid

\* ORDER BY last_accessed_at ASC, rowid ASC
OrderedBefore(r, s) ==
  \/ TextBefore(r.at, s.at)
  \/ r.at = s.at /\ r.rowid < s.rowid

RowsOfKey(rows, k)  == {r \in rows : r.key = k}
RowsOfID(rows, s)   == {r \in rows : r.sid = s}

\* The hidden rowid of an inserted row is one more than the largest in use.
NextRowid(rows, i) ==
  /\ \A r \in rows : r.rowid < i
  /\ i = 1 \/ \E r \in rows : i = r.rowid + 1

\* updateLongURL and refreshLastAccessedAt on the rows a WHERE selects.
Rewritten(r, u, t) == [r EXCEPT !.url = u, !.at = t]
Restamped(r, t)    == [r EXCEPT !.at = t]

\* Mutant: the UPDATE lacks its WHERE.
Refreshed_NoWhere(rows, chosen, u, t) == {Rewritten(r, u, t) : r \in rows}

Refreshed(rows, chosen, u, t) == (rows \ chosen) \cup {Rewritten(r, u, t) : r \in chosen}
Stamped(rows, chosen, t)      == (rows \ chosen) \cup {Restamped(r, t) : r \in chosen}

\* What StorageStats reports.
StorageStats == [used |-> Cardinality(db), capacity |-> capacity]

\* Mutant: the DELETE has LIMIT 1 instead of the whole overflow.
IsTrim_OneRow(victims, rows, target, spared) ==
  /\ victims \subseteq rows \ spared
  /\ IF Cardinality(rows) <= target THEN victims = {} ELSE Cardinality(victims) = 1
  /\ \A v \in victims, r \in (rows \ spared) \ victims : OrderedBefore(v, r)

(***************************************************************************)
(* trimOverflowBeforeWrite: the rows to delete from `rows` so that         *)
(* `target` remain, sparing the row of the state being written.            *)
(***************************************************************************)
IsTrim(victims, rows, target, spared) ==
  /\ victims \subseteq rows \ spared
  /\ IF Cardinality(rows) <= target
       THEN victims = {}
       ELSE Cardinality(victims) = Cardinality(rows) - target
  /\ \A v \in victims, r \in (rows \ spared) \ victims : OrderedBefore(v, r)

-----------------------------------------------------------------------------
(* Calls *)

Init ==
  /\ db = {} /\ tx = {}
  /\ capacity \in Capacities
  /\ clock = 0
  /\ mu = NoClient /\ conn = NoClient
  /\ pc = [c \in Clients |-> "idle"]
  /\ call = [c \in Clients |-> NoCall]
  /\ now = [c \in Clients |-> 0]
  /\ reply = [c \in Clients |-> Error("none")]
  /\ written = FALSE

\* Mutant: no deferred Unlock.
Return_KeepsMutex(c, r) ==
  /\ pc' = [pc EXCEPT ![c] = "idle"]
  /\ call' = [call EXCEPT ![c] = NoCall]
  /\ now' = [now EXCEPT ![c] = 0]
  /\ reply' = [reply EXCEPT ![c] = r]
  /\ mu' = mu
  /\ conn' = IF conn = c THEN NoClient ELSE conn
  /\ tx' = IF conn = c THEN {} ELSE tx

\* Leave the call: release what it holds and answer.
Return(c, r) ==
  /\ pc' = [pc EXCEPT ![c] = "idle"]
  /\ call' = [call EXCEPT ![c] = NoCall]
  /\ now' = [now EXCEPT ![c] = 0]
  /\ reply' = [reply EXCEPT ![c] = r]
  /\ mu' = IF mu = c THEN NoClient ELSE mu
  /\ conn' = IF conn = c THEN NoClient ELSE conn
  /\ tx' = IF conn = c THEN {} ELSE tx

\* MaxRowid bounds the inserts: every create under way may take a rowid.
RowidsLeft ==
  LET creating == {c \in Clients : call[c].op = "create"}
  IN  \A r \in db : r.rowid + Cardinality(creating) < MaxRowid

CallCreate(c, k, b) ==
  /\ pc[c] = "idle" /\ RowidsLeft
  /\ call' = [call EXCEPT ![c] = CanonicalCreate(k, b)]
  /\ pc' = [pc EXCEPT ![c] = "lock"]
  /\ reply' = [reply EXCEPT ![c] = Error("none")]
  /\ UNCHANGED <<dbVars, clock, lockVars, now, written>>

\* writeMu.Lock(), then `now` is read; the mutex wait is not cancellable.
LockWrites(c) ==
  /\ pc[c] = "lock" /\ mu = NoClient
  /\ mu' = c
  /\ now' = [now EXCEPT ![c] = clock]
  /\ pc' = [pc EXCEPT ![c] = "begin"]
  /\ UNCHANGED <<dbVars, clock, conn, call, reply, written>>

\* A resolve takes no mutex and reads `now` before it waits for BeginTx.
CallResolve(c, s) ==
  /\ pc[c] = "idle"
  /\ call' = [call EXCEPT ![c] = [op |-> "resolve", sid |-> s]]
  /\ now' = [now EXCEPT ![c] = clock]
  /\ pc' = [pc EXCEPT ![c] = "begin"]
  /\ reply' = [reply EXCEPT ![c] = Error("none")]
  /\ UNCHANGED <<dbVars, clock, lockVars, written>>

BeginTx(c) ==
  /\ pc[c] = "begin" /\ conn = NoClient
  /\ conn' = c
  /\ tx' = db
  /\ pc' = [pc EXCEPT ![c] = "lookup"]
  /\ UNCHANGED <<db, capacity, clock, mu, call, now, reply, written>>

\* Mutant: a known state is trimmed for as if it were new.
TrimOverflow_AlwaysForNew(c) ==
  /\ pc[c] = "lookup" /\ call[c].op = "create"
  /\ \E victims \in SUBSET tx :
       /\ IsTrim(victims, tx, capacity - 1, RowsOfKey(tx, call[c].key))
       /\ tx' = tx \ victims
  /\ pc' = [pc EXCEPT ![c] = "write"]
  /\ UNCHANGED <<db, capacity, clock, lockVars, call, now, reply, written>>

\* CreateOrGet: look the state up, then trim for the write to come.
TrimOverflow(c) ==
  /\ pc[c] = "lookup" /\ call[c].op = "create"
  /\ LET existing == RowsOfKey(tx, call[c].key)
         target   == IF existing = {} THEN capacity - 1 ELSE capacity
     IN  \E victims \in SUBSET tx :
           /\ IsTrim(victims, tx, target, existing)
           /\ tx' = tx \ victims
  /\ pc' = [pc EXCEPT ![c] = "write"]
  /\ UNCHANGED <<db, capacity, clock, lockVars, call, now, reply, written>>

\* CreateOrGet on a known state: new long URL, refreshed time stamp.
UpdateRow(c) ==
  /\ pc[c] = "write"
  /\ LET existing == RowsOfKey(tx, call[c].key)
     IN  /\ existing # {}
         /\ tx' = Refreshed(tx, existing, call[c].url, now[c])
  /\ pc' = [pc EXCEPT ![c] = "commit"]
  /\ UNCHANGED <<db, capacity, clock, lockVars, call, now, reply, written>>

\* Mutant: CreateOrGet's two string arguments swapped in the INSERT.
InsertRow_Swapped(c) ==
  /\ pc[c] = "write"
  /\ RowsOfKey(tx, call[c].key) = {}
  /\ RowsOfID(tx, ShortIDOf[call[c].key]) = {}
  /\ \E i \in 1 .. MaxRowid :
       /\ NextRowid(tx, i)
       /\ tx' = tx \cup {[key |-> ShortIDOf[call[c].key], sid |-> call[c].key,
                          url |-> call[c].url, at |-> now[c], rowid |-> i]}
  /\ pc' = [pc EXCEPT ![c] = "commit"]
  /\ UNCHANGED <<db, capacity, clock, lockVars, call, now, reply, written>>

\* Mutant: the table has no primary key on short_id.
InsertRow_Duplicates(c) ==
  /\ pc[c] = "write"
  /\ RowsOfKey(tx, call[c].key) = {}
  /\ \E i \in 1 .. MaxRowid :
       /\ NextRowid(tx, i)
       /\ tx' = tx \cup {[key |-> call[c].key, sid |-> ShortIDOf[call[c].key],
                          url |-> call[c].url, at |-> now[c], rowid |-> i]}
  /\ pc' = [pc EXCEPT ![c] = "commit"]
  /\ UNCHANGED <<db, capacity, clock, lockVars, call, now, reply, written>>

\* CreateOrGet on a new state whose short id is free.
InsertRow(c) ==
  /\ pc[c] = "write"
  /\ RowsOfKey(tx, call[c].key) = {}
  /\ RowsOfID(tx, ShortIDOf[call[c].key]) = {}
  /\ \E i \in 1 .. MaxRowid :
       /\ NextRowid(tx, i)
       /\ tx' = tx \cup {[key |-> call[c].key, sid |-> ShortIDOf[call[c].key],
                          url |-> call[c].url, at |-> now[c], rowid |-> i]}
  /\ pc' = [pc EXCEPT ![c] = "commit"]
  /\ UNCHANGED <<db, capacity, clock, lockVars, call, now, reply, written>>

\* The primary key refuses the insert: ErrShortIDCollision, rolled back.
RefuseCollision(c) ==
  /\ pc[c] = "write"
  /\ RowsOfKey(tx, call[c].key) = {}
  /\ RowsOfID(tx, ShortIDOf[call[c].key]) # {}
  /\ Return(c, Error("collision"))
  /\ UNCHANGED <<db, capacity, clock, written>>

\* ResolveShortID on a known id: refresh its time stamp.
RefreshRow(c) ==
  /\ pc[c] = "lookup" /\ call[c].op = "resolve"
  /\ RowsOfID(tx, call[c].sid) # {}
  /\ tx' = Stamped(tx, RowsOfID(tx, call[c].sid), now[c])
  /\ pc' = [pc EXCEPT ![c] = "commit"]
  /\ UNCHANGED <<db, capacity, clock, lockVars, call, now, reply, written>>

\* ResolveShortID on an unknown id: ErrShortURLNotFound, nothing written.
ResolveMiss(c) ==
  /\ pc[c] = "lookup" /\ call[c].op = "resolve"
  /\ RowsOfID(tx, call[c].sid) = {}
  /\ Return(c, Error("not_found"))
  /\ UNCHANGED <<db, capacity, clock, written>>

CommitCreate(c) ==
  /\ pc[c] = "commit" /\ call[c].op = "create"
  /\ db' = tx
  /\ written' = TRUE
  /\ \E r \in RowsOfKey(tx, call[c].key) : Return(c, Ok(r.sid, call[c].url))
  /\ UNCHANGED <<capacity, clock>>

CommitResolve(c) ==
  /\ pc[c] = "commit" /\ call[c].op = "resolve"
  /\ db' = tx
  /\ \E r \in RowsOfID(tx, call[c].sid) : Return(c, Ok(r.sid, r.url))
  /\ UNCHANGED <<capacity, clock, written>>

\* Mutant: statements run outside the transaction, so a failure leaves
\* behind what was already written.
Fail_NoRollback(c) ==
  /\ pc[c] \in {"begin", "lookup", "write", "commit"}
  /\ db' = IF conn = c THEN tx ELSE db
  /\ Return(c, Error("unavailable"))
  /\ UNCHANGED <<capacity, clock, written>>

\* BeginTx, a statement or COMMIT fails, or the request's context ends:
\* the deferred Rollback runs and the service answers 503.
Fail(c) ==
  /\ pc[c] \in {"begin", "lookup", "write", "commit"}
  /\ Return(c, Error("unavailable"))
  /\ UNCHANGED <<db, capacity, clock, written>>

-----------------------------------------------------------------------------
(* Environment *)

\* The process dies, in whatever calls it was, and is started again on the
\* same file, possibly with another capacity.  Opening trims nothing.
Restart ==
  /\ capacity' \in Capacities
  /\ mu' = NoClient /\ conn' = NoClient /\ tx' = {}
  /\ reply' = [c \in Clients |-> IF pc[c] = "idle" THEN reply[c] ELSE Error("lost")]
  /\ pc' = [c \in Clients |-> "idle"]
  /\ call' = [c \in Clients |-> NoCall]
  /\ now' = [c \in Clients |-> 0]
  /\ written' = FALSE
  /\ UNCHANGED <<db, clock>>

Tick ==
  /\ clock < MaxTick
  /\ clock' = clock + 1
  /\ UNCHANGED <<dbVars, lockVars, callVars, written>>

\* The steps a call under way can take.
Step(c) ==
  \/ LockWrites(c)
  \/ BeginTx(c)
  \/ TrimOverflow(c)
  \/ UpdateRow(c)
  \/ InsertRow(c)
  \/ RefuseCollision(c)
  \/ RefreshRow(c)
  \/ ResolveMiss(c)
  \/ CommitCreate(c)
  \/ CommitResolve(c)

Next ==
  \/ \E c \in Clients, k \in StateKeys, b \in Bases : CallCreate(c, k, b)
  \/ \E c \in Clients, s \in ShortIDs : CallResolve(c, s)
  \/ \E c \in Clients : Step(c) \/ Fail(c)
  \/ Restart
  \/ Tick

Spec == Init /\ [][Next]_vars

(***************************************************************************)
(* A started call keeps running.  sync.Mutex (starvation mode) and the     *)
(* connection pool (queued requests) hand over to every waiter in the end, *)
(* hence strong fairness for the two acquisitions.                         *)
(***************************************************************************)
Fairness ==
  \A c \in Clients :
    /\ WF_vars(Step(c))
    /\ SF_vars(LockWrites(c))
    /\ SF_vars(BeginTx(c))

FairSpec == Spec /\ Fairness

-----------------------------------------------------------------------------
(* Properties *)

\* Every variable stays within the types of the program.
TypeOK ==
  /\ db \subseteq Row /\ tx \subseteq Row
  /\ capacity \in Capacities
  /\ clock \in Ticks
  /\ mu \in Clients \cup {NoClient} /\ conn \in Clients \cup {NoClient}
  /\ pc \in [Clients -> {"idle", "lock", "begin", "lookup", "write", "commit"}]
  /\ call \in [Clients -> CreateCall \cup ResolveCall \cup {NoCall}]
  /\ now \in [Clients -> Ticks]
  /\ reply \in [Clients -> Reply]
  /\ written \in BOOLEAN

\* In `rows`, states and short ids determine each other, and each long URL
\* still encodes the state its short id was handed out for.
OneStatePerID(rows) ==
  /\ \A r \in rows : r.sid = ShortIDOf[r.key] /\ r.url.state = r.key
  /\ \A r, s \in rows : r.key = s.key \/ r.sid = s.sid => r = s

\* "canonicalStateKey <-> shortId" is a bijection on the stored rows even
\* when two states hash to one id (03-backend-api.md:813-815).
LinksAreBijective == OneStatePerID(db)

\* Over-capacity rows are seen only between a restart with a smaller
\* capacity and the first successful write (03-backend-api.md:824-826).
OverflowEndsAtFirstWrite == written => StorageStats.used <= StorageStats.capacity

\* A create that commits on a full or overfull table leaves it exactly full:
\* it evicts what it must and no more (03-backend-api.md:826).
Creates(c) == pc[c] = "commit" /\ call[c].op = "create" /\ reply'[c].status = "ok"

WritesTrimExactly ==
  [][\A c \in Clients :
       Creates(c) /\ Cardinality(db) >= capacity => Cardinality(db') = capacity]_vars

\* Only a successful create makes a link disappear: not a resolve, not a
\* failed or cancelled call after its trim, not a collision, not a crash
\* (03-backend-api.md:827).
OnlyCreatesForget ==
  [][\A r \in db : RowsOfKey(db', r.key) = {} => \E c \in Clients : Creates(c)]_vars

\* What a call answers is what the table holds as the call ends: a create
\* has its state stored under the id and URL it returns, a resolve returns
\* the URL of its id, "not found" means the id is not stored, and an error
\* leaves the table as it was (short_links.go:54-69, sqlite.go:186,211).
Answers(c, status) == pc[c] # "idle" /\ pc'[c] = "idle" /\ reply'[c].status = status

Holds(rows, entry) == \E r \in rows : r.sid = entry.sid /\ r.url = entry.url

AnswersAreTruthful ==
  [][\A c \in Clients :
       /\ Answers(c, "ok") => Holds(db', reply'[c].entry)
       /\ Answers(c, "ok") /\ call[c].op = "create" =>
            reply'[c].entry.url = call[c].url
       /\ Answers(c, "ok") /\ call[c].op = "resolve" =>
            Holds(db, reply'[c].entry) /\ reply'[c].entry.sid = call[c].sid
       /\ Answers(c, "not_found") => RowsOfID(db, call[c].sid) = {}
       /\ \A e \in Errors : Answers(c, e) => db' = db]_vars

\* The rows a create of client c evicts in this step, and those it keeps
\* although it may evict them (not the row of the state it writes).
Evicted    == {r \in db : RowsOfKey(db', r.key) = {}}
Spared(c)  == {r \in db \ Evicted : r.key # call[c].key}

\* "must also evict the least recently accessed record" (store.go:17-19,
\* 03-backend-api.md:823), as time.Time compares time stamps.
EvictsEarliestAccess ==
  [][\A c \in Clients : Creates(c) =>
       \A v \in Evicted, r \in Spared(c) : v.at <= r.at]_vars

\* What the text comparison leaves of it: the evicted record is the least
\* recently accessed one up to the second.
EvictsEarliestSecond ==
  [][\A c \in Clients : Creates(c) =>
       \A v \in Evicted, r \in Spared(c) : Second(v.at) <= Second(r.at)]_vars

\* A short id taken by another state must be refused, never handed over:
\* a write keeps "one short id, one state" (03-backend-api.md:814).
CollisionFailsClosed ==
  [][\A r \in db, s \in db' : r.sid = s.sid => r.key = s.key]_vars

\* Every call is answered: no lock order of the mutex and the connection
\* makes two calls wait for each other.
EveryCallAnswered == \A c \in Clients : pc[c] # "idle" ~> pc[c] = "idle"

-----------------------------------------------------------------------------
(* Refinement *)

\* A link as the outside sees it, without the columns that order evictions.
Link(r) == [key |-> r.key, sid |-> r.sid, url |-> r.url]

Directory == INSTANCE ShortLinkDirectory WITH links <- {Link(r) : r \in db}

\* The store implements the directory of short links.
ImplementsDirectory == Directory!Spec

=============================================================================
