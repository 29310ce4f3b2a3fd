------------------------ MODULE ShortLinkStoreProofs ------------------------
(***************************************************************************)
(* Theorems about ShortLinkStore, for every set of clients, states, short  *)
(* ids and capacities.                                                     *)
(*                                                                         *)
(* The first part needs little of a transaction.  In the second part, that *)
(* the store implements the directory of short links, that its answers are *)
(* truthful, that only creates forget and that a write leaves the table    *)
(* within its capacity are all about the step that commits, and decided by *)
(* what the transaction did before.  So its invariant says, for each point *)
(* of a call, how the transaction's rows `tx` relate to the committed rows *)
(* `db`; it is preserved because only the holder of the one connection     *)
(* changes either of them.                                                 *)
(***************************************************************************)
EXTENDS ShortLinkStore, FiniteSetTheorems, TLAPS

\* A call that is past a point of the code is of the kind that gets there.
CallsFit ==
  \A c \in Clients :
    /\ pc[c] = "idle" <=> call[c] = NoCall
    /\ pc[c] \in {"lock", "write"} => call[c] \in CreateCall
    /\ call[c] \in CreateCall => call[c].url.state = call[c].key

LEMMA NotBoth ==
  /\ \A x \in CreateCall : x.op = "create"
  /\ \A x \in ResolveCall : x.op = "resolve"
  /\ NoCall.op = "none"
BY DEF CreateCall, ResolveCall, NoCall

LEMMA ErrorsAreReplies == \A e \in Errors : Error(e) \in Reply
BY DEF Error, Reply

\* Rewriting a row's URL and time stamp gives a row.
LEMMA RewrittenRow ==
  ASSUME NEW r \in Row, NEW u \in LongURL, NEW t \in Ticks
  PROVE  /\ Rewritten(r, u, t) \in Row
         /\ Rewritten(r, u, t).key = r.key
         /\ Rewritten(r, u, t).sid = r.sid
         /\ Rewritten(r, u, t).url = u
BY DEF Row, Rewritten

LEMMA RestampedRow ==
  ASSUME NEW r \in Row, NEW t \in Ticks
  PROVE  /\ Restamped(r, t) \in Row
         /\ Restamped(r, t).key = r.key
         /\ Restamped(r, t).sid = r.sid
         /\ Restamped(r, t).url = r.url
BY DEF Row, Restamped

\* What an UPDATE leaves: rows, with the keys and ids of the rows there were.
LEMMA RefreshedRows ==
  ASSUME NEW rows \in SUBSET Row, NEW chosen \in SUBSET rows,
         NEW u \in LongURL, NEW t \in Ticks,
         NEW q \in Refreshed(rows, chosen, u, t)
  PROVE  /\ q \in Row
         /\ \E r \in rows :
              /\ q.key = r.key /\ q.sid = r.sid
              /\ \/ r \notin chosen /\ q = r
                 \/ r \in chosen /\ q = Rewritten(r, u, t) /\ q.url = u
<1>1. CASE q \in rows \ chosen
  BY <1>1
<1>2. ASSUME NEW r \in chosen, q = Rewritten(r, u, t)
      PROVE  /\ q \in Row /\ q.key = r.key /\ q.sid = r.sid /\ q.url = u
  <2>1. r \in Row
    OBVIOUS
  <2>2. /\ Rewritten(r, u, t) \in Row
        /\ Rewritten(r, u, t).key = r.key
        /\ Rewritten(r, u, t).sid = r.sid
        /\ Rewritten(r, u, t).url = u
    BY <2>1, RewrittenRow
  <2>. QED
    BY <1>2, <2>2
<1>. QED
  BY <1>1, <1>2 DEF Refreshed

LEMMA StampedRows ==
  ASSUME NEW rows \in SUBSET Row, NEW chosen \in SUBSET rows, NEW t \in Ticks,
         NEW q \in Stamped(rows, chosen, t)
  PROVE  /\ q \in Row
         /\ \E r \in rows :
              /\ q.key = r.key /\ q.sid = r.sid /\ q.url = r.url
              /\ \/ r \notin chosen /\ q = r
                 \/ r \in chosen /\ q = Restamped(r, t)
<1>1. CASE q \in rows \ chosen
  BY <1>1
<1>2. ASSUME NEW r \in chosen, q = Restamped(r, t)
      PROVE  q \in Row /\ q.key = r.key /\ q.sid = r.sid /\ q.url = r.url
  <2>1. r \in Row
    OBVIOUS
  <2>2. /\ Restamped(r, t) \in Row
        /\ Restamped(r, t).key = r.key
        /\ Restamped(r, t).sid = r.sid
        /\ Restamped(r, t).url = r.url
    BY <2>1, RestampedRow
  <2>. QED
    BY <1>2, <2>2
<1>. QED
  BY <1>1, <1>2 DEF Stamped

\* The type invariant, with the shape of the calls it rests on.
LEMMA InitTyped == Init => TypeOK /\ CallsFit
<1>. SUFFICES ASSUME Init PROVE TypeOK /\ CallsFit
  OBVIOUS
<1>1. reply \in [Clients -> Reply]
  BY ErrorsAreReplies DEF Init, Errors
<1>2. 0 \in Ticks /\ NoCall \notin CreateCall
  BY ConstantsAssumption, NotBoth DEF Ticks
<1>3. TypeOK
  BY <1>1, <1>2 DEF Init, TypeOK
<1>4. CallsFit
  BY <1>2 DEF Init, CallsFit
<1>. QED
  BY <1>3, <1>4

LEMMA ReturnTyped ==
  ASSUME TypeOK, NEW c \in Clients, NEW r \in Reply, Return(c, r)
  PROVE  /\ mu' \in Clients \cup {NoClient} /\ conn' \in Clients \cup {NoClient}
         /\ pc' \in [Clients -> {"idle", "lock", "begin", "lookup", "write", "commit"}]
         /\ call' \in [Clients -> CreateCall \cup ResolveCall \cup {NoCall}]
         /\ now' \in [Clients -> Ticks]
         /\ reply' \in [Clients -> Reply]
         /\ tx' \subseteq Row
         /\ CallsFit => CallsFit'
<1>1. 0 \in Ticks
  BY ConstantsAssumption DEF Ticks
<1>2. NoCall \notin CreateCall
  BY NotBoth
<1>. QED
  BY <1>1, <1>2 DEF Return, TypeOK, CallsFit

LEMMA NextTyped == TypeOK /\ CallsFit /\ [Next]_vars => TypeOK' /\ CallsFit'
<1>. SUFFICES ASSUME TypeOK, CallsFit, [Next]_vars
              PROVE  TypeOK' /\ CallsFit'
  OBVIOUS
<1>. USE ConstantsAssumption, NotBoth
<1>1. ASSUME NEW c \in Clients, NEW k \in StateKeys, NEW b \in Bases, CallCreate(c, k, b)
      PROVE  TypeOK' /\ CallsFit'
  <2>1. CanonicalCreate(k, b) \in CreateCall
    BY DEF CanonicalCreate, CreateCall, LongURL
  <2>2. CanonicalCreate(k, b).url.state = CanonicalCreate(k, b).key
    BY DEF CanonicalCreate
  <2>. QED
    BY <1>1, <2>1, <2>2
       DEF CallCreate, TypeOK, CallsFit, Reply, Errors, Error, dbVars, lockVars
<1>2. ASSUME NEW c \in Clients, NEW s \in ShortIDs, CallResolve(c, s)
      PROVE  TypeOK' /\ CallsFit'
  <2>1. [op |-> "resolve", sid |-> s] \in ResolveCall
    BY DEF ResolveCall
  <2>. QED
    BY <1>2, <2>1 DEF CallResolve, TypeOK, CallsFit, Reply, Errors, Error, dbVars, lockVars
<1>3. ASSUME NEW c \in Clients, LockWrites(c) PROVE TypeOK' /\ CallsFit'
  BY <1>3 DEF LockWrites, TypeOK, CallsFit, dbVars
<1>4. ASSUME NEW c \in Clients, BeginTx(c) PROVE TypeOK' /\ CallsFit'
  BY <1>4 DEF BeginTx, TypeOK, CallsFit
<1>5. ASSUME NEW c \in Clients, TrimOverflow(c) PROVE TypeOK' /\ CallsFit'
  BY <1>5 DEF TrimOverflow, TypeOK, CallsFit, lockVars
<1>6. ASSUME NEW c \in Clients, UpdateRow(c) PROVE TypeOK' /\ CallsFit'
  <2>1. call[c].url \in LongURL /\ now[c] \in Ticks
    BY <1>6 DEF UpdateRow, TypeOK, CallsFit, CreateCall
  <2>2. tx' \subseteq Row
    <3>1. RowsOfKey(tx, call[c].key) \in SUBSET tx /\ tx \in SUBSET Row
      BY DEF RowsOfKey, TypeOK
    <3>. QED
      BY <1>6, <2>1, <3>1, RefreshedRows DEF UpdateRow
  <2>. QED
    BY <1>6, <2>2 DEF UpdateRow, TypeOK, CallsFit, lockVars
<1>7. ASSUME NEW c \in Clients, InsertRow(c) PROVE TypeOK' /\ CallsFit'
  <2>1. call[c].url \in LongURL /\ call[c].key \in StateKeys /\ now[c] \in Ticks
    BY <1>7 DEF InsertRow, TypeOK, CallsFit, CreateCall
  <2>2. tx' \subseteq Row
    BY <1>7, <2>1 DEF InsertRow, TypeOK, Row
  <2>. QED
    BY <1>7, <2>2 DEF InsertRow, TypeOK, CallsFit, lockVars
<1>8. ASSUME NEW c \in Clients, RefuseCollision(c) PROVE TypeOK' /\ CallsFit'
  <2>1. Error("collision") \in Reply
    BY DEF Error, Reply, Errors
  <2>. QED
    BY <1>8, <2>1, ReturnTyped DEF RefuseCollision, TypeOK
<1>9. ASSUME NEW c \in Clients, RefreshRow(c) PROVE TypeOK' /\ CallsFit'
  <2>1. tx' \subseteq Row
    <3>1. RowsOfID(tx, call[c].sid) \in SUBSET tx /\ tx \in SUBSET Row
      BY DEF RowsOfID, TypeOK
    <3>2. now[c] \in Ticks
      BY DEF TypeOK
    <3>. QED
      BY <1>9, <3>1, <3>2, StampedRows DEF RefreshRow
  <2>. QED
    BY <1>9, <2>1 DEF RefreshRow, TypeOK, CallsFit, lockVars
<1>10. ASSUME NEW c \in Clients, ResolveMiss(c) PROVE TypeOK' /\ CallsFit'
  <2>1. Error("not_found") \in Reply
    BY DEF Error, Reply, Errors
  <2>. QED
    BY <1>10, <2>1, ReturnTyped DEF ResolveMiss, TypeOK
<1>11. ASSUME NEW c \in Clients, CommitCreate(c) PROVE TypeOK' /\ CallsFit'
  <2>1. PICK r \in RowsOfKey(tx, call[c].key) : Return(c, Ok(r.sid, call[c].url))
    BY <1>11 DEF CommitCreate
  <2>2. call[c] \in CreateCall
    BY <1>11 DEF CommitCreate, TypeOK
  <2>3. Ok(r.sid, call[c].url) \in Reply
    BY <2>1, <2>2 DEF TypeOK, RowsOfKey, Row, CreateCall, Ok, Reply, Entry
  <2>. QED
    BY <1>11, <2>1, <2>3, ReturnTyped DEF CommitCreate, TypeOK
<1>12. ASSUME NEW c \in Clients, CommitResolve(c) PROVE TypeOK' /\ CallsFit'
  <2>1. PICK r \in RowsOfID(tx, call[c].sid) : Return(c, Ok(r.sid, r.url))
    BY <1>12 DEF CommitResolve
  <2>2. Ok(r.sid, r.url) \in Reply
    BY <2>1 DEF TypeOK, RowsOfID, Row, Ok, Reply, Entry
  <2>. QED
    BY <1>12, <2>1, <2>2, ReturnTyped DEF CommitResolve, TypeOK
<1>13. ASSUME NEW c \in Clients, Fail(c) PROVE TypeOK' /\ CallsFit'
  <2>1. Error("unavailable") \in Reply
    BY DEF Error, Reply, Errors
  <2>. QED
    BY <1>13, <2>1, ReturnTyped DEF Fail, TypeOK
<1>14. ASSUME Restart PROVE TypeOK' /\ CallsFit'
  <2>1. reply' \in [Clients -> Reply]
    BY <1>14, ErrorsAreReplies DEF Restart, TypeOK, Errors
  <2>2. 0 \in Ticks /\ NoCall \notin CreateCall
    BY DEF Ticks
  <2>. QED
    BY <1>14, <2>1, <2>2 DEF Restart, TypeOK, CallsFit
<1>15. ASSUME Tick PROVE TypeOK' /\ CallsFit'
  BY <1>15 DEF Tick, TypeOK, CallsFit, Ticks, dbVars, lockVars, callVars
<1>16. CASE UNCHANGED vars
  BY <1>16 DEF vars, dbVars, lockVars, callVars, TypeOK, CallsFit
<1>. QED
  BY <1>1, <1>2, <1>3, <1>4, <1>5, <1>6, <1>7, <1>8, <1>9, <1>10, <1>11, <1>12,
     <1>13, <1>14, <1>15, <1>16 DEF Next, Step

\* The store's state always has the types of the program.
THEOREM Typing == Spec => []TypeOK
<1>1. Spec => [](TypeOK /\ CallsFit)
  BY InitTyped, NextTyped, PTL DEF Spec
<1>. QED
  BY <1>1, PTL

-----------------------------------------------------------------------------
(* One state per short id *)

(***************************************************************************)
(* LinksAreBijective speaks of the committed rows; a commit publishes the  *)
(* transaction's rows, so the inductive invariant says it of both.         *)
(***************************************************************************)
BijectiveInv == OneStatePerID(db) /\ OneStatePerID(tx)

LEMMA SubsetKeepsIDs ==
  ASSUME NEW rows, NEW fewer \in SUBSET rows, OneStatePerID(rows)
  PROVE  OneStatePerID(fewer)
BY DEF OneStatePerID

LEMMA RefreshKeepsIDs ==
  ASSUME NEW rows \in SUBSET Row, OneStatePerID(rows),
         NEW k \in StateKeys, NEW u \in LongURL, u.state = k, NEW t \in Ticks
  PROVE  OneStatePerID(Refreshed(rows, RowsOfKey(rows, k), u, t))
<1>. DEFINE chosen == RowsOfKey(rows, k)
            after  == Refreshed(rows, chosen, u, t)
<1>1. chosen \in SUBSET rows
  BY DEF RowsOfKey
<1>2. \A r \in chosen : r.key = k
  BY DEF RowsOfKey
<1>. HIDE DEF chosen
<1>3. ASSUME NEW q \in after
      PROVE  \E r \in rows :
               /\ q.key = r.key /\ q.sid = r.sid
               /\ \/ r \notin chosen /\ q = r
                  \/ r \in chosen /\ q = Rewritten(r, u, t) /\ q.url = u
  BY <1>1, RefreshedRows
<1>. HIDE DEF after
<1>4. ASSUME NEW q \in after PROVE q.sid = ShortIDOf[q.key] /\ q.url.state = q.key
  <2>1. PICK r \in rows :
          /\ q.key = r.key /\ q.sid = r.sid
          /\ \/ r \notin chosen /\ q = r
             \/ r \in chosen /\ q = Rewritten(r, u, t) /\ q.url = u
    BY <1>3
  <2>. QED
    BY <1>2, <2>1 DEF OneStatePerID
<1>5. ASSUME NEW p \in after, NEW q \in after, p.key = q.key \/ p.sid = q.sid
      PROVE  p = q
  <2>1. PICK r \in rows :
          /\ p.key = r.key /\ p.sid = r.sid
          /\ \/ r \notin chosen /\ p = r
             \/ r \in chosen /\ p = Rewritten(r, u, t) /\ p.url = u
    BY <1>3
  <2>2. PICK s \in rows :
          /\ q.key = s.key /\ q.sid = s.sid
          /\ \/ s \notin chosen /\ q = s
             \/ s \in chosen /\ q = Rewritten(s, u, t) /\ q.url = u
    BY <1>3
  <2>3. r = s
    BY <1>5, <2>1, <2>2 DEF OneStatePerID
  <2>. QED
    BY <2>1, <2>2, <2>3
<1>6. OneStatePerID(after)
  BY <1>4, <1>5 DEF OneStatePerID
<1>. QED
  BY <1>6 DEF after, chosen

LEMMA StampKeepsIDs ==
  ASSUME NEW rows \in SUBSET Row, OneStatePerID(rows),
         NEW chosen \in SUBSET rows, NEW t \in Ticks
  PROVE  OneStatePerID(Stamped(rows, chosen, t))
<1>. DEFINE after == Stamped(rows, chosen, t)
<1>1. ASSUME NEW q \in after
      PROVE  \E r \in rows :
               /\ q.key = r.key /\ q.sid = r.sid /\ q.url = r.url
               /\ \/ r \notin chosen /\ q = r
                  \/ r \in chosen /\ q = Restamped(r, t)
  BY StampedRows
<1>. HIDE DEF after
<1>2. ASSUME NEW q \in after PROVE q.sid = ShortIDOf[q.key] /\ q.url.state = q.key
  BY <1>1 DEF OneStatePerID
<1>3. ASSUME NEW p \in after, NEW q \in after, p.key = q.key \/ p.sid = q.sid
      PROVE  p = q
  <2>1. PICK r \in rows :
          /\ p.key = r.key /\ p.sid = r.sid /\ p.url = r.url
          /\ \/ r \notin chosen /\ p = r
             \/ r \in chosen /\ p = Restamped(r, t)
    BY <1>1
  <2>2. PICK s \in rows :
          /\ q.key = s.key /\ q.sid = s.sid /\ q.url = s.url
          /\ \/ s \notin chosen /\ q = s
             \/ s \in chosen /\ q = Restamped(s, t)
    BY <1>1
  <2>3. r = s
    BY <1>3, <2>1, <2>2 DEF OneStatePerID
  <2>. QED
    BY <2>1, <2>2, <2>3
<1>4. OneStatePerID(after)
  BY <1>2, <1>3 DEF OneStatePerID
<1>. QED
  BY <1>4 DEF after

LEMMA InsertKeepsIDs ==
  ASSUME NEW rows, OneStatePerID(rows), NEW row,
         row.sid = ShortIDOf[row.key], row.url.state = row.key,
         RowsOfKey(rows, row.key) = {}, RowsOfID(rows, row.sid) = {}
  PROVE  OneStatePerID(rows \cup {row})
BY DEF OneStatePerID, RowsOfKey, RowsOfID

LEMMA NextBijective ==
  TypeOK /\ CallsFit /\ BijectiveInv /\ [Next]_vars => BijectiveInv'
<1>. SUFFICES ASSUME TypeOK, CallsFit, BijectiveInv, [Next]_vars
              PROVE  BijectiveInv'
  OBVIOUS
<1>. USE DEF BijectiveInv
<1>0. ASSUME NEW c \in Clients, NEW r, Return(c, r) PROVE OneStatePerID(tx')
  BY <1>0 DEF Return, OneStatePerID
<1>1. ASSUME NEW c \in Clients, NEW k \in StateKeys, NEW b \in Bases, CallCreate(c, k, b)
      PROVE  BijectiveInv'
  BY <1>1 DEF CallCreate, dbVars
<1>2. ASSUME NEW c \in Clients, NEW s \in ShortIDs, CallResolve(c, s)
      PROVE  BijectiveInv'
  BY <1>2 DEF CallResolve, dbVars
<1>3. ASSUME NEW c \in Clients, LockWrites(c) PROVE BijectiveInv'
  BY <1>3 DEF LockWrites, dbVars
<1>4. ASSUME NEW c \in Clients, BeginTx(c) PROVE BijectiveInv'
  BY <1>4 DEF BeginTx
<1>5. ASSUME NEW c \in Clients, TrimOverflow(c) PROVE BijectiveInv'
  <2>1. tx' \in SUBSET tx /\ db' = db
    BY <1>5 DEF TrimOverflow
  <2>. QED
    BY <2>1, SubsetKeepsIDs
<1>6. ASSUME NEW c \in Clients, UpdateRow(c) PROVE BijectiveInv'
  <2>1. /\ call[c].key \in StateKeys /\ call[c].url \in LongURL
        /\ call[c].url.state = call[c].key /\ now[c] \in Ticks
        /\ tx \in SUBSET Row
    BY <1>6 DEF UpdateRow, TypeOK, CallsFit, CreateCall
  <2>. QED
    BY <1>6, <2>1, RefreshKeepsIDs DEF UpdateRow
<1>7. ASSUME NEW c \in Clients, InsertRow(c) PROVE BijectiveInv'
  <2>1. call[c].url.state = call[c].key
    BY <1>7 DEF InsertRow, CallsFit
  <2>2. PICK i \in 1 .. MaxRowid :
          tx' = tx \cup {[key |-> call[c].key, sid |-> ShortIDOf[call[c].key],
                          url |-> call[c].url, at |-> now[c], rowid |-> i]}
    BY <1>7 DEF InsertRow
  <2>. DEFINE row == [key |-> call[c].key, sid |-> ShortIDOf[call[c].key],
                      url |-> call[c].url, at |-> now[c], rowid |-> i]
  <2>3. /\ row.key = call[c].key /\ row.sid = ShortIDOf[row.key]
        /\ row.url.state = row.key
    BY <2>1
  <2>4. RowsOfKey(tx, row.key) = {} /\ RowsOfID(tx, row.sid) = {}
    BY <1>7, <2>3 DEF InsertRow
  <2>5. tx' = tx \cup {row} /\ db' = db
    BY <1>7, <2>2 DEF InsertRow
  <2>. HIDE DEF row
  <2>. QED
    BY <2>3, <2>4, <2>5, InsertKeepsIDs
<1>8. ASSUME NEW c \in Clients, RefuseCollision(c) PROVE BijectiveInv'
  BY <1>0, <1>8 DEF RefuseCollision
<1>9. ASSUME NEW c \in Clients, RefreshRow(c) PROVE BijectiveInv'
  <2>1. /\ RowsOfID(tx, call[c].sid) \in SUBSET tx
        /\ tx \in SUBSET Row /\ now[c] \in Ticks
    BY DEF RowsOfID, TypeOK
  <2>. QED
    BY <1>9, <2>1, StampKeepsIDs DEF RefreshRow
<1>10. ASSUME NEW c \in Clients, ResolveMiss(c) PROVE BijectiveInv'
  BY <1>0, <1>10 DEF ResolveMiss
<1>11. ASSUME NEW c \in Clients, CommitCreate(c) PROVE BijectiveInv'
  BY <1>0, <1>11 DEF CommitCreate
<1>12. ASSUME NEW c \in Clients, CommitResolve(c) PROVE BijectiveInv'
  BY <1>0, <1>12 DEF CommitResolve
<1>13. ASSUME NEW c \in Clients, Fail(c) PROVE BijectiveInv'
  BY <1>0, <1>13 DEF Fail
<1>14. ASSUME Restart PROVE BijectiveInv'
  BY <1>14 DEF Restart, OneStatePerID
<1>15. ASSUME Tick PROVE BijectiveInv'
  BY <1>15 DEF Tick, dbVars
<1>16. CASE UNCHANGED vars
  BY <1>16 DEF vars, dbVars
<1>. QED
  BY <1>1, <1>2, <1>3, <1>4, <1>5, <1>6, <1>7, <1>8, <1>9, <1>10, <1>11, <1>12,
     <1>13, <1>14, <1>15, <1>16 DEF Next, Step

\* States and short ids determine each other in the stored table, whatever
\* the calls, failures and restarts, and however many states share a hash.
THEOREM Bijective == Spec => []LinksAreBijective
<1>1. Init => BijectiveInv
  BY DEF Init, BijectiveInv, OneStatePerID
<1>2. BijectiveInv => LinksAreBijective
  BY DEF BijectiveInv, LinksAreBijective
<1>. QED
  BY <1>1, <1>2, InitTyped, NextTyped, NextBijective, PTL DEF Spec

-----------------------------------------------------------------------------
(* Transactions *)

\* Calls with a transaction open are those that hold the connection.
Within == {"lookup", "write", "commit"}

ConnFit == \A c \in Clients : conn = c <=> pc[c] \in Within

\* A create of state k has trimmed the rows it found for the row to come, and
\* no further, in the order of their last access.
TrimmedFor(k, found, rows, cap) ==
  LET room == IF RowsOfKey(found, k) = {} THEN cap - 1 ELSE cap
  IN  /\ rows \subseteq found
      /\ RowsOfKey(rows, k) = RowsOfKey(found, k)
      /\ Cardinality(rows) <= room
      /\ rows = found \/ Cardinality(rows) = room
      /\ \A v \in found \ rows, r \in rows : r.key # k => Second(v.at) <= Second(r.at)

\* It has written its row with URL u: the others are rows there were.
WrittenFor(k, u, found, rows, cap) ==
  /\ \E r \in rows : r.key = k /\ r.url = u
  /\ \A r \in rows : r.key # k => r \in found
  /\ Cardinality(rows) <= cap
  /\ (\A r \in found : r.key # k => r \in rows) \/ Cardinality(rows) = cap
  /\ \A v \in found \ rows, r \in rows :
       v.key # k /\ r.key # k => Second(v.at) <= Second(r.at)

Trimmed(c) == TrimmedFor(call[c].key, db, tx, capacity)
Written(c) == WrittenFor(call[c].key, call[c].url, db, tx, capacity)

\* A resolve has changed one time stamp.
Resolved(c) == tx = Stamped(db, RowsOfID(db, call[c].sid), now[c])

TxFits ==
  \A c \in Clients :
    /\ pc[c] = "lookup" => tx = db
    /\ pc[c] = "write" => Trimmed(c)
    /\ pc[c] = "commit" /\ call[c].op = "create" => Written(c)
    /\ pc[c] = "commit" /\ call[c].op = "resolve" => Resolved(c)

Finite == IsFiniteSet(db) /\ IsFiniteSet(tx)

IInv ==
  /\ TypeOK /\ CallsFit /\ BijectiveInv
  /\ Finite /\ ConnFit /\ TxFits
  /\ OverflowEndsAtFirstWrite

-----------------------------------------------------------------------------
(* Rows and how many there are *)

LEMMA ReplaceElement ==
  ASSUME NEW S, IsFiniteSet(S), NEW x \in S, NEW y, y \notin S \ {x}
  PROVE  /\ IsFiniteSet((S \ {x}) \cup {y})
         /\ Cardinality((S \ {x}) \cup {y}) = Cardinality(S)
<1>1. IsFiniteSet(S \ {x}) /\ Cardinality(S \ {x}) = Cardinality(S) - 1
  BY FS_RemoveElement
<1>2. /\ IsFiniteSet((S \ {x}) \cup {y})
      /\ Cardinality((S \ {x}) \cup {y}) = Cardinality(S \ {x}) + 1
  BY <1>1, FS_AddElement
<1>3. Cardinality(S) \in Nat
  BY FS_CardinalityType
<1>. QED
  BY <1>1, <1>2, <1>3

\* An UPDATE of the one row of a state replaces that row and no other.
LEMMA RefreshedOne ==
  ASSUME NEW rows \in SUBSET Row, IsFiniteSet(rows), OneStatePerID(rows),
         NEW k \in StateKeys, RowsOfKey(rows, k) # {},
         NEW u \in LongURL, NEW t \in Ticks
  PROVE  LET after == Refreshed(rows, RowsOfKey(rows, k), u, t)
         IN  /\ IsFiniteSet(after)
             /\ Cardinality(after) = Cardinality(rows)
             /\ \E q \in after : q.key = k /\ q.url = u
             /\ \A q \in after : q.key # k => q \in rows
             /\ \A q \in rows : q.key # k => q \in after
<1>1. PICK x \in rows : x.key = k
  BY DEF RowsOfKey
<1>2. RowsOfKey(rows, k) = {x}
  BY <1>1 DEF RowsOfKey, OneStatePerID
<1>. DEFINE y == Rewritten(x, u, t)
<1>3. y.key = k /\ y.url = u
  BY <1>1, RewrittenRow
<1>4. Refreshed(rows, RowsOfKey(rows, k), u, t) = (rows \ {x}) \cup {y}
  BY <1>2 DEF Refreshed
<1>. HIDE DEF y
<1>5. y \notin rows \ {x}
  BY <1>1, <1>3 DEF OneStatePerID
<1>6. /\ IsFiniteSet((rows \ {x}) \cup {y})
      /\ Cardinality((rows \ {x}) \cup {y}) = Cardinality(rows)
  BY <1>5, ReplaceElement
<1>. QED
  BY <1>1, <1>3, <1>4, <1>6

\* So does a change of its time stamp, which is no part of its link.
LEMMA StampedOne ==
  ASSUME NEW rows \in SUBSET Row, IsFiniteSet(rows), OneStatePerID(rows),
         NEW s, NEW t \in Ticks
  PROVE  LET after == Stamped(rows, RowsOfID(rows, s), t)
         IN  /\ IsFiniteSet(after)
             /\ Cardinality(after) = Cardinality(rows)
<1>1. CASE RowsOfID(rows, s) = {}
  <2>1. Stamped(rows, RowsOfID(rows, s), t) = rows
    BY <1>1 DEF Stamped
  <2>. QED
    BY <2>1
<1>2. CASE RowsOfID(rows, s) # {}
  <2>1. PICK x \in rows : x.sid = s
    BY <1>2 DEF RowsOfID
  <2>2. RowsOfID(rows, s) = {x}
    BY <2>1 DEF RowsOfID, OneStatePerID
  <2>. DEFINE y == Restamped(x, t)
  <2>3. y.sid = s
    BY <2>1, RestampedRow
  <2>4. Stamped(rows, RowsOfID(rows, s), t) = (rows \ {x}) \cup {y}
    BY <2>2 DEF Stamped
  <2>. HIDE DEF y
  <2>5. y \notin rows \ {x}
    BY <2>1, <2>3 DEF OneStatePerID
  <2>. QED
    BY <2>4, <2>5, ReplaceElement
<1>. QED
  BY <1>1, <1>2

\* Every row is still there under its key after its stamp was changed.
LEMMA StampedKeepsLinks ==
  ASSUME NEW rows \in SUBSET Row, NEW chosen \in SUBSET rows, NEW t \in Ticks
  PROVE  /\ \A q \in Stamped(rows, chosen, t) :
              \E r \in rows : q.key = r.key /\ q.sid = r.sid /\ q.url = r.url
         /\ \A r \in rows :
              \E q \in Stamped(rows, chosen, t) : q.key = r.key /\ q.sid = r.sid /\ q.url = r.url
<1>1. ASSUME NEW r \in rows
      PROVE  \E q \in Stamped(rows, chosen, t) :
               q.key = r.key /\ q.sid = r.sid /\ q.url = r.url
  <2>1. CASE r \in chosen
    <3>1. Restamped(r, t) \in Stamped(rows, chosen, t)
      BY <2>1 DEF Stamped
    <3>2. /\ Restamped(r, t).key = r.key
          /\ Restamped(r, t).sid = r.sid
          /\ Restamped(r, t).url = r.url
      BY RestampedRow
    <3>. QED
      BY <3>1, <3>2
  <2>2. CASE r \notin chosen
    BY <2>2 DEF Stamped
  <2>. QED
    BY <2>1, <2>2
<1>. QED
  BY <1>1, StampedRows

\* A trim takes away exactly the excess.
LEMMA TrimSize ==
  ASSUME NEW rows, IsFiniteSet(rows), NEW target \in Nat, NEW spared,
         NEW victims, IsTrim(victims, rows, target, spared)
  PROVE  /\ victims \in SUBSET (rows \ spared)
         /\ Cardinality(rows \ victims) <= target
         /\ rows \ victims = rows \/ Cardinality(rows \ victims) = target
         /\ \A v \in victims, r \in (rows \ spared) \ victims : OrderedBefore(v, r)
<1>1. victims \in SUBSET (rows \ spared) /\ rows \cap victims = victims
  BY DEF IsTrim
<1>2. /\ Cardinality(rows) \in Nat
      /\ Cardinality(rows \ victims) = Cardinality(rows) - Cardinality(victims)
  BY <1>1, FS_Difference, FS_CardinalityType
<1>3. CASE Cardinality(rows) <= target
  <2>1. rows \ victims = rows
    BY <1>3 DEF IsTrim
  <2>. QED
    BY <1>1, <1>3, <2>1 DEF IsTrim
<1>4. CASE ~(Cardinality(rows) <= target)
  <2>1. Cardinality(victims) = Cardinality(rows) - target
    BY <1>4 DEF IsTrim
  <2>. QED
    BY <1>1, <1>2, <2>1 DEF IsTrim
<1>. QED
  BY <1>3, <1>4

\* Time stamps that are ordered as text are ordered by their seconds.
LEMMA SecondsOrdered ==
  ASSUME NEW v \in Row, NEW r \in Row, OrderedBefore(v, r)
  PROVE  Second(v.at) <= Second(r.at)
<1>1. v.at \in Nat /\ r.at \in Nat /\ Radix \in Nat /\ Radix > 0
  BY ConstantsAssumption DEF Row, Ticks
<1>2. Radix * Radix \in Nat /\ Radix * Radix > 0
  BY <1>1
<1>3. \A t \in Nat, d \in Nat : d > 0 => t \div d \in Int
  OBVIOUS
<1>4. Second(v.at) \in Int /\ Second(r.at) \in Int
  BY <1>1, <1>2, <1>3 DEF Second
<1>5. Second(v.at) < Second(r.at) \/ Second(v.at) = Second(r.at)
  BY DEF OrderedBefore, TextBefore
<1>. QED
  BY <1>4, <1>5

-----------------------------------------------------------------------------
(* The invariant *)

\* While a call has the transaction, no other has one.
LEMMA OneTransaction ==
  ASSUME ConnFit, NEW c \in Clients, pc[c] \in Within, NEW d \in Clients, d # c
  PROVE  pc[d] \notin Within
BY DEF ConnFit

\* A call in a transaction that ends leaves no transaction.
LEMMA TransactionEnds ==
  ASSUME TypeOK, ConnFit, NEW c \in Clients, NEW r, pc[c] \in Within, Return(c, r)
  PROVE  ConnFit' /\ TxFits' /\ IsFiniteSet(tx')
<1>1. conn = c
  BY DEF ConnFit
<1>2. \A d \in Clients : pc'[d] \notin Within
  BY OneTransaction DEF Return, TypeOK, Within
<1>3. conn' = NoClient /\ tx' = {}
  BY <1>1 DEF Return
<1>4. ConnFit'
  BY <1>2, <1>3, ConstantsAssumption DEF ConnFit
<1>5. TxFits'
  BY <1>2 DEF TxFits, Within
<1>. QED
  BY <1>3, <1>4, <1>5, FS_EmptySet

\* A call that ends without writing leaves everything in place.
LEMMA ReturnFits ==
  ASSUME IInv, NEW c \in Clients, NEW r, Return(c, r), db' = db, capacity' = capacity
  PROVE  Finite' /\ ConnFit' /\ TxFits'
<1>. USE DEF IInv
<1>1. CASE pc[c] \in Within
  BY <1>1, TransactionEnds DEF Finite
<1>2. CASE pc[c] \notin Within
  <2>1. conn # c
    BY <1>2 DEF ConnFit
  <2>2. tx' = tx /\ conn' = conn /\ pc' = [pc EXCEPT ![c] = "idle"]
    BY <2>1 DEF Return
  <2>3. /\ pc'[c] = "idle"
        /\ \A d \in Clients \ {c} : pc'[d] = pc[d] /\ call'[d] = call[d] /\ now'[d] = now[d]
    BY <2>2 DEF Return, TypeOK
  <2>4. ConnFit'
    BY <1>2, <2>2, <2>3 DEF ConnFit, Within
  <2>5. TxFits'
    BY <2>2, <2>3 DEF TxFits, Trimmed, Written, Resolved
  <2>. QED
    BY <2>2, <2>4, <2>5 DEF Finite
<1>. QED
  BY <1>1, <1>2

\* A step within c's transaction concerns no other call.
LEMMA StepWithin ==
  ASSUME TypeOK, ConnFit, NEW c \in Clients, pc[c] \in Within,
         NEW p \in Within, pc' = [pc EXCEPT ![c] = p], conn' = conn
  PROVE  /\ ConnFit'
         /\ pc'[c] = p
         /\ \A d \in Clients \ {c} : pc'[d] \notin Within
<1>1. pc'[c] = p /\ \A d \in Clients \ {c} : pc'[d] = pc[d]
  BY DEF TypeOK
<1>2. \A d \in Clients \ {c} : pc'[d] \notin Within
  BY <1>1, OneTransaction
<1>3. ConnFit'
  BY <1>1 DEF ConnFit
<1>. QED
  BY <1>1, <1>2, <1>3

\* A step of c outside any transaction concerns no transaction.
LEMMA StepOutside ==
  ASSUME TypeOK, ConnFit, TxFits, NEW c \in Clients, pc[c] \notin Within,
         NEW p, p \notin Within, pc' = [pc EXCEPT ![c] = p],
         \A d \in Clients \ {c} : call'[d] = call[d] /\ now'[d] = now[d],
         db' = db, tx' = tx, capacity' = capacity, conn' = conn
  PROVE  ConnFit' /\ TxFits'
<1>1. pc'[c] = p /\ \A d \in Clients \ {c} : pc'[d] = pc[d]
  BY DEF TypeOK
<1>2. ConnFit'
  BY <1>1 DEF ConnFit
<1>3. TxFits'
  BY <1>1 DEF TxFits, Trimmed, Written, Resolved, Within
<1>. QED
  BY <1>2, <1>3

LEMMA TrimFits ==
  ASSUME IInv, NEW c \in Clients, TrimOverflow(c)
  PROVE  Finite' /\ ConnFit' /\ TxFits'
<1>. USE DEF IInv
<1>. DEFINE k        == call[c].key
            existing == RowsOfKey(tx, k)
            target   == IF existing = {} THEN capacity - 1 ELSE capacity
<1>1. tx = db
  BY DEF TrimOverflow, TxFits
<1>2. PICK victims \in SUBSET tx :
        IsTrim(victims, tx, target, existing) /\ tx' = tx \ victims
  BY DEF TrimOverflow
<1>3. target \in Nat
  BY ConstantsAssumption DEF TypeOK
<1>. HIDE DEF target, existing
<1>3a. IsFiniteSet(tx) /\ IsTrim(victims, tx, target, existing)
  BY <1>2 DEF Finite
<1>4. /\ victims \in SUBSET (tx \ existing)
      /\ Cardinality(tx \ victims) <= target
      /\ tx \ victims = tx \/ Cardinality(tx \ victims) = target
      /\ \A v \in victims, r \in (tx \ existing) \ victims : OrderedBefore(v, r)
  BY <1>3a, <1>3, TrimSize
<1>5. RowsOfKey(tx', k) = RowsOfKey(db, k)
  BY <1>1, <1>2, <1>4 DEF RowsOfKey, existing
<1>6. db' = db /\ call' = call /\ capacity' = capacity
  BY DEF TrimOverflow
<1>7. \A v \in db \ tx', r \in tx' : r.key # k => Second(v.at) <= Second(r.at)
  <2>1. ASSUME NEW v \in db \ tx', NEW r \in tx', r.key # k
        PROVE  v \in Row /\ r \in Row /\ OrderedBefore(v, r)
    <3>1. v \in victims /\ r \in (tx \ existing) \ victims
      BY <1>1, <1>2, <2>1 DEF RowsOfKey, existing
    <3>2. OrderedBefore(v, r)
      BY <1>4, <3>1
    <3>3. v \in Row /\ r \in Row
      BY <1>1, <1>2, <3>1 DEF TypeOK
    <3>. QED
      BY <3>2, <3>3
  <2>. QED
    BY <2>1, SecondsOrdered
<1>8. Trimmed(c)'
  BY <1>1, <1>2, <1>4, <1>5, <1>6, <1>7 DEF Trimmed, TrimmedFor, target, existing
<1>9. /\ ConnFit'
      /\ pc'[c] = "write"
      /\ \A d \in Clients \ {c} : pc'[d] \notin Within
  BY StepWithin DEF TrimOverflow, Within, lockVars
<1>10. TxFits'
  BY <1>8, <1>9 DEF TxFits, Within
<1>11. Finite'
  BY <1>2, <1>6, FS_Subset DEF Finite
<1>. QED
  BY <1>9, <1>10, <1>11

LEMMA UpdateFits ==
  ASSUME IInv, NEW c \in Clients, UpdateRow(c)
  PROVE  Finite' /\ ConnFit' /\ TxFits'
<1>. USE DEF IInv
<1>. DEFINE k == call[c].key
<1>1. /\ call[c] \in CreateCall /\ k \in StateKeys
      /\ call[c].url \in LongURL /\ now[c] \in Ticks
  BY DEF UpdateRow, TypeOK, CallsFit, CreateCall
<1>2. Trimmed(c)
  BY DEF UpdateRow, TxFits
<1>3. /\ RowsOfKey(tx, k) # {}
      /\ tx' = Refreshed(tx, RowsOfKey(tx, k), call[c].url, now[c])
      /\ UNCHANGED <<db, capacity, call, now>>
  BY DEF UpdateRow
<1>4. tx \in SUBSET Row /\ IsFiniteSet(tx) /\ OneStatePerID(tx)
  BY DEF TypeOK, Finite, BijectiveInv
<1>5. /\ IsFiniteSet(tx')
      /\ Cardinality(tx') = Cardinality(tx)
      /\ \E q \in tx' : q.key = k /\ q.url = call[c].url
      /\ \A q \in tx' : q.key # k => q \in tx
      /\ \A q \in tx : q.key # k => q \in tx'
  BY <1>1, <1>3, <1>4, RefreshedOne
<1>6. /\ tx \subseteq db /\ Cardinality(tx) <= capacity
      /\ tx = db \/ Cardinality(tx) = capacity
      /\ \A v \in db \ tx, r \in tx : r.key # k => Second(v.at) <= Second(r.at)
  BY <1>2, <1>3 DEF Trimmed, TrimmedFor
<1>7. Written(c)'
  BY <1>3, <1>5, <1>6 DEF Written, WrittenFor
<1>8. /\ ConnFit'
      /\ pc'[c] = "commit"
      /\ \A d \in Clients \ {c} : pc'[d] \notin Within
  BY StepWithin DEF UpdateRow, Within, lockVars
<1>9. call'[c].op = "create"
  BY <1>1, <1>3, NotBoth
<1>10. TxFits'
  BY <1>7, <1>8, <1>9 DEF TxFits, Within
<1>. QED
  BY <1>3, <1>5, <1>8, <1>10 DEF Finite

LEMMA InsertFits ==
  ASSUME IInv, NEW c \in Clients, InsertRow(c)
  PROVE  Finite' /\ ConnFit' /\ TxFits'
<1>. USE DEF IInv
<1>. DEFINE k == call[c].key
<1>1. call[c] \in CreateCall
  BY DEF InsertRow, CallsFit
<1>2. Trimmed(c)
  BY DEF InsertRow, TxFits
<1>3. PICK i \in 1 .. MaxRowid :
        tx' = tx \cup {[key |-> call[c].key, sid |-> ShortIDOf[call[c].key],
                        url |-> call[c].url, at |-> now[c], rowid |-> i]}
  BY DEF InsertRow
<1>. DEFINE row == [key |-> call[c].key, sid |-> ShortIDOf[call[c].key],
                    url |-> call[c].url, at |-> now[c], rowid |-> i]
<1>4. row.key = k /\ row.url = call[c].url /\ tx' = tx \cup {row}
  BY <1>3
<1>. HIDE DEF row
<1>5. RowsOfKey(tx, k) = {} /\ UNCHANGED <<db, capacity, call, now>>
  BY DEF InsertRow
<1>6. row \notin tx
  BY <1>4, <1>5 DEF RowsOfKey
<1>7. IsFiniteSet(tx') /\ Cardinality(tx') = Cardinality(tx) + 1 /\ Cardinality(tx) \in Nat
  BY <1>4, <1>6, FS_AddElement, FS_CardinalityType DEF Finite
<1>8. /\ tx \subseteq db /\ Cardinality(tx) <= capacity - 1
      /\ tx = db \/ Cardinality(tx) = capacity - 1
      /\ \A v \in db \ tx, r \in tx : r.key # k => Second(v.at) <= Second(r.at)
  BY <1>2, <1>5 DEF Trimmed, TrimmedFor
<1>9. capacity \in Nat
  BY ConstantsAssumption DEF TypeOK
<1>10. /\ Cardinality(tx') <= capacity
       /\ tx = db \/ Cardinality(tx') = capacity
  BY <1>7, <1>8, <1>9
<1>11. Written(c)'
  BY <1>4, <1>5, <1>8, <1>10 DEF Written, WrittenFor
<1>12. /\ ConnFit'
       /\ pc'[c] = "commit"
       /\ \A d \in Clients \ {c} : pc'[d] \notin Within
  BY StepWithin DEF InsertRow, Within, lockVars
<1>13. call'[c].op = "create"
  BY <1>1, <1>5, NotBoth
<1>14. TxFits'
  BY <1>11, <1>12, <1>13 DEF TxFits, Within
<1>. QED
  BY <1>5, <1>7, <1>12, <1>14 DEF Finite

LEMMA RefreshFits ==
  ASSUME IInv, NEW c \in Clients, RefreshRow(c)
  PROVE  Finite' /\ ConnFit' /\ TxFits'
<1>. USE DEF IInv
<1>1. tx = db
  BY DEF RefreshRow, TxFits
<1>2. /\ tx' = Stamped(tx, RowsOfID(tx, call[c].sid), now[c])
      /\ call[c].op = "resolve"
      /\ UNCHANGED <<db, call, now>>
  BY DEF RefreshRow
<1>3. Resolved(c)'
  BY <1>1, <1>2 DEF Resolved
<1>4. /\ ConnFit'
      /\ pc'[c] = "commit"
      /\ \A d \in Clients \ {c} : pc'[d] \notin Within
  BY StepWithin DEF RefreshRow, Within, lockVars
<1>5. TxFits'
  BY <1>2, <1>3, <1>4 DEF TxFits, Within
<1>6. tx \in SUBSET Row /\ OneStatePerID(tx) /\ IsFiniteSet(tx) /\ now[c] \in Ticks
  BY DEF TypeOK, BijectiveInv, Finite
<1>7. IsFiniteSet(tx')
  BY <1>2, <1>6, StampedOne
<1>. QED
  BY <1>2, <1>4, <1>5, <1>7 DEF Finite

LEMMA BeginFits ==
  ASSUME IInv, NEW c \in Clients, BeginTx(c)
  PROVE  Finite' /\ ConnFit' /\ TxFits'
<1>. USE DEF IInv
<1>1. conn = NoClient /\ conn' = c /\ tx' = db /\ db' = db
  BY DEF BeginTx
<1>2. pc'[c] = "lookup" /\ \A d \in Clients \ {c} : pc'[d] = pc[d]
  BY DEF BeginTx, TypeOK
<1>3. \A d \in Clients : pc[d] \notin Within
  BY <1>1, ConstantsAssumption DEF ConnFit
<1>4. ConnFit'
  BY <1>1, <1>2, <1>3 DEF ConnFit, Within
<1>5. TxFits'
  BY <1>1, <1>2, <1>3 DEF TxFits, Within
<1>. QED
  BY <1>1, <1>4, <1>5 DEF Finite

\* What a commit of a create, and of a resolve, has to show for itself.
LEMMA CreateCommits ==
  ASSUME IInv, NEW c \in Clients, CommitCreate(c)
  PROVE  /\ Finite' /\ ConnFit' /\ TxFits'
         /\ Written(c) /\ db' = tx /\ capacity' = capacity
<1>. USE DEF IInv
<1>1. PICK r : Return(c, r)
  BY DEF CommitCreate
<1>2. pc[c] \in Within /\ db' = tx /\ capacity' = capacity
  BY DEF CommitCreate, Within
<1>3. Written(c)
  BY DEF CommitCreate, TxFits
<1>4. ConnFit' /\ TxFits' /\ IsFiniteSet(tx')
  BY <1>1, <1>2, TransactionEnds
<1>. QED
  BY <1>2, <1>3, <1>4 DEF Finite

LEMMA ResolveCommits ==
  ASSUME IInv, NEW c \in Clients, CommitResolve(c)
  PROVE  /\ Finite' /\ ConnFit' /\ TxFits'
         /\ Resolved(c) /\ db' = tx /\ UNCHANGED <<capacity, written>>
         /\ Cardinality(db') = Cardinality(db)
<1>. USE DEF IInv
<1>1. PICK r : Return(c, r)
  BY DEF CommitResolve
<1>2. pc[c] \in Within /\ db' = tx /\ UNCHANGED <<capacity, written>>
  BY DEF CommitResolve, Within
<1>3. Resolved(c)
  BY DEF CommitResolve, TxFits
<1>4. ConnFit' /\ TxFits' /\ IsFiniteSet(tx')
  BY <1>1, <1>2, TransactionEnds
<1>5. db \in SUBSET Row /\ OneStatePerID(db) /\ IsFiniteSet(db) /\ now[c] \in Ticks
  BY DEF TypeOK, BijectiveInv, Finite
<1>6. Cardinality(db') = Cardinality(db)
  BY <1>2, <1>3, <1>5, StampedOne DEF Resolved
<1>. QED
  BY <1>2, <1>3, <1>4, <1>6 DEF Finite

LEMMA NextFits ==
  IInv /\ [Next]_vars => Finite' /\ ConnFit' /\ TxFits' /\ OverflowEndsAtFirstWrite'
<1>. SUFFICES ASSUME IInv, [Next]_vars
              PROVE  Finite' /\ ConnFit' /\ TxFits' /\ OverflowEndsAtFirstWrite'
  OBVIOUS
<1>. DEFINE Goal == Finite' /\ ConnFit' /\ TxFits' /\ OverflowEndsAtFirstWrite'
<1>0. ASSUME db' = db, capacity' = capacity, written' = written
      PROVE  OverflowEndsAtFirstWrite'
  BY <1>0 DEF IInv, OverflowEndsAtFirstWrite, StorageStats
<1>1. ASSUME NEW c \in Clients, NEW k \in StateKeys, NEW b \in Bases, CallCreate(c, k, b)
      PROVE  Goal
  <2>1. /\ pc[c] = "idle" /\ pc' = [pc EXCEPT ![c] = "lock"]
        /\ \A d \in Clients \ {c} : call'[d] = call[d] /\ now'[d] = now[d]
        /\ UNCHANGED <<db, tx, capacity, conn, written>>
    BY <1>1 DEF CallCreate, IInv, TypeOK, dbVars, lockVars
  <2>. QED
    BY <1>0, <2>1, StepOutside DEF IInv, Finite, Within
<1>2. ASSUME NEW c \in Clients, NEW s \in ShortIDs, CallResolve(c, s)
      PROVE  Goal
  <2>1. /\ pc[c] = "idle" /\ pc' = [pc EXCEPT ![c] = "begin"]
        /\ \A d \in Clients \ {c} : call'[d] = call[d] /\ now'[d] = now[d]
        /\ UNCHANGED <<db, tx, capacity, conn, written>>
    BY <1>2 DEF CallResolve, IInv, TypeOK, dbVars, lockVars
  <2>. QED
    BY <1>0, <2>1, StepOutside DEF IInv, Finite, Within
<1>3. ASSUME NEW c \in Clients, LockWrites(c) PROVE Goal
  <2>1. /\ pc[c] = "lock" /\ pc' = [pc EXCEPT ![c] = "begin"]
        /\ \A d \in Clients \ {c} : call'[d] = call[d] /\ now'[d] = now[d]
        /\ UNCHANGED <<db, tx, capacity, conn, written>>
    BY <1>3 DEF LockWrites, IInv, TypeOK, dbVars
  <2>. QED
    BY <1>0, <2>1, StepOutside DEF IInv, Finite, Within
<1>4. ASSUME NEW c \in Clients, BeginTx(c) PROVE Goal
  BY <1>0, <1>4, BeginFits DEF BeginTx
<1>5. ASSUME NEW c \in Clients, TrimOverflow(c) PROVE Goal
  BY <1>0, <1>5, TrimFits DEF TrimOverflow
<1>6. ASSUME NEW c \in Clients, UpdateRow(c) PROVE Goal
  BY <1>0, <1>6, UpdateFits DEF UpdateRow
<1>7. ASSUME NEW c \in Clients, InsertRow(c) PROVE Goal
  BY <1>0, <1>7, InsertFits DEF InsertRow
<1>8. ASSUME NEW c \in Clients, RefuseCollision(c) PROVE Goal
  BY <1>0, <1>8, ReturnFits DEF RefuseCollision
<1>9. ASSUME NEW c \in Clients, RefreshRow(c) PROVE Goal
  BY <1>0, <1>9, RefreshFits DEF RefreshRow
<1>10. ASSUME NEW c \in Clients, ResolveMiss(c) PROVE Goal
  BY <1>0, <1>10, ReturnFits DEF ResolveMiss
<1>11. ASSUME NEW c \in Clients, CommitCreate(c) PROVE Goal
  <2>1. Cardinality(db') <= capacity'
    BY <1>11, CreateCommits DEF Written, WrittenFor
  <2>2. OverflowEndsAtFirstWrite'
    BY <2>1 DEF OverflowEndsAtFirstWrite, StorageStats
  <2>. QED
    BY <1>11, <2>2, CreateCommits
<1>12. ASSUME NEW c \in Clients, CommitResolve(c) PROVE Goal
  <2>1. Cardinality(db') = Cardinality(db) /\ capacity' = capacity /\ written' = written
    BY <1>12, ResolveCommits
  <2>2. OverflowEndsAtFirstWrite'
    BY <2>1 DEF IInv, OverflowEndsAtFirstWrite, StorageStats
  <2>. QED
    BY <1>12, <2>2, ResolveCommits
<1>13. ASSUME NEW c \in Clients, Fail(c) PROVE Goal
  BY <1>0, <1>13, ReturnFits DEF Fail
<1>14. ASSUME Restart PROVE Goal
  <2>1. /\ conn' = NoClient /\ tx' = {} /\ db' = db /\ written' = FALSE
        /\ \A c \in Clients : pc'[c] = "idle"
    BY <1>14 DEF Restart
  <2>2. ConnFit'
    BY <2>1, ConstantsAssumption DEF ConnFit, Within
  <2>3. TxFits'
    BY <2>1 DEF TxFits
  <2>. QED
    BY <2>1, <2>2, <2>3, FS_EmptySet DEF IInv, Finite, OverflowEndsAtFirstWrite
<1>15. ASSUME UNCHANGED <<dbVars, lockVars, callVars, written>> PROVE Goal
  <2>1. UNCHANGED <<db, tx, capacity, conn, pc, call, now, written>>
    BY <1>15 DEF dbVars, lockVars, callVars
  <2>2. Finite' /\ ConnFit'
    BY <2>1 DEF IInv, Finite, ConnFit
  <2>3. TxFits'
    BY <2>1 DEF IInv, TxFits, Trimmed, Written, Resolved
  <2>. QED
    BY <1>0, <2>1, <2>2, <2>3
<1>16. CASE Tick
  BY <1>15, <1>16 DEF Tick
<1>17. CASE UNCHANGED vars
  BY <1>15, <1>17 DEF vars
<1>. QED
  BY <1>1, <1>2, <1>3, <1>4, <1>5, <1>6, <1>7, <1>8, <1>9, <1>10, <1>11, <1>12,
     <1>13, <1>14, <1>16, <1>17 DEF Next, Step

\* The invariant: at each point of a call its transaction holds what the code
\* has made of the committed rows, and a write has ended any overflow.
THEOREM Inductive == Spec => []IInv
<1>1. Init => IInv
  <2>1. Init => BijectiveInv
    BY DEF Init, BijectiveInv, OneStatePerID
  <2>2. Init => Finite /\ ConnFit /\ TxFits /\ OverflowEndsAtFirstWrite
    BY FS_EmptySet, ConstantsAssumption
       DEF Init, Finite, ConnFit, Within, TxFits, OverflowEndsAtFirstWrite
  <2>. QED
    BY <2>1, <2>2, InitTyped DEF IInv
<1>2. IInv /\ [Next]_vars => IInv'
  BY NextTyped, NextBijective, NextFits DEF IInv
<1>. QED
  BY <1>1, <1>2, PTL DEF Spec

\* A write leaves the table within its capacity, until the next restart
\* (trimOverflowBeforeWrite and the transaction of CreateOrGet).
THEOREM OverflowEnds == Spec => []OverflowEndsAtFirstWrite
BY Inductive, PTL DEF IInv

-----------------------------------------------------------------------------
(* Answers *)

\* A call under way has no answer yet, so an answer comes from its last step.
Unanswered == \A c \in Clients : pc[c] # "idle" => reply[c] = Error("none")

LEMMA NextUnanswered == TypeOK /\ Unanswered /\ [Next]_vars => Unanswered'
<1>. SUFFICES ASSUME TypeOK, Unanswered, [Next]_vars PROVE Unanswered'
  OBVIOUS
<1>. USE DEF TypeOK, Unanswered
<1>0. ASSUME NEW c \in Clients, NEW r, Return(c, r) PROVE Unanswered'
  BY <1>0 DEF Return
<1>1. ASSUME NEW c \in Clients, NEW k \in StateKeys, NEW b \in Bases, CallCreate(c, k, b)
      PROVE  Unanswered'
  BY <1>1 DEF CallCreate
<1>2. ASSUME NEW c \in Clients, NEW s \in ShortIDs, CallResolve(c, s)
      PROVE  Unanswered'
  BY <1>2 DEF CallResolve
<1>3. ASSUME NEW c \in Clients, LockWrites(c) PROVE Unanswered'
  BY <1>3 DEF LockWrites
<1>4. ASSUME NEW c \in Clients, BeginTx(c) PROVE Unanswered'
  BY <1>4 DEF BeginTx
<1>5. ASSUME NEW c \in Clients, TrimOverflow(c) PROVE Unanswered'
  BY <1>5 DEF TrimOverflow
<1>6. ASSUME NEW c \in Clients, UpdateRow(c) PROVE Unanswered'
  BY <1>6 DEF UpdateRow
<1>7. ASSUME NEW c \in Clients, InsertRow(c) PROVE Unanswered'
  BY <1>7 DEF InsertRow
<1>8. ASSUME NEW c \in Clients, RefreshRow(c) PROVE Unanswered'
  BY <1>8 DEF RefreshRow
<1>9. ASSUME NEW c \in Clients,
             RefuseCollision(c) \/ ResolveMiss(c) \/ CommitCreate(c)
               \/ CommitResolve(c) \/ Fail(c)
      PROVE  Unanswered'
  BY <1>0, <1>9 DEF RefuseCollision, ResolveMiss, CommitCreate, CommitResolve, Fail
<1>10. CASE Restart
  BY <1>10 DEF Restart
<1>11. CASE Tick \/ UNCHANGED vars
  BY <1>11 DEF Tick, vars, callVars
<1>. QED
  BY <1>1, <1>2, <1>3, <1>4, <1>5, <1>6, <1>7, <1>8, <1>9, <1>10, <1>11 DEF Next, Step

LEMMA AlwaysUnanswered == Spec => []Unanswered
<1>1. Init => Unanswered
  BY DEF Init, Unanswered
<1>. QED
  BY <1>1, InitTyped, NextTyped, NextUnanswered, PTL DEF Spec

Ends(c) == pc[c] # "idle" /\ pc'[c] = "idle"

\* Every way in which the call of c may end, or get the answer "ok".
LEMMA WaysToEnd ==
  ASSUME TypeOK, Unanswered, [Next]_vars, NEW c \in Clients,
         pc[c] # "idle", Ends(c) \/ reply'[c].status = "ok"
  PROVE  \/ CommitCreate(c)
         \/ CommitResolve(c)
         \/ ResolveMiss(c)
         \/ RefuseCollision(c)
         \/ Fail(c)
         \/ Restart
<1>. USE DEF TypeOK, Unanswered, Ends, Error
<1>1. ASSUME NEW d \in Clients, NEW k \in StateKeys, NEW b \in Bases, CallCreate(d, k, b)
      PROVE  FALSE
  BY <1>1 DEF CallCreate
<1>2. ASSUME NEW d \in Clients, NEW s \in ShortIDs, CallResolve(d, s)
      PROVE  FALSE
  BY <1>2 DEF CallResolve
<1>3. ASSUME NEW d \in Clients, LockWrites(d) PROVE FALSE
  BY <1>3 DEF LockWrites
<1>4. ASSUME NEW d \in Clients, BeginTx(d) PROVE FALSE
  BY <1>4 DEF BeginTx
<1>5. ASSUME NEW d \in Clients, TrimOverflow(d) PROVE FALSE
  BY <1>5 DEF TrimOverflow
<1>6. ASSUME NEW d \in Clients, UpdateRow(d) PROVE FALSE
  BY <1>6 DEF UpdateRow
<1>7. ASSUME NEW d \in Clients, InsertRow(d) PROVE FALSE
  BY <1>7 DEF InsertRow
<1>8. ASSUME NEW d \in Clients, RefreshRow(d) PROVE FALSE
  BY <1>8 DEF RefreshRow
<1>9. ASSUME NEW d \in Clients, NEW r, Return(d, r) PROVE c = d
  BY <1>9 DEF Return
<1>10. CASE Tick \/ UNCHANGED vars
  BY <1>10 DEF Tick, vars, callVars
<1>11. ASSUME NEW d \in Clients,
              RefuseCollision(d) \/ ResolveMiss(d) \/ CommitCreate(d)
                \/ CommitResolve(d) \/ Fail(d)
       PROVE  c = d
  BY <1>9, <1>11 DEF RefuseCollision, ResolveMiss, CommitCreate, CommitResolve, Fail
<1>. QED
  BY <1>1, <1>2, <1>3, <1>4, <1>5, <1>6, <1>7, <1>8, <1>10, <1>11 DEF Next, Step

\* The answers of the five ways, and what they do to the table.
LEMMA CreateAnswers ==
  ASSUME IInv, NEW c \in Clients, CommitCreate(c)
  PROVE  /\ call[c].op = "create" /\ reply'[c].status = "ok"
         /\ reply'[c].entry.url = call[c].url
         /\ Holds(db', reply'[c].entry)
<1>1. PICK r \in RowsOfKey(tx, call[c].key) : Return(c, Ok(r.sid, call[c].url))
  BY DEF CommitCreate
<1>2. reply'[c] = Ok(r.sid, call[c].url)
  BY <1>1 DEF Return, IInv, TypeOK
<1>3. PICK q \in tx : q.key = call[c].key /\ q.url = call[c].url
  BY CreateCommits DEF Written, WrittenFor
<1>4. q = r
  BY <1>1, <1>3 DEF IInv, BijectiveInv, OneStatePerID, RowsOfKey
<1>5. db' = tx
  BY DEF CommitCreate
<1>. QED
  BY <1>2, <1>3, <1>4, <1>5 DEF Ok, Holds, CommitCreate

LEMMA ResolveAnswers ==
  ASSUME IInv, NEW c \in Clients, CommitResolve(c)
  PROVE  /\ call[c].op = "resolve" /\ reply'[c].status = "ok"
         /\ reply'[c].entry.sid = call[c].sid
         /\ Holds(db', reply'[c].entry) /\ Holds(db, reply'[c].entry)
<1>1. PICK r \in RowsOfID(tx, call[c].sid) : Return(c, Ok(r.sid, r.url))
  BY DEF CommitResolve
<1>2. reply'[c] = Ok(r.sid, r.url)
  BY <1>1 DEF Return, IInv, TypeOK
<1>3. r \in tx /\ r.sid = call[c].sid
  BY <1>1 DEF RowsOfID
<1>4. tx = Stamped(db, RowsOfID(db, call[c].sid), now[c]) /\ db' = tx
  BY ResolveCommits DEF Resolved
<1>5. db \in SUBSET Row /\ RowsOfID(db, call[c].sid) \in SUBSET db /\ now[c] \in Ticks
  BY DEF IInv, TypeOK, RowsOfID
<1>6. \E q \in db : r.key = q.key /\ r.sid = q.sid /\ r.url = q.url
  BY <1>3, <1>4, <1>5, StampedKeepsLinks
<1>. QED
  BY <1>2, <1>3, <1>4, <1>6 DEF Ok, Holds, CommitResolve

LEMMA MissAnswers ==
  ASSUME IInv, NEW c \in Clients, ResolveMiss(c)
  PROVE  /\ reply'[c].status = "not_found" /\ db' = db
         /\ RowsOfID(db, call[c].sid) = {}
<1>1. tx = db
  BY DEF ResolveMiss, IInv, TxFits
<1>2. reply'[c] = Error("not_found")
  BY DEF ResolveMiss, Return, IInv, TypeOK
<1>. QED
  BY <1>1, <1>2 DEF ResolveMiss, Error

LEMMA ErrorAnswers ==
  ASSUME IInv, NEW c \in Clients, pc[c] # "idle",
         RefuseCollision(c) \/ Fail(c) \/ Restart
  PROVE  reply'[c].status \in {"collision", "unavailable", "lost"} /\ db' = db
<1>1. reply'[c] \in {Error("collision"), Error("unavailable"), Error("lost")}
  BY DEF RefuseCollision, Fail, Restart, Return, IInv, TypeOK
<1>2. db' = db
  BY DEF RefuseCollision, Fail, Restart
<1>. QED
  BY <1>1, <1>2 DEF Error

\* A create that is answered "ok" commits in that step.
LEMMA CreatesByCommit ==
  ASSUME IInv, Unanswered, [Next]_vars, NEW c \in Clients, Creates(c)
  PROVE  CommitCreate(c)
<1>1. pc[c] # "idle" /\ pc[c] # "lookup" /\ call[c].op = "create" /\ reply'[c].status = "ok"
  BY DEF Creates
<1>2. ~(ResolveMiss(c) \/ RefuseCollision(c) \/ Fail(c) \/ Restart)
  BY <1>1, ErrorAnswers, MissAnswers
<1>3. ~CommitResolve(c)
  BY <1>1 DEF CommitResolve
<1>. QED
  BY <1>1, <1>2, <1>3, WaysToEnd DEF IInv

\* What a call answers is what the table holds as it ends (the answers of
\* CreateOrGet and ResolveShortID against the rows they leave).
THEOREM Truthful == Spec => AnswersAreTruthful
<1>. DEFINE True(c) ==
       /\ Answers(c, "ok") => Holds(db', reply'[c].entry)
       /\ Answers(c, "ok") /\ call[c].op = "create" =>
            reply'[c].entry.url = call[c].url
       /\ Answers(c, "ok") /\ call[c].op = "resolve" =>
            Holds(db, reply'[c].entry) /\ reply'[c].entry.sid = call[c].sid
       /\ Answers(c, "not_found") => RowsOfID(db, call[c].sid) = {}
       /\ \A e \in Errors : Answers(c, e) => db' = db
<1>1. ASSUME IInv, Unanswered, [Next]_vars, NEW c \in Clients PROVE True(c)
  <2>1. CASE ~Ends(c)
    BY <2>1 DEF Answers, Ends
  <2>2. CASE Ends(c) /\ CommitCreate(c)
    BY <1>1, <2>2, CreateAnswers DEF Answers, Errors
  <2>3. CASE Ends(c) /\ CommitResolve(c)
    BY <1>1, <2>3, ResolveAnswers DEF Answers, Errors
  <2>4. CASE Ends(c) /\ ResolveMiss(c)
    BY <1>1, <2>4, MissAnswers DEF Answers, Errors
  <2>5. CASE Ends(c) /\ (RefuseCollision(c) \/ Fail(c) \/ Restart)
    BY <1>1, <2>5, ErrorAnswers DEF Answers, Errors, Ends
  <2>. QED
    BY <1>1, <2>1, <2>2, <2>3, <2>4, <2>5, WaysToEnd DEF IInv, Ends
<1>2. IInv /\ Unanswered /\ [Next]_vars => [\A c \in Clients : True(c)]_vars
  BY <1>1
<1>. QED
  BY <1>2, Inductive, AlwaysUnanswered, PTL DEF AnswersAreTruthful, Spec

-----------------------------------------------------------------------------
(* Forgetting *)

\* Every other step keeps the rows, but for a time stamp.
LEMMA OthersKeep ==
  ASSUME IInv, [Next]_vars, ~\E c \in Clients : CommitCreate(c)
  PROVE  \/ db' = db
         \/ \E c \in Clients : CommitResolve(c)
BY DEF Next, Step, CallCreate, CallResolve, LockWrites, BeginTx, TrimOverflow,
       UpdateRow, InsertRow, RefuseCollision, RefreshRow, ResolveMiss, Fail,
       Restart, Tick, vars, dbVars

LEMMA ResolveKeepsLinks ==
  ASSUME IInv, NEW c \in Clients, CommitResolve(c)
  PROVE  /\ \A q \in db' : \E r \in db : q.key = r.key /\ q.sid = r.sid /\ q.url = r.url
         /\ \A r \in db : \E q \in db' : q.key = r.key /\ q.sid = r.sid /\ q.url = r.url
<1>1. db' = Stamped(db, RowsOfID(db, call[c].sid), now[c])
  BY ResolveCommits DEF Resolved
<1>2. db \in SUBSET Row /\ RowsOfID(db, call[c].sid) \in SUBSET db /\ now[c] \in Ticks
  BY DEF IInv, TypeOK, RowsOfID
<1>. QED
  BY <1>1, <1>2, StampedKeepsLinks

\* Only a create that succeeds makes a link disappear (no resolve, no failed
\* or refused call and no restart does).
THEOREM CreatesForget == Spec => OnlyCreatesForget
<1>. DEFINE Forgets == \A r \in db : RowsOfKey(db', r.key) = {} => \E c \in Clients : Creates(c)
<1>1. ASSUME IInv, [Next]_vars PROVE Forgets
  <2>1. CASE \E c \in Clients : CommitCreate(c)
    <3>1. PICK c \in Clients : CommitCreate(c)
      BY <2>1
    <3>2. pc[c] = "commit" /\ call[c].op = "create" /\ reply'[c].status = "ok"
      BY <1>1, <3>1, CreateAnswers DEF CommitCreate
    <3>. QED
      BY <3>2 DEF Creates
  <2>2. CASE db' = db
    BY <2>2 DEF RowsOfKey
  <2>3. CASE \E c \in Clients : CommitResolve(c)
    <3>1. \A r \in db : \E q \in db' : q.key = r.key
      BY <1>1, <2>3, ResolveKeepsLinks
    <3>. QED
      BY <3>1 DEF RowsOfKey
  <2>. QED
    BY <1>1, <2>1, <2>2, <2>3, OthersKeep
<1>2. IInv /\ [Next]_vars => [Forgets]_vars
  BY <1>1
<1>. QED
  BY <1>2, Inductive, PTL DEF OnlyCreatesForget, Spec

\* Rows that a create found and the rows it leaves, when it trimmed nothing.
LEMMA AtLeastAsMany ==
  ASSUME NEW before, NEW after, IsFiniteSet(before), IsFiniteSet(after),
         OneStatePerID(before), OneStatePerID(after),
         NEW k, \E r \in after : r.key = k,
         \A r \in before : r.key # k => r \in after
  PROVE  Cardinality(before) <= Cardinality(after)
<1>1. PICK y \in after : y.key = k
  OBVIOUS
<1>. DEFINE others == {r \in before : r.key # k}
<1>2. others \in SUBSET (after \ {y})
  BY <1>1
<1>3. IsFiniteSet(after \ {y}) /\ Cardinality(after \ {y}) = Cardinality(after) - 1
  BY <1>1, FS_RemoveElement
<1>4. IsFiniteSet(others) /\ Cardinality(others) <= Cardinality(after \ {y})
  BY <1>2, <1>3, FS_Subset
<1>4a. Cardinality(before) \in Nat /\ Cardinality(after) \in Nat
  BY FS_CardinalityType
<1>5. CASE others = before
  <2>1. Cardinality(before) <= Cardinality(after) - 1
    BY <1>3, <1>4, <1>5
  <2>. QED
    BY <1>4a, <2>1
<1>6. CASE others # before
  <2>1. PICK x \in before : x.key = k
    BY <1>6
  <2>2. others = before \ {x}
    BY <2>1 DEF OneStatePerID
  <2>3. Cardinality(others) = Cardinality(before) - 1
    BY <2>2, FS_RemoveElement
  <2>. QED
    BY <1>4a, <1>3, <1>4, <2>3
<1>. QED
  BY <1>5, <1>6

\* A create on a full or overfull table leaves it exactly full.
THEOREM TrimsExactly == Spec => WritesTrimExactly
<1>. DEFINE Exact(c) == Creates(c) /\ Cardinality(db) >= capacity => Cardinality(db') = capacity
<1>1. ASSUME IInv, Unanswered, [Next]_vars, NEW c \in Clients PROVE Exact(c)
  <2>. SUFFICES ASSUME Creates(c), Cardinality(db) >= capacity
                PROVE  Cardinality(db') = capacity
    OBVIOUS
  <2>1. CommitCreate(c)
    BY <1>1, CreatesByCommit
  <2>2. Written(c) /\ db' = tx
    BY <1>1, <2>1, CreateCommits
  <2>3. /\ IsFiniteSet(db) /\ IsFiniteSet(tx)
        /\ OneStatePerID(db) /\ OneStatePerID(tx)
        /\ capacity \in Nat
    BY <1>1, ConstantsAssumption DEF IInv, Finite, BijectiveInv, TypeOK
  <2>4. CASE Cardinality(tx) = capacity
    BY <2>2, <2>4
  <2>5. CASE Cardinality(tx) # capacity
    <3>1. \A r \in db : r.key # call[c].key => r \in tx
      BY <2>2, <2>5 DEF Written, WrittenFor
    <3>2. \E r \in tx : r.key = call[c].key
      BY <2>2 DEF Written, WrittenFor
    <3>3. Cardinality(db) <= Cardinality(tx)
      BY <2>3, <3>1, <3>2, AtLeastAsMany
    <3>4. Cardinality(tx) <= capacity
      BY <2>2 DEF Written, WrittenFor
    <3>. QED
      BY <2>2, <2>3, <3>3, <3>4, FS_CardinalityType
  <2>. QED
    BY <2>4, <2>5
<1>2. IInv /\ Unanswered /\ [Next]_vars => [\A c \in Clients : Exact(c)]_vars
  BY <1>1
<1>. QED
  BY <1>2, Inductive, AlwaysUnanswered, PTL DEF WritesTrimExactly, Spec

\* Whatever a create evicts was last used in the earliest second, although
\* time stamps are compared as text (ORDER BY of trimOverflowBeforeWrite).
THEOREM EvictsEarliest == Spec => EvictsEarliestSecond
<1>. DEFINE Earliest(c) ==
       Creates(c) => \A v \in Evicted, r \in Spared(c) : Second(v.at) <= Second(r.at)
<1>1. ASSUME IInv, Unanswered, [Next]_vars, NEW c \in Clients PROVE Earliest(c)
  <2>. SUFFICES ASSUME Creates(c), NEW v \in Evicted, NEW r \in Spared(c)
                PROVE  Second(v.at) <= Second(r.at)
    OBVIOUS
  <2>1. CommitCreate(c)
    BY <1>1, CreatesByCommit
  <2>2. Written(c) /\ db' = tx
    BY <1>1, <2>1, CreateCommits
  <2>3. v \in db /\ RowsOfKey(tx, v.key) = {}
    BY <2>2 DEF Evicted
  <2>4. r \in db /\ r.key # call[c].key /\ RowsOfKey(tx, r.key) # {}
    BY <2>2 DEF Spared, Evicted
  <2>5. v \notin tx /\ v.key # call[c].key
    BY <2>2, <2>3 DEF Written, WrittenFor, RowsOfKey
  <2>6. PICK q \in tx : q.key = r.key
    BY <2>4 DEF RowsOfKey
  <2>7. q \in db
    BY <2>2, <2>4, <2>6 DEF Written, WrittenFor
  <2>8. q = r
    BY <1>1, <2>4, <2>6, <2>7 DEF IInv, BijectiveInv, OneStatePerID
  <2>. QED
    BY <2>2, <2>3, <2>4, <2>5, <2>6, <2>8 DEF Written, WrittenFor
<1>2. IInv /\ Unanswered /\ [Next]_vars => [\A c \in Clients : Earliest(c)]_vars
  BY <1>1
<1>. QED
  BY <1>2, Inductive, AlwaysUnanswered, PTL DEF EvictsEarliestSecond, Spec

-----------------------------------------------------------------------------
(* Refinement *)

\* Rows with unique keys are as many as their links.
LEMMA LinkCount ==
  ASSUME NEW rows, IsFiniteSet(rows), OneStatePerID(rows)
  PROVE  Cardinality({Link(r) : r \in rows}) = Cardinality(rows)
<1>. DEFINE links == {Link(r) : r \in rows}
            f     == [r \in rows |-> Link(r)]
<1>1. \A r \in rows : Link(r).key = r.key
  BY DEF Link
<1>2. f \in [rows -> links]
  OBVIOUS
<1>3. \A q, r \in rows : f[q] = f[r] => q = r
  BY <1>1 DEF OneStatePerID
<1>4. \A l \in links : \E r \in rows : f[r] = l
  OBVIOUS
<1>5. f \in Bijection(rows, links)
  BY <1>2, <1>3, <1>4 DEF Bijection, Injection, Surjection, IsInjective
<1>6. ExistsBijection(rows, links)
  BY <1>5 DEF ExistsBijection
<1>. QED
  BY <1>6, FS_Bijection

\* The directory counts its links as we do.
LEMMA SameCardinality == \A S : Directory!Cardinality(S) = Cardinality(S)
BY DEF Directory!Cardinality, Cardinality

\* A create publishes its state in the directory.
LEMMA CreatePublishes ==
  ASSUME IInv, NEW c \in Clients, CommitCreate(c)
  PROVE  \E k \in StateKeys, b \in Bases : Directory!Publish(k, b)
<1>. DEFINE k == call[c].key
            b == call[c].url.base
            link == [key |-> k, sid |-> ShortIDOf[k], url |-> [state |-> k, base |-> b]]
            others == {r \in tx : r.key # k}
            kept == {Link(r) : r \in others}
<1>1. Written(c) /\ db' = tx /\ capacity' = capacity
  BY CreateCommits
<1>2. /\ IsFiniteSet(tx) /\ OneStatePerID(tx) /\ OneStatePerID(db)
      /\ tx \in SUBSET Row
  BY DEF IInv, Finite, BijectiveInv, TypeOK
<1>3. call[c] \in CreateCall /\ call[c].url.state = k
  BY DEF CommitCreate, IInv, TypeOK, CallsFit, CreateCall, ResolveCall, NoCall
<1>4. k \in StateKeys /\ b \in Bases /\ call[c].url = [state |-> k, base |-> b]
  BY <1>3 DEF CreateCall, LongURL
<1>5. PICK y \in tx : y.key = k /\ y.url = call[c].url
  BY <1>1 DEF Written, WrittenFor
<1>6. Link(y) = link
  BY <1>2, <1>4, <1>5 DEF Link, OneStatePerID
<1>7. tx = others \cup {y}
  BY <1>2, <1>5 DEF OneStatePerID
<1>8. {Link(r) : r \in db'} = kept \cup {link}
  BY <1>1, <1>6, <1>7
<1>9. kept \in SUBSET {l \in {Link(r) : r \in db} : l.key # k}
  <2>1. \A r \in others : r \in db /\ Link(r).key # k
    BY <1>1 DEF Written, WrittenFor, Link
  <2>. QED
    BY <2>1
<1>10. \A l \in kept : l.sid # ShortIDOf[k]
  <2>1. \A r \in others : r.sid # y.sid
    BY <1>2, <1>5 DEF OneStatePerID
  <2>2. y.sid = ShortIDOf[k]
    BY <1>2, <1>5 DEF OneStatePerID
  <2>3. \A r \in others : Link(r).sid = r.sid
    BY DEF Link
  <2>. QED
    BY <2>1, <2>2, <2>3
<1>11. Cardinality({Link(r) : r \in db'}) = Cardinality(tx)
  BY <1>1, <1>2, LinkCount
<1>12. Cardinality({Link(r) : r \in db'}) <= capacity
  BY <1>1, <1>11 DEF Written, WrittenFor
<1>13. \/ \A l \in {Link(r) : r \in db} : l.key # k => l \in kept
       \/ Cardinality({Link(r) : r \in db'}) = capacity
  <2>1. CASE Cardinality(tx) = capacity
    BY <1>11, <2>1
  <2>2. CASE Cardinality(tx) # capacity
    <3>1. \A r \in db : r.key # k => r \in others
      BY <1>1, <2>2 DEF Written, WrittenFor
    <3>2. \A r \in db : Link(r).key = r.key
      BY DEF Link
    <3>. QED
      BY <3>1, <3>2
  <2>. QED
    BY <2>1, <2>2
<1>. HIDE DEF k, b, link, others, kept
<1>14. Directory!Publish(k, b)
  BY SameCardinality, <1>1, <1>8, <1>9, <1>10, <1>12, <1>13 DEF Directory!Publish, link
<1>. QED
  BY <1>4, <1>14

\* A resolve changes no link.
LEMMA ResolveStutters ==
  ASSUME IInv, NEW c \in Clients, CommitResolve(c)
  PROVE  {Link(r) : r \in db'} = {Link(r) : r \in db}
BY ResolveKeepsLinks DEF Link

\* Mutexes, transactions, stamps, failures and restarts are details: the
\* store implements the directory of short links.
THEOREM Implements == Spec => ImplementsDirectory
<1>1. Init => Directory!Init
  BY DEF Init, Directory!Init
<1>2. ASSUME IInv, [Next]_vars PROVE [Directory!Next]_(Directory!dirVars)
  <2>1. CASE \E c \in Clients : CommitCreate(c)
    BY <1>2, <2>1, CreatePublishes DEF Directory!Next
  <2>2. CASE \E c \in Clients : CommitResolve(c)
    <3>1. PICK c \in Clients : CommitResolve(c)
      BY <2>2
    <3>2. capacity' = capacity
      BY <1>2, <3>1, ResolveCommits
    <3>3. {Link(r) : r \in db'} = {Link(r) : r \in db}
      BY <1>2, <3>1, ResolveStutters
    <3>. QED
      BY <3>2, <3>3 DEF Directory!dirVars
  <2>3. CASE db' = db /\ Restart
    BY <2>3 DEF Restart, Directory!Next, Directory!Reopen
  <2>4. CASE db' = db /\ ~Restart
    <3>1. capacity' = capacity
      BY <1>2, <2>4
         DEF Next, Step, CallCreate, CallResolve, LockWrites, BeginTx, TrimOverflow,
             UpdateRow, InsertRow, RefuseCollision, RefreshRow, ResolveMiss,
             CommitCreate, CommitResolve, Fail, Tick, vars, dbVars
    <3>. QED
      BY <2>4, <3>1 DEF Directory!dirVars
  <2>. QED
    BY <1>2, <2>1, <2>2, <2>3, <2>4, OthersKeep
<1>. QED
  BY <1>1, <1>2, Inductive, PTL DEF Spec, ImplementsDirectory, Directory!Spec

=============================================================================
