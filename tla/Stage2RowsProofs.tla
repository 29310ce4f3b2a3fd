--------------------------- MODULE Stage2RowsProofs ---------------------------
(***************************************************************************)
(* The rows of stage 2 and what is marked in them, for any sources, names, *)
(* targets and catalogs.                                                   *)
(*                                                                         *)
(* That a mark of the server's stays in its place is not inductive: a copy *)
(* gets a name nobody has, but that says nothing of the marks.  Held adds  *)
(* that the row a mark is about is still there under that name, and says   *)
(* the same of the verdict that is on its way, as far as it is about known *)
(* rows: a conversion that drops a source and a restore end that.          *)
(* That a duplicate has a namesake until a row of another source goes      *)
(* needs AllNamed: it is a row of its source, so that its own rows go only *)
(* with the mark.  Services come to be shared in no other way than by a    *)
(* copy: SharingIsCopied counts, by an injection, the rows that have one   *)
(* before and after; a conversion and a reset bring rows without one, a    *)
(* link was made of rows that share none.                                  *)
(***************************************************************************)
EXTENDS Stage2Rows, FiniteSetTheorems, SequenceTheorems, TLAPS

Targets == Chains \cup Relays \cup {Unset}

\* TypeOK, with the domain of the rows.
Shape ==
  /\ scheme \in Schemes /\ status \in {"editable", "stale", "conflicted"}
  /\ offered \subseteq Chains \cup Relays
  /\ rows \in [Sources -> Seq(Row)]
  /\ marks \subseteq Mark /\ verdict \subseteq Mark
  /\ flying \in BOOLEAN /\ (~flying => verdict = {})

\* The mark is about the rows of its name, and there is one.
Held(m) ==
  m.about # Unknown =>
    /\ m.name # Blank /\ m.about.name = m.name
    /\ m.about \in RowsOf(m.source)
    /\ \A row \in RowsOf(m.source) : row.name = m.name => row = m.about

AllHeld == \A m \in marks \cup verdict : Held(m)

IInv == Shape /\ AllHeld

-----------------------------------------------------------------------------
(* Rows *)

LEMMA RowsThere ==
  ASSUME Shape, NEW src \in Sources
  PROVE  /\ rows[src] \in Seq(Row)
         /\ Len(rows[src]) \in Nat /\ DOMAIN rows[src] = 1 .. Len(rows[src])
         /\ \A i \in DOMAIN rows[src] : rows[src][i] \in Row
         /\ RowsOf(src) = {rows[src][i] : i \in DOMAIN rows[src]}
<1>1. rows[src] \in Seq(Row)
  BY DEF Shape
<1>2. QED
  BY <1>1, LenProperties, ElementOfSeq DEF RowsOf, ToSet

\* A row is written in its place.
LEMMA Placed ==
  ASSUME Shape, NEW src \in Sources, NEW i \in DOMAIN rows[src], NEW row \in Row, Place(src, i, row)
  PROVE  /\ rows' \in [Sources -> Seq(Row)]
         /\ \A t \in Sources \ {src} : rows'[t] = rows[t]
         /\ DOMAIN rows'[src] = DOMAIN rows[src]
         /\ \A j \in DOMAIN rows[src] : rows'[src][j] = IF j = i THEN row ELSE rows[src][j]
<1>. DEFINE list == [rows[src] EXCEPT ![i] = row]
<1>1. rows[src] \in Seq(Row) /\ i \in 1 .. Len(rows[src]) /\ Len(rows[src]) \in Nat
      /\ DOMAIN rows[src] = 1 .. Len(rows[src])
  BY RowsThere
<1>2. /\ list \in Seq(Row) /\ Len(list) = Len(rows[src])
      /\ \A j \in 1 .. Len(rows[src]) : list[j] = IF j = i THEN row ELSE rows[src][j]
  BY <1>1, ExceptSeq
<1>3. DOMAIN list = 1 .. Len(rows[src])
  BY <1>1
<1>4. rows' = [rows EXCEPT ![src] = list]
  BY DEF Place
<1>. HIDE DEF list
<1>5. QED
  BY <1>1, <1>2, <1>3, <1>4 DEF Shape

\* Taking one row out leaves the others, in their order.
LEMMA TakenOut ==
  ASSUME NEW S, NEW seq \in Seq(S), NEW k \in DOMAIN seq
  PROVE  /\ RemoveAt(seq, k) \in Seq(S)
         /\ Len(RemoveAt(seq, k)) = Len(seq) - 1
         /\ \A j \in 1 .. Len(seq) - 1 : RemoveAt(seq, k)[j] = IF j < k THEN seq[j] ELSE seq[j + 1]
<1>. DEFINE front == SubSeq(seq, 1, k - 1)
            back  == SubSeq(seq, k + 1, Len(seq))
            rest  == RemoveAt(seq, k)
<1>1. Len(seq) \in Nat /\ DOMAIN seq = 1 .. Len(seq) /\ k \in 1 .. Len(seq)
      /\ \A j \in 1 .. Len(seq) : seq[j] \in S
  BY LenProperties, ElementOfSeq
<1>2. front \in Seq(S) /\ Len(front) = k - 1 /\ \A j \in 1 .. k - 1 : front[j] = seq[j]
  <2>1. k - 1 \in Int /\ \A j \in 1 .. k - 1 : seq[j] \in S
    BY <1>1
  <2>2. QED
    BY <1>1, <2>1, SubSeqProperties
<1>3. back \in Seq(S) /\ Len(back) = Len(seq) - k /\ \A j \in 1 .. Len(seq) - k : back[j] = seq[k + j]
  <2>1. k + 1 \in Int /\ \A j \in k + 1 .. Len(seq) : seq[j] \in S
    BY <1>1
  <2>2. QED
    BY <1>1, <2>1, SubSeqProperties
<1>4. /\ rest \in Seq(S) /\ Len(rest) = Len(front) + Len(back)
      /\ \A j \in 1 .. Len(front) + Len(back) :
           rest[j] = IF j <= Len(front) THEN front[j] ELSE back[j - Len(front)]
  BY <1>2, <1>3, ConcatProperties DEF RemoveAt
<1>5. DOMAIN rest = 1 .. Len(rest)
  BY <1>4, LenProperties
<1>. HIDE DEF front, back, rest
<1>6. Len(rest) = Len(seq) - 1
  BY <1>1, <1>2, <1>3, <1>4
<1>7. ASSUME NEW j \in 1 .. Len(rest) PROVE rest[j] = IF j < k THEN seq[j] ELSE seq[j + 1]
  <2>1. CASE j < k
    <3>1. j \in 1 .. k - 1
      BY <2>1, <1>1, <1>6
    <3>2. QED
      BY <2>1, <3>1, <1>1, <1>2, <1>4
  <2>2. CASE j >= k
    <3>1. j - (k - 1) \in 1 .. Len(seq) - k /\ k + (j - (k - 1)) = j + 1
      BY <2>2, <1>1, <1>6
    <3>2. rest[j] = back[j - (k - 1)]
      BY <2>2, <1>1, <1>2, <1>4
    <3>3. rest[j] = seq[j + 1]
      BY <3>1, <3>2, <1>3
    <3>4. ~(j < k)
      BY <2>2, <1>1, <1>6
    <3>5. QED
      BY <3>3, <3>4
  <2>3. QED
    BY <2>1, <2>2, <1>1
<1>8. QED
  BY <1>4, <1>6, <1>7 DEF rest

LEMMA OthersLeft ==
  ASSUME NEW S, NEW seq \in Seq(S), NEW k \in DOMAIN seq
  PROVE  ToSet(RemoveAt(seq, k)) = {seq[j] : j \in DOMAIN seq \ {k}}
<1>. DEFINE rest == RemoveAt(seq, k)
<1>1. /\ rest \in Seq(S) /\ Len(rest) = Len(seq) - 1
      /\ \A j \in 1 .. Len(seq) - 1 : rest[j] = IF j < k THEN seq[j] ELSE seq[j + 1]
  BY TakenOut
<1>2. /\ Len(seq) \in Nat /\ DOMAIN seq = 1 .. Len(seq) /\ k \in 1 .. Len(seq)
      /\ DOMAIN rest = 1 .. Len(seq) - 1
  BY <1>1, LenProperties
<1>. HIDE DEF rest
<1>3. /\ \A j \in DOMAIN rest : (IF j < k THEN j ELSE j + 1) \in DOMAIN seq \ {k}
      /\ \A n \in DOMAIN seq \ {k} : n < k => n \in DOMAIN rest
      /\ \A n \in DOMAIN seq \ {k} : ~(n < k) => n - 1 \in DOMAIN rest /\ ~(n - 1 < k) /\ (n - 1) + 1 = n
  BY <1>2
<1>4. \A j \in DOMAIN rest : rest[j] = IF j < k THEN seq[j] ELSE seq[j + 1]
  BY <1>1, <1>2
<1>5. ToSet(rest) \subseteq {seq[n] : n \in DOMAIN seq \ {k}}
  BY <1>3, <1>4 DEF ToSet
<1>6. {seq[n] : n \in DOMAIN seq \ {k}} \subseteq ToSet(rest)
  <2>. SUFFICES ASSUME NEW n \in DOMAIN seq \ {k} PROVE \E j \in DOMAIN rest : rest[j] = seq[n]
    BY DEF ToSet
  <2>1. CASE n < k
    BY <2>1, <1>3, <1>4
  <2>2. CASE ~(n < k)
    BY <2>2, <1>3, <1>4
  <2>3. QED
    BY <2>1, <2>2
<1>7. QED
  BY <1>5, <1>6 DEF rest

-----------------------------------------------------------------------------
(* Names *)

\* There are finitely many rows.
LEMMA RowsFinite ==
  ASSUME RowsAssumption, NEW lists \in [Sources -> Seq(Row)]
  PROVE  IsFiniteSet(UNION {{src} \X (DOMAIN lists[src]) : src \in Sources})
<1>1. IsFiniteSet(Sources)
  <2>1. SourceSeq \in Seq(Sources) /\ Len(SourceSeq) \in Nat /\ DOMAIN SourceSeq = 1 .. Len(SourceSeq)
        /\ SourceSeq \in [1 .. Len(SourceSeq) -> Sources]
    BY LenProperties DEF RowsAssumption
  <2>2. SourceSeq \in Surjection(1 .. Len(SourceSeq), Sources)
    BY <2>1 DEF Surjection, Sources, ToSet
  <2>3. QED
    BY <2>1, <2>2, FS_Interval, FS_Surjection
<1>. DEFINE of == [src \in Sources |-> {src} \X (DOMAIN lists[src])]
            all == {{src} \X (DOMAIN lists[src]) : src \in Sources}
<1>2. of \in Surjection(Sources, all)
  BY DEF Surjection
<1>3. IsFiniteSet(all)
  <2>. HIDE DEF of, all
  <2>1. QED
    BY <1>1, <1>2, FS_Surjection
<1>4. \A src \in Sources : IsFiniteSet({src} \X (DOMAIN lists[src]))
  <2>. SUFFICES ASSUME NEW src \in Sources PROVE IsFiniteSet({src} \X (DOMAIN lists[src]))
    OBVIOUS
  <2>1. IsFiniteSet(1 .. Len(lists[src])) /\ DOMAIN lists[src] = 1 .. Len(lists[src])
    BY LenProperties, FS_Interval
  <2>2. IsFiniteSet({src})
    BY FS_Singleton
  <2>3. QED
    BY <2>1, <2>2, FS_Product
<1>5. QED
  BY <1>3, <1>4, FS_UNION

LEMMA PlacesFinite == ASSUME RowsAssumption, Shape PROVE IsFiniteSet(Places)
  BY RowsFinite DEF Places, Shape

LEMMA PlacesFiniteNext == ASSUME RowsAssumption, Shape' PROVE IsFiniteSet(Places')
  BY RowsFinite DEF Places, Shape

LEMMA PlacesAre ==
  \A src, i : <<src, i>> \in Places <=> src \in Sources /\ i \in DOMAIN rows[src]
  BY DEF Places

\* Where the page finds no duplicates, a name that is not blank has one place.
LEMMA OnePlace ==
  ASSUME RowsAssumption, Shape, Duplicates = {},
         NEW s \in Sources, NEW i \in DOMAIN rows[s], NEW t \in Sources, NEW j \in DOMAIN rows[t],
         rows[s][i].name = rows[t][j].name, rows[s][i].name # Blank
  PROVE  s = t /\ i = j
<1>. DEFINE name == rows[s][i].name
            same == Namesakes(name)
<1>1. SUFFICES ASSUME <<s, i>> # <<t, j>> PROVE FALSE
  OBVIOUS
<1>2. <<s, i>> \in Places /\ <<t, j>> \in Places
  BY PlacesAre
<1>3. {<<s, i>>, <<t, j>>} \subseteq same
  BY <1>2 DEF Namesakes
<1>4. IsFiniteSet(same)
  BY PlacesFinite, FS_Subset DEF Namesakes
<1>5. Cardinality({<<s, i>>, <<t, j>>}) = 2
  <2>. DEFINE p == <<s, i>>
              q == <<t, j>>
  <2>1. p # q
    BY <1>1
  <2>. HIDE DEF p, q
  <2>2. IsFiniteSet({p}) /\ Cardinality({p}) = 1
    BY FS_Singleton
  <2>3. q \notin {p} /\ {p, q} = {p} \cup {q}
    BY <2>1
  <2>4. Cardinality({p} \cup {q}) = Cardinality({p}) + 1
    BY <2>2, <2>3, FS_AddElement
  <2>5. Cardinality({p, q}) = 2
    BY <2>2, <2>3, <2>4
  <2>6. QED
    BY <2>5 DEF p, q
<1>6. Cardinality(same) > 1
  <2>. HIDE DEF same
  <2>1. Cardinality({<<s, i>>, <<t, j>>}) <= Cardinality(same) /\ Cardinality(same) \in Nat
    BY <1>3, <1>4, FS_Subset, FS_CardinalityType
  <2>2. QED
    BY <1>5, <2>1
<1>7. [source |-> s, name |-> name, code |-> "duplicate", about |-> Unknown] \in Duplicates
  BY <1>2, <1>6 DEF Duplicates
<1>8. QED
  BY <1>7

\* The name of a copy is one that nobody has (pickNextDerivedProxyName).
LEMMA DerivedIsFree ==
  ASSUME RowsAssumption, NEW name \in Names,
         \E n \in ToSet(Numbered[name]) : Namesakes(n) = {}
  PROVE  DerivedName(name) \in Names /\ Namesakes(DerivedName(name)) = {}
<1>. DEFINE list == Numbered[name]
            free == {k \in DOMAIN list : Namesakes(list[k]) = {}}
<1>1. list \in Seq(Names) /\ DOMAIN list = 1 .. Len(list) /\ Len(list) \in Nat
      /\ \A k \in DOMAIN list : list[k] \in Names
  <2>1. list \in Seq(Names)
    BY DEF RowsAssumption
  <2>2. QED
    BY <2>1, LenProperties, ElementOfSeq
<1>2. free # {} /\ free \subseteq Nat
  BY <1>1 DEF ToSet
<1>3. PICK k \in free : \A j \in free : ~(<<j, k>> \in OpToRel(<, Nat))
  <2>. HIDE DEF free
  <2>1. QED
    BY <1>2, NatLessThanWellFounded, WFMin
<1>4. \A j \in 1 .. k - 1 : Namesakes(list[j]) # {}
  <2>. SUFFICES ASSUME NEW j \in 1 .. k - 1, j \in free PROVE FALSE
    BY <1>1
  <2>1. j \in Nat /\ k \in Nat /\ j < k
    BY <1>2
  <2>2. <<j, k>> \in OpToRel(<, Nat)
    BY <2>1 DEF OpToRel
  <2>3. QED
    BY <1>3, <2>2
<1>5. DerivedName(name) =
        list[CHOOSE n \in DOMAIN list :
               Namesakes(list[n]) = {} /\ \A j \in 1 .. n - 1 : Namesakes(list[j]) # {}]
  BY DEF DerivedName
<1>6. QED
  BY <1>1, <1>3, <1>4, <1>5

-----------------------------------------------------------------------------
(* Marks *)

LEMMA UnknownRow == RowsAssumption => Unknown \in Row
  BY DEF RowsAssumption, Unknown, Row, Modes

\* Doubting a name leaves what is said of it to nothing.
LEMMA DoubtedMarks ==
  ASSUME RowsAssumption, NEW set \in SUBSET Mark, NEW src, NEW name
  PROVE  /\ Doubted(set, src, name) \subseteq Mark
         /\ \A m \in Doubted(set, src, name) :
              m.about # Unknown => m \in set /\ ~(m.source = src /\ m.name = name)
<1>. SUFFICES ASSUME NEW m \in Doubted(set, src, name)
              PROVE  m \in Mark /\ (m.about # Unknown => m \in set /\ ~(m.source = src /\ m.name = name))
  OBVIOUS
<1>1. PICK n \in set : m = IF n.source = src /\ n.name = name THEN [n EXCEPT !.about = Unknown] ELSE n
  BY DEF Doubted
<1>2. n \in Mark
  OBVIOUS
<1>3. [n EXCEPT !.about = Unknown] \in Mark /\ [n EXCEPT !.about = Unknown].about = Unknown
  BY <1>2, UnknownRow DEF Mark
<1>4. QED
  BY <1>1, <1>2, <1>3

LEMMA ForgottenMarks ==
  ASSUME RowsAssumption, NEW set \in SUBSET Mark, NEW srcs
  PROVE  /\ Forgotten(set, srcs) \subseteq Mark
         /\ \A m \in Forgotten(set, srcs) : m.about # Unknown => m \in set /\ m.source \notin srcs
<1>. SUFFICES ASSUME NEW m \in Forgotten(set, srcs)
              PROVE  m \in Mark /\ (m.about # Unknown => m \in set /\ m.source \notin srcs)
  OBVIOUS
<1>1. PICK n \in set : m = IF n.source \in srcs THEN [n EXCEPT !.about = Unknown] ELSE n
  BY DEF Forgotten
<1>2. n \in Mark
  OBVIOUS
<1>3. [n EXCEPT !.about = Unknown] \in Mark /\ [n EXCEPT !.about = Unknown].about = Unknown
  BY <1>2, UnknownRow DEF Mark
<1>4. QED
  BY <1>1, <1>2, <1>3

\* A mark is still held when the rows of its name are as before.
LEMMA StillHeld ==
  ASSUME NEW m, Held(m),
         m.about # Unknown /\ m.name # Blank /\ m.about \in RowsOf(m.source) =>
           /\ m.about \in RowsOf(m.source)'
           /\ \A row \in RowsOf(m.source)' : row.name = m.name => row \in RowsOf(m.source)
  PROVE  Held(m)'
  BY DEF Held

LEMMA SameRowsHeld == ASSUME NEW m, Held(m), UNCHANGED rows PROVE Held(m)'
  BY DEF Held, RowsOf

\* Nothing is said of a row that is not known.
LEMMA UnknownHeld == ASSUME NEW m, m.about = Unknown PROVE Held(m) /\ Held(m)'
  BY DEF Held

\* Changing one row leaves every mark held that is not about its old name or
\* its new one.
LEMMA PlacedHeld ==
  ASSUME Shape, NEW src \in Sources, NEW i \in DOMAIN rows[src], NEW row \in Row, Place(src, i, row),
         NEW m \in Mark, Held(m),
         m.about # Unknown => ~(m.source = src /\ m.name \in {row.name, rows[src][i].name})
  PROVE  Held(m)'
<1>1. m.source \in Sources
  BY DEF Mark
<1>2. CASE m.about = Unknown
  BY <1>2, UnknownHeld
<1>3. CASE m.about # Unknown /\ m.source # src
  <2>1. rows'[m.source] = rows[m.source]
    BY <1>1, <1>3, Placed
  <2>2. QED
    BY <2>1 DEF Held, RowsOf
<1>4. CASE m.about # Unknown /\ m.source = src
  <2>1. m.name # row.name /\ m.name # rows[src][i].name
    BY <1>4
  <2>2. /\ DOMAIN rows'[src] = DOMAIN rows[src]
        /\ \A j \in DOMAIN rows[src] : rows'[src][j] = IF j = i THEN row ELSE rows[src][j]
    BY Placed
  <2>3. PICK k \in DOMAIN rows[src] : m.about = rows[src][k]
    BY <1>4 DEF Held, RowsOf, ToSet
  <2>4. k # i
    BY <1>4, <2>1, <2>3 DEF Held
  <2>5. m.about \in RowsOf(src)'
    BY <2>2, <2>3, <2>4 DEF RowsOf, ToSet
  <2>6. \A r \in RowsOf(src)' : r.name = m.name => r \in RowsOf(src)
    BY <2>1, <2>2 DEF RowsOf, ToSet
  <2>7. QED
    BY <1>4, <2>5, <2>6, StillHeld
<1>5. QED
  BY <1>2, <1>3, <1>4

-----------------------------------------------------------------------------
(* What the controls offer *)

\* No scheme offers a mode or a target that is not one, nor to delete the last
\* row of a source.
LEMMA OperationsFit ==
  ASSUME Shape, NEW src \in Sources, NEW i \in DOMAIN rows[src], NEW o \in Operations(src, i)
  PROVE  /\ o.op = "mode" => o.to \in Modes
         /\ o.op = "target" => o.to \in {Unset} \cup Selectable(rows[src][i], rows[src][i].mode)
         /\ o.op = "delete" => Len(rows[src]) # 1
<1>. DEFINE row == rows[src][i]
            of == [first |-> i = 1, alone |-> Len(rows[src]) = 1,
                   mode |-> row.mode, target |-> row.target, modes |-> ModeOptions,
                   listed |-> CASE row.mode = "chain" -> offered \cap Chains
                                [] row.mode = "port_forward" -> offered \cap Relays
                                [] row.mode = "none" -> {},
                   choices |-> Selectable(row, row.mode)]
            copies == {[op |-> "clone"]} \cup When(~of.alone, {[op |-> "delete"]})
            free == {Unset} \cup Selectable(row, row.mode)
            most == copies \cup ToMode(Modes) \cup ToTarget(free)
<1>1. ModeOptions \subseteq Modes
  BY DEF ModeOptions, When, Modes
<1>2. o \in RowOf(scheme, of) /\ scheme \in Schemes
  BY DEF Operations, Shape
<1>3. of.modes = ModeOptions /\ {Unset} \cup of.choices = free /\ of.alone = (Len(rows[src]) = 1)
  OBVIOUS
<1>. HIDE DEF of, row, free
<1>4. of.choices \subseteq free /\ ({Unset} \cup of.choices) \ {Shown(of)} \subseteq free
  BY <1>3
<1>5. \A set \in SUBSET Modes : ToMode(set) \subseteq ToMode(Modes)
  BY DEF ToMode
<1>6. \A set \in SUBSET free : ToTarget(set) \subseteq ToTarget(free)
  BY DEF ToTarget
<1>7. CopyFirst(of) \subseteq copies
  BY DEF CopyFirst, When
<1>8. DefaultRowName(of) \cup DefaultRowMode(of) \cup DefaultRowTarget(of) \subseteq most
  <2>1. DefaultRowMode(of) \subseteq ToMode(Modes)
    BY <1>1, <1>3, <1>5 DEF DefaultRowMode, FromMenu
  <2>2. DefaultRowTarget(of) \subseteq ToTarget(free)
    BY <1>3, <1>4, <1>6 DEF DefaultRowTarget, FromMenu, When
  <2>3. QED
    BY <1>7, <2>1, <2>2 DEF DefaultRowName
<1>9. B1Row(of) \cup B1Picker(of) \subseteq most
  BY <1>1, <1>3, <1>4, <1>5, <1>6 DEF B1Row, B1Picker, When
<1>10. B2Row(of) \subseteq most
  BY <1>1, <1>3, <1>4, <1>5, <1>6, <1>7 DEF B2Row, When
<1>11. C1Row(of) \cup C1Target(of) \subseteq most
  BY <1>1, <1>3, <1>4, <1>5, <1>6, <1>7 DEF C1Row, C1Target, When
<1>12. C2Row(of) \cup C2Target(of) \subseteq most
  BY <1>1, <1>3, <1>4, <1>5, <1>6, <1>7 DEF C2Row, C2Target, When
<1>13. o \in most
  BY <1>2, <1>8, <1>9, <1>10, <1>11, <1>12 DEF RowOf, Schemes
<1>14. CASE o \in copies
  <2>1. o = [op |-> "clone"] \/ (o = [op |-> "delete"] /\ ~of.alone)
    BY <1>14 DEF When
  <2>2. CASE o = [op |-> "clone"]
    BY <2>2
  <2>3. CASE o = [op |-> "delete"] /\ ~of.alone
    <3>1. Len(rows[src]) # 1
      BY <1>3, <2>3
    <3>2. o.op = "delete"
      BY <2>3
    <3>3. QED
      BY <3>1, <3>2
  <2>4. QED
    BY <2>1, <2>2, <2>3
<1>15. CASE o \in ToMode(Modes)
  BY <1>15 DEF ToMode
<1>16. CASE o \in ToTarget(free)
  BY <1>16 DEF ToTarget, free, row
<1>17. QED
  BY <1>13, <1>14, <1>15, <1>16

-----------------------------------------------------------------------------
(* Actions *)

\* The rows a catalog comes with have no service.
LEMMA DefaultRows ==
  ASSUME RowsAssumption, NEW menu, NEW default \in Defaults(menu), NEW src \in Sources
  PROVE  default[src] \in Row /\ <<default[src]>> \in Seq(Row) /\ default[src].target \notin Relays
<1>1. PICK chain \in [Sources -> (menu \cap Chains) \cup {Unset}] :
        default = [s \in Sources |-> Default(s, menu, chain[s])]
  BY DEF Defaults
<1>2. default[src] = Default(src, menu, chain[src]) /\ chain[src] \in Chains \cup {Unset}
  BY <1>1
<1>3. Default(src, menu, chain[src]) \in Row /\ Default(src, menu, chain[src]).target = chain[src]
  BY <1>2 DEF Default, Row, Modes, RowsAssumption
<1>4. QED
  BY <1>2, <1>3 DEF RowsAssumption

LEMMA InitIInv == ASSUME RowsAssumption, Init PROVE IInv
<1>1. PICK default \in Defaults(offered) : rows = [src \in Sources |-> <<default[src]>>]
  BY DEF Init
<1>2. rows \in [Sources -> Seq(Row)]
  BY <1>1, DefaultRows
<1>3. QED
  BY <1>2 DEF Init, IInv, Shape, AllHeld, RowsAssumption

\* Marks and verdict keep to what they were, less what is doubted.
LEMMA RenameKeeps ==
  ASSUME RowsAssumption, IInv, UNCHANGED scheme,
         NEW src \in Sources, NEW i \in DOMAIN rows[src], NEW name \in Typed, Rename(src, i, name)
  PROVE  IInv'
<1>. DEFINE old == rows[src][i].name
            new == [rows[src][i] EXCEPT !.name = name]
<1>1. Shape /\ AllHeld /\ rows[src][i] \in Row
  BY RowsThere DEF IInv
<1>2. new \in Row /\ new.name = name
  BY <1>1 DEF Row, RowsAssumption
<1>3. Place(src, i, new)
  BY DEF Rename
<1>4. \A set \in SUBSET Mark :
        LET left == Doubted(Doubted(set, src, old), src, name)
        IN  left \subseteq Mark
            /\ \A m \in left : m.about # Unknown => m \in set /\ ~(m.source = src /\ m.name \in {old, name})
  <2>. SUFFICES ASSUME NEW set \in SUBSET Mark, NEW m \in Doubted(Doubted(set, src, old), src, name)
                PROVE  m \in Mark /\ (m.about # Unknown =>
                         m \in set /\ ~(m.source = src /\ m.name \in {old, name}))
    OBVIOUS
  <2>. HIDE DEF old
  <2>1. Doubted(set, src, old) \in SUBSET Mark
    BY DoubtedMarks
  <2>2. m \in Mark /\ (m.about # Unknown =>
          m \in Doubted(set, src, old) /\ ~(m.source = src /\ m.name = name))
    BY <2>1, DoubtedMarks
  <2>3. m \in Doubted(set, src, old) /\ m.about # Unknown => m \in set /\ ~(m.source = src /\ m.name = old)
    BY DoubtedMarks
  <2>4. QED
    BY <2>2, <2>3
<1>5. Lasting \in SUBSET marks /\ marks \in SUBSET Mark /\ verdict \in SUBSET Mark
  BY <1>1 DEF Lasting, Shape
<1>6. /\ marks' \subseteq Mark /\ verdict' \subseteq Mark
      /\ \A m \in marks' \cup verdict' : m.about # Unknown =>
           m \in marks \cup verdict /\ ~(m.source = src /\ m.name \in {old, name})
  BY <1>4, <1>5 DEF Rename
<1>7. AllHeld'
  <2>. SUFFICES ASSUME NEW m \in marks' \cup verdict' PROVE Held(m)'
    BY DEF AllHeld
  <2>1. CASE m.about = Unknown
    BY <2>1, UnknownHeld
  <2>2. CASE m.about # Unknown
    <3>1. m \in Mark /\ Held(m) /\ ~(m.source = src /\ m.name \in {new.name, rows[src][i].name})
      BY <1>1, <1>2, <1>6, <2>2 DEF AllHeld
    <3>2. QED
      BY <1>1, <1>2, <1>3, <3>1, PlacedHeld
  <2>3. QED
    BY <2>1, <2>2
<1>8. Shape'
  <2>1. rows' \in [Sources -> Seq(Row)]
    BY <1>1, <1>2, <1>3, Placed
  <2>2. verdict = {} => verdict' = {}
    BY DEF Rename, Doubted
  <2>3. UNCHANGED <<scheme, status, offered, flying>>
    BY DEF Rename
  <2>4. QED
    BY <1>1, <1>6, <2>1, <2>2, <2>3 DEF Shape
<1>9. QED
  BY <1>7, <1>8 DEF IInv

LEMMA UpdateKeeps ==
  ASSUME RowsAssumption, IInv, UNCHANGED scheme,
         NEW src \in Sources, NEW i \in DOMAIN rows[src],
         NEW mode \in Modes, NEW target \in Targets, Update(src, i, mode, target)
  PROVE  IInv'
<1>. DEFINE row == rows[src][i]
            new == [row EXCEPT !.mode = mode, !.target = target]
<1>1. Shape /\ AllHeld /\ row \in Row
  BY RowsThere DEF IInv
<1>2. new \in Row /\ new.name = row.name /\ (mode = row.mode /\ target = row.target => new = row)
  BY <1>1 DEF Row, Targets
<1>3. Place(src, i, new) /\ UNCHANGED <<status, offered, flying>>
  BY DEF Update
<1>4. marks' \subseteq marks /\ marks \subseteq Mark /\ verdict \in SUBSET Mark
  BY <1>1 DEF Update, Cleared, Shape
<1>5. /\ verdict' \subseteq Mark
      /\ \A m \in verdict' : m.about # Unknown => m \in verdict /\ ~(m.source = src /\ m.name = row.name)
  BY <1>4, DoubtedMarks DEF Update
<1>6. ASSUME NEW m \in Mark, Held(m), m.about # Unknown => ~(m.source = src /\ m.name = row.name)
      PROVE  Held(m)'
  BY <1>1, <1>2, <1>3, <1>6, PlacedHeld
<1>7. AllHeld'
  <2>1. ASSUME NEW m \in verdict' PROVE Held(m)'
    <3>1. CASE m.about = Unknown
      BY <3>1, UnknownHeld
    <3>2. CASE m.about # Unknown
      BY <1>1, <1>5, <1>6, <2>1, <3>2 DEF AllHeld
    <3>3. QED
      BY <3>1, <3>2
  <2>2. ASSUME NEW m \in marks' PROVE Held(m)'
    <3>1. m \in Mark /\ Held(m)
      BY <1>1, <1>4, <2>2 DEF AllHeld
    <3>2. CASE mode = row.mode /\ target = row.target
      <4>1. rows' = rows
        <5>1. rows' = [rows EXCEPT ![src] = [rows[src] EXCEPT ![i] = row]]
          BY <1>2, <1>3, <3>2 DEF Place
        <5>2. [rows[src] EXCEPT ![i] = row] = rows[src]
          <6>1. rows[src] = [j \in DOMAIN rows[src] |-> rows[src][j]]
            BY <1>1, RowsThere, LenProperties
          <6>2. QED
            BY <6>1
        <5>3. QED
          BY <1>1, <5>1, <5>2 DEF Shape
      <4>2. QED
        BY <3>1, <4>1, SameRowsHeld
    <3>3. CASE mode # row.mode \/ target # row.target
      <4>1. ~Hits(m, src, row)
        BY <2>2, <3>3 DEF Update, Cleared
      <4>2. m.about # Unknown => ~(m.source = src /\ m.name = row.name)
        BY <3>1, <4>1 DEF Hits, Held
      <4>3. QED
        BY <1>6, <3>1, <4>2
    <3>4. QED
      BY <3>2, <3>3
  <2>3. QED
    BY <2>1, <2>2 DEF AllHeld
<1>8. Shape'
  <2>1. rows' \in [Sources -> Seq(Row)]
    BY <1>1, <1>2, <1>3, Placed
  <2>2. verdict = {} => verdict' = {}
    BY DEF Update, Doubted
  <2>3. QED
    BY <1>1, <1>3, <1>4, <1>5, <2>1, <2>2 DEF Shape
<1>9. QED
  BY <1>7, <1>8 DEF IInv

LEMMA CloneKeeps ==
  ASSUME RowsAssumption, IInv, UNCHANGED scheme,
         NEW src \in Sources, NEW i \in DOMAIN rows[src], Clone(src, i)
  PROVE  IInv'
<1>. DEFINE row == rows[src][i]
            copy == [row EXCEPT !.name = IF @ = Blank THEN Blank ELSE DerivedName(@)]
<1>1. Shape /\ AllHeld /\ row \in Row /\ rows[src] \in Seq(Row)
      /\ DOMAIN rows[src] = 1 .. Len(rows[src]) /\ Len(rows[src]) \in Nat
  BY RowsThere DEF IInv
<1>2. row.name \in Names
  BY <1>1 DEF Row
<1>3. row.name # Blank => DerivedName(row.name) \in Names /\ Namesakes(DerivedName(row.name)) = {}
  BY <1>2, DerivedIsFree DEF Clone
<1>4. copy \in Row /\ copy.name = IF row.name = Blank THEN Blank ELSE DerivedName(row.name)
  BY <1>1, <1>3 DEF Row, RowsAssumption
<1>5. rows' = [rows EXCEPT ![src] = Append(rows[src], copy)] /\ UNCHANGED <<status, offered, marks, flying, verdict>>
  BY DEF Clone
<1>. HIDE DEF copy, row
<1>6. Append(rows[src], copy) \in Seq(Row)
  BY <1>1, <1>4, AppendProperties
<1>7. ToSet(Append(rows[src], copy)) = RowsOf(src) \cup {copy}
  <2>1. DOMAIN Append(rows[src], copy) = 1 .. Len(rows[src]) + 1
    BY <1>1, <1>4, AppendProperties, LenProperties
  <2>2. /\ \A j \in 1 .. Len(rows[src]) : Append(rows[src], copy)[j] = rows[src][j]
        /\ Append(rows[src], copy)[Len(rows[src]) + 1] = copy
    BY <1>1, <1>4, AppendProperties
  <2>3. QED
    BY <1>1, <2>1, <2>2 DEF RowsOf, ToSet
<1>8. ASSUME NEW m \in marks \cup verdict PROVE Held(m)'
  <2>1. m \in Mark /\ Held(m) /\ m.source \in Sources
    BY <1>1 DEF AllHeld, Shape, Mark
  <2>2. CASE m.source # src
    <3>1. RowsOf(m.source)' = RowsOf(m.source)
      BY <1>1, <1>5, <2>1, <2>2 DEF RowsOf, Shape
    <3>2. QED
      BY <2>1, <3>1, StillHeld
  <2>3. CASE m.source = src
    <3>1. RowsOf(src)' = RowsOf(src) \cup {copy}
      BY <1>1, <1>5, <1>7 DEF RowsOf, Shape
    <3>2. ASSUME m.about # Unknown, m.name # Blank, m.about \in RowsOf(src), copy.name = m.name PROVE FALSE
      <4>1. m.about.name = m.name
        BY <2>1, <3>2 DEF Held
      <4>2. PICK j \in DOMAIN rows[src] : m.about = rows[src][j]
        BY <3>2 DEF RowsOf, ToSet
      <4>3. <<src, j>> \in Namesakes(m.name)
        BY <4>1, <4>2, PlacesAre DEF Namesakes
      <4>4. Namesakes(m.name) = {}
        BY <1>3, <1>4, <3>2
      <4>5. QED
        BY <4>3, <4>4
    <3>3. QED
      BY <2>1, <2>3, <3>1, <3>2, StillHeld
  <2>4. QED
    BY <2>2, <2>3
<1>9. AllHeld'
  BY <1>5, <1>8 DEF AllHeld
<1>10. Shape'
  BY <1>1, <1>5, <1>6 DEF Shape
<1>11. QED
  BY <1>9, <1>10 DEF IInv

LEMMA DeleteKeeps ==
  ASSUME RowsAssumption, IInv, UNCHANGED scheme,
         NEW src \in Sources, NEW i \in DOMAIN rows[src], Delete(src, i)
  PROVE  IInv'
<1>. DEFINE row == rows[src][i]
<1>1. Shape /\ AllHeld /\ row \in Row /\ rows[src] \in Seq(Row) /\ i \in 1 .. Len(rows[src])
      /\ Len(rows[src]) \in Nat /\ DOMAIN rows[src] = 1 .. Len(rows[src])
  BY RowsThere DEF IInv
<1>2. rows' = [rows EXCEPT ![src] = RemoveAt(rows[src], i)] /\ UNCHANGED <<status, offered, flying>>
  BY DEF Delete
<1>3. /\ RemoveAt(rows[src], i) \in Seq(Row)
      /\ Len(RemoveAt(rows[src], i)) = Len(rows[src]) - 1
      /\ ToSet(RemoveAt(rows[src], i)) = {rows[src][j] : j \in DOMAIN rows[src] \ {i}}
  <2>1. i \in DOMAIN rows[src]
    OBVIOUS
  <2>2. RemoveAt(rows[src], i) \in Seq(Row) /\ Len(RemoveAt(rows[src], i)) = Len(rows[src]) - 1
    BY <1>1, <2>1, TakenOut
  <2>3. ToSet(RemoveAt(rows[src], i)) = {rows[src][j] : j \in DOMAIN rows[src] \ {i}}
    BY <1>1, <2>1, OthersLeft
  <2>4. QED
    BY <2>2, <2>3
<1>4. marks' \subseteq marks /\ marks \subseteq Mark /\ verdict \in SUBSET Mark
  BY <1>1 DEF Delete, Cleared, Shape
<1>5. /\ verdict' \subseteq Mark
      /\ \A m \in verdict' : m.about # Unknown => m \in verdict /\ ~(m.source = src /\ m.name = row.name)
  BY <1>4, DoubtedMarks DEF Delete
<1>. HIDE DEF row
<1>6. ASSUME NEW m \in Mark, Held(m), m.about # Unknown => ~(m.source = src /\ m.name = row.name)
      PROVE  Held(m)'
  <2>1. CASE m.about = Unknown
    BY <2>1, UnknownHeld
  <2>2. CASE m.about # Unknown /\ m.source # src
    <3>1. m.source \in Sources /\ RowsOf(m.source)' = RowsOf(m.source)
      BY <1>1, <1>2, <2>2 DEF RowsOf, Shape, Mark
    <3>2. QED
      BY <1>6, <3>1, StillHeld
  <2>3. CASE m.about # Unknown /\ m.source = src
    <3>1. RowsOf(src)' = {rows[src][j] : j \in DOMAIN rows[src] \ {i}}
      BY <1>1, <1>2, <1>3 DEF RowsOf, Shape
    <3>2. PICK j \in DOMAIN rows[src] : m.about = rows[src][j]
      BY <1>6, <2>3 DEF Held, RowsOf, ToSet
    <3>3. j # i
      BY <1>6, <2>3, <3>2 DEF Held, row
    <3>4. m.about \in RowsOf(src)' /\ RowsOf(src)' \subseteq RowsOf(src)
      BY <3>1, <3>2, <3>3 DEF RowsOf, ToSet
    <3>5. QED
      BY <1>6, <2>3, <3>4, StillHeld
  <2>4. QED
    BY <2>1, <2>2, <2>3
<1>7. AllHeld'
  <2>1. ASSUME NEW m \in verdict' PROVE Held(m)'
    <3>1. CASE m.about = Unknown
      BY <3>1, UnknownHeld
    <3>2. CASE m.about # Unknown
      BY <1>1, <1>5, <1>6, <2>1, <3>2 DEF AllHeld
    <3>3. QED
      BY <3>1, <3>2
  <2>2. ASSUME NEW m \in marks' PROVE Held(m)'
    <3>1. m \in Mark /\ Held(m) /\ ~Hits(m, src, row)
      BY <1>1, <1>4, <2>2 DEF AllHeld, Delete, Cleared, row
    <3>2. m.about # Unknown => ~(m.source = src /\ m.name = row.name)
      BY <3>1 DEF Hits, Held
    <3>3. QED
      BY <1>6, <3>1, <3>2
  <2>3. QED
    BY <2>1, <2>2 DEF AllHeld
<1>8. Shape'
  <2>1. rows' \in [Sources -> Seq(Row)]
    BY <1>1, <1>2, <1>3 DEF Shape
  <2>2. verdict = {} => verdict' = {}
    BY DEF Delete, Doubted
  <2>3. QED
    BY <1>1, <1>2, <1>4, <1>5, <2>1, <2>2 DEF Shape
<1>9. QED
  BY <1>7, <1>8 DEF IInv

\* A conversion keeps the rows that what is on its way is about, or forgets them.
LEMMA ConvertKeeps == ASSUME RowsAssumption, IInv, UNCHANGED scheme, Convert PROVE IInv'
<1>1. Shape /\ AllHeld /\ verdict \in SUBSET Mark
  BY DEF IInv, Shape
<1>2. PICK there \in Found, menu \in Offers : \E default \in Defaults(menu) :
        /\ status' = "editable" /\ offered' = menu
        /\ rows' = [src \in Sources |->
                      IF src \notin there THEN <<>>
                      ELSE IF rows[src] = <<>> THEN <<default[src]>> ELSE rows[src]]
        /\ marks' = {} /\ verdict' = Forgotten(verdict, Sources \ there)
        /\ UNCHANGED flying
  BY DEF Convert
<1>. PICK default \in Defaults(menu) :
        rows' = [src \in Sources |->
                  IF src \notin there THEN <<>>
                  ELSE IF rows[src] = <<>> THEN <<default[src]>> ELSE rows[src]]
  BY <1>2
<1>3. rows' \in [Sources -> Seq(Row)]
  <2>1. \A src \in Sources : <<default[src]>> \in Seq(Row) /\ rows[src] \in Seq(Row)
    BY <1>1, DefaultRows, RowsThere
  <2>2. <<>> \in Seq(Row)
    OBVIOUS
  <2>3. QED
    BY <1>2, <2>1, <2>2
<1>4. /\ verdict' \subseteq Mark
      /\ \A m \in verdict' : m.about # Unknown => m \in verdict /\ m.source \notin Sources \ there
  BY <1>1, <1>2, ForgottenMarks
<1>5. ASSUME NEW m \in verdict' PROVE Held(m)'
  <2>1. CASE m.about = Unknown
    BY <2>1, UnknownHeld
  <2>2. CASE m.about # Unknown
    <3>1. m \in verdict /\ m \in Mark /\ m.source \in Sources /\ m.source \in there /\ Held(m)
      BY <1>1, <1>4, <2>2 DEF AllHeld, Mark
    <3>2. rows[m.source] # <<>>
      BY <2>2, <3>1 DEF Held, RowsOf, ToSet
    <3>3. RowsOf(m.source)' = RowsOf(m.source)
      BY <1>2, <3>1, <3>2 DEF RowsOf
    <3>4. QED
      BY <3>1, <3>3, StillHeld
  <2>3. QED
    BY <2>1, <2>2
<1>6. verdict = {} => verdict' = {}
  BY <1>2 DEF Forgotten
<1>7. Shape'
  <2>1. status' = "editable" /\ offered' = menu /\ marks' = {} /\ UNCHANGED flying
    BY <1>2
  <2>2. offered' \subseteq Chains \cup Relays
    BY <2>1 DEF RowsAssumption
  <2>3. scheme' \in Schemes /\ (~flying' => verdict' = {})
    BY <1>1, <1>6, <2>1 DEF Shape
  <2>4. flying' \in BOOLEAN
    BY <1>1, <2>1 DEF Shape
  <2>5. QED
    BY <1>3, <1>4, <2>1, <2>2, <2>3, <2>4 DEF Shape
<1>8. AllHeld'
  BY <1>2, <1>5 DEF AllHeld
<1>9. QED
  BY <1>7, <1>8 DEF IInv

LEMMA ResetKeeps == ASSUME RowsAssumption, IInv, UNCHANGED scheme, Reset PROVE IInv'
<1>1. Shape /\ verdict = {}
  BY DEF IInv, Shape, Reset
<1>2. PICK there \in Found, menu \in Offers : \E default \in Defaults(menu) :
        /\ status' = "editable" /\ offered' = menu
        /\ rows' = [src \in Sources |-> IF src \in there THEN <<default[src]>> ELSE <<>>]
        /\ marks' = {} /\ UNCHANGED <<flying, verdict>>
  BY DEF Reset
<1>. PICK default \in Defaults(menu) :
        rows' = [src \in Sources |-> IF src \in there THEN <<default[src]>> ELSE <<>>]
  BY <1>2
<1>3. rows' \in [Sources -> Seq(Row)]
  <2>1. \A src \in Sources : <<default[src]>> \in Seq(Row)
    BY DefaultRows
  <2>2. <<>> \in Seq(Row)
    OBVIOUS
  <2>3. QED
    BY <1>2, <2>1, <2>2
<1>4. QED
  BY <1>1, <1>2, <1>3 DEF IInv, Shape, AllHeld, RowsAssumption

\* After a restore nothing is relied on.
LEMMA RestoreKeeps ==
  ASSUME RowsAssumption, IInv, UNCHANGED scheme, RestoreReplayable \/ RestoreConflicted
  PROVE  IInv'
<1>1. Shape /\ verdict \in SUBSET Mark
  BY DEF IInv, Shape
<1>2. PICK link \in Links : Restored(link)
  BY DEF RestoreReplayable, RestoreConflicted
<1>3. offered' \subseteq Chains \cup Relays /\ status' \in {"editable", "stale", "conflicted"}
  BY DEF RestoreReplayable, RestoreConflicted, RowsAssumption
<1>4. rows' \in [Sources -> Seq(Row)]
  BY <1>2 DEF Restored, RowsAssumption
<1>5. verdict' \subseteq Mark /\ \A m \in verdict' : m.about = Unknown
  <2>1. /\ verdict' \subseteq Mark
        /\ \A m \in verdict' : m.about # Unknown => m.source \notin Sources
    BY <1>1, <1>2, ForgottenMarks DEF Restored
  <2>2. QED
    BY <2>1 DEF Mark
<1>6. \A m \in marks' \cup verdict' : Held(m)'
  BY <1>2, <1>5, UnknownHeld DEF Restored
<1>7. verdict = {} => verdict' = {}
  BY <1>2 DEF Restored, Forgotten
<1>8. marks' = {} /\ UNCHANGED flying
  BY <1>2 DEF Restored
<1>9. QED
  BY <1>1, <1>3, <1>4, <1>5, <1>6, <1>7, <1>8 DEF IInv, Shape, AllHeld

\* The new mode and target of a row are those of a menu: a service is free, or
\* the row's own.
Suits(src, i, mode, target) ==
  /\ mode \in Modes /\ target \in Targets
  /\ mode = "port_forward" =>
       \/ target \in {Unset} \cup RelayChoices(rows[src][i])
       \/ rows[src][i].mode = "port_forward" /\ target = rows[src][i].target

LEMMA ChooseIs ==
  ASSUME RowsAssumption, Shape, NEW src \in Sources, NEW i \in DOMAIN rows[src], NEW o,
         o.op = "mode" => o.to \in Modes,
         o.op = "target" =>
           \/ o.to \in {Unset} \cup Selectable(rows[src][i], rows[src][i].mode)
           \/ o.to = rows[src][i].target,
         Choose(src, i, o)
  PROVE  \E mode \in Modes, target \in Targets :
           Suits(src, i, mode, target) /\ Update(src, i, mode, target)
<1>. DEFINE row == rows[src][i]
<1>1. row \in Row /\ offered \subseteq Chains \cup Relays
  BY RowsThere DEF Shape
<1>. HIDE DEF row
<1>2. ASSUME NEW mode \in Modes, NEW target \in {Unset} \cup Selectable(row, mode)
      PROVE  Suits(src, i, mode, target)
  <2>1. target \in Targets
    BY <1>1, <1>2 DEF Selectable, RelayChoices, Targets, Modes
  <2>2. mode = "port_forward" => Selectable(row, mode) = RelayChoices(row)
    BY DEF Selectable
  <2>3. QED
    BY <1>2, <2>1, <2>2 DEF Suits, row
<1>3. CASE o.op = "mode" /\ ChangeMode(src, i, o.to)
  <2>1. NextTarget(row, o.to) \in {Unset} \cup Selectable(row, o.to)
    BY DEF NextTarget
  <2>2. Suits(src, i, o.to, NextTarget(row, o.to))
    BY <1>2, <1>3, <2>1
  <2>3. QED
    BY <1>3, <2>2 DEF ChangeMode, Suits, row
<1>4. CASE o.op = "target" /\ ChangeTarget(src, i, o.to)
  <2>1. row.mode \in Modes /\ row.target \in Targets
    BY <1>1 DEF Row, Targets
  <2>2. Suits(src, i, row.mode, o.to)
    <3>1. CASE o.to \in {Unset} \cup Selectable(row, row.mode)
      BY <1>2, <2>1, <3>1
    <3>2. CASE o.to = row.target
      BY <2>1, <3>2 DEF Suits, row
    <3>3. QED
      BY <1>4, <3>1, <3>2 DEF row
  <2>3. QED
    BY <1>4, <2>2 DEF ChangeTarget, Suits, row
<1>5. QED
  BY <1>3, <1>4 DEF Choose

\* What the user's edits do to a row.
RowEdit(src, i) ==
  \/ \E name \in Typed : Rename(src, i, name)
  \/ \E mode \in Modes, target \in Targets :
       Suits(src, i, mode, target) /\ Update(src, i, mode, target)
  \/ Clone(src, i)
  \/ Delete(src, i)

LEMMA EditIs ==
  ASSUME RowsAssumption, Shape, Edit
  PROVE  Blur \/ \E src \in Sources : \E i \in DOMAIN rows[src] : RowEdit(src, i)
<1>1. ASSUME NEW src \in Sources, NEW i \in DOMAIN rows[src],
             NEW o \in Operations(src, i), Perform(src, i, o)
      PROVE  RowEdit(src, i)
  <2>1. /\ o.op = "mode" => o.to \in Modes
        /\ o.op = "target" => o.to \in {Unset} \cup Selectable(rows[src][i], rows[src][i].mode)
    BY OperationsFit
  <2>2. CASE Choose(src, i, o)
    BY <2>1, <2>2, ChooseIs DEF RowEdit
  <2>3. QED
    BY <1>1, <2>2 DEF Perform, RowEdit
<1>2. ASSUME NEW src \in Sources, NEW i \in DOMAIN rows[src],
             NEW o \in OpenMenus(rows[src][i]), Choose(src, i, o)
      PROVE  RowEdit(src, i)
  <2>1. rows[src][i] \in Row
    BY RowsThere
  <2>2. /\ o.op = "mode" => o.to \in Modes
        /\ o.op = "target" => o.to \in {Unset, rows[src][i].target}
    BY <2>1 DEF OpenMenus, When, ToMode, ToTarget, Row
  <2>3. QED
    BY <1>2, <2>2, ChooseIs DEF RowEdit
<1>3. QED
  BY <1>1, <1>2 DEF Edit, RowEdit

\* What leaves the rows alone, and what brings others.
Quiet  == UNCHANGED vars \/ Blur \/ EditInput \/ Generate \/ Answer \/ Failure \/ Request
Brings == Convert \/ Reset \/ RestoreReplayable \/ RestoreConflicted

LEMMA QuietIs == Quiet => UNCHANGED rows
  BY DEF Quiet, vars, Blur, EditInput, Generate, Answer, Failure, Answered, Request

LEMMA BringsIs == Brings => marks' = {}
  BY DEF Brings, Convert, Reset, RestoreReplayable, RestoreConflicted, Restored

\* What a step does to the rows.
LEMMA StepIs ==
  ASSUME RowsAssumption, Shape, [Next]_vars
  PROVE  /\ UNCHANGED scheme
         /\ Quiet \/ Brings \/ \E src \in Sources : \E i \in DOMAIN rows[src] : RowEdit(src, i)
<1>1. CASE UNCHANGED vars
  BY <1>1 DEF vars, Quiet
<1>2. CASE Edit /\ UNCHANGED scheme
  BY <1>2, EditIs DEF Quiet
<1>3. CASE ~Edit /\ Next
  BY <1>3 DEF Next, Quiet, Brings
<1>4. QED
  BY <1>1, <1>2, <1>3 DEF Next

\* The page's own marks are about no row in particular.
LEMMA DuplicateMarks ==
  ASSUME RowsAssumption, Shape
  PROVE  Duplicates \subseteq Mark /\ \A m \in Duplicates : m.about = Unknown
<1>. SUFFICES ASSUME NEW m \in Duplicates PROVE m \in Mark /\ m.about = Unknown
  OBVIOUS
<1>1. PICK p \in Places :
        m = [source |-> p[1], name |-> rows[p[1]][p[2]].name, code |-> "duplicate", about |-> Unknown]
  BY DEF Duplicates
<1>2. PICK src \in Sources : \E i \in DOMAIN rows[src] : p = <<src, i>>
  BY DEF Places
<1>. PICK i \in DOMAIN rows[src] : p = <<src, i>>
  BY <1>2
<1>3. rows[src][i] \in Row
  BY RowsThere
<1>4. QED
  BY <1>1, <1>2, <1>3, UnknownRow DEF Mark, Row

\* What the server finds is about the rows it is sent, whose names differ.
LEMMA RefusalMarks ==
  ASSUME RowsAssumption, Shape, Duplicates = {}, NEW menu, NEW there
  PROVE  Refusals(menu, there) \subseteq Mark /\ \A m \in Refusals(menu, there) : Held(m)
<1>. SUFFICES ASSUME NEW m \in Refusals(menu, there) PROVE m \in Mark /\ Held(m)
  OBVIOUS
<1>1. Namesakes(Blank) = {} /\ \E p \in Places : m = Refusal(p[1], At(p))
  BY DEF Refusals
<1>2. PICK p \in Places : m = Refusal(p[1], At(p))
  BY <1>1
<1>3. PICK src \in Sources : \E i \in DOMAIN rows[src] : p = <<src, i>>
  BY DEF Places
<1>. PICK i \in DOMAIN rows[src] : p = <<src, i>>
  BY <1>3
<1>4. rows[src][i] \in Row
  BY RowsThere
<1>5. m = [source |-> src, name |-> rows[src][i].name, code |-> "refused", about |-> rows[src][i]]
  BY <1>2, <1>3 DEF Refusal, At
<1>6. m \in Mark
  BY <1>4, <1>5 DEF Mark, Row
<1>7. m.name # Blank
  <2>1. <<src, i>> \in Places
    BY PlacesAre
  <2>2. QED
    BY <1>1, <1>5, <2>1 DEF Namesakes
<1>8. m.about \in RowsOf(m.source)
  BY <1>5 DEF RowsOf, ToSet
<1>9. ASSUME NEW row \in RowsOf(m.source), row.name = m.name PROVE row = m.about
  <2>1. PICK j \in DOMAIN rows[src] : row = rows[src][j]
    BY <1>5, <1>9 DEF RowsOf, ToSet
  <2>2. i = j
    BY <1>5, <1>7, <1>9, <2>1, OnePlace
  <2>3. QED
    BY <1>5, <2>1, <2>2
<1>10. QED
  BY <1>5, <1>6, <1>7, <1>8, <1>9 DEF Held

LEMMA NextIInv ==
  ASSUME RowsAssumption, IInv, [Next]_vars
  PROVE  IInv'
<1>1. Shape /\ AllHeld
  BY DEF IInv
<1>2. CASE UNCHANGED vars
  BY <1>1, <1>2 DEF vars, IInv, Shape, AllHeld, Held, RowsOf
<1>3. ASSUME UNCHANGED <<scheme, offered, rows>>, status' \in {"editable", "stale", "conflicted"},
             marks' \subseteq Mark, verdict' \subseteq Mark, flying' \in BOOLEAN,
             ~flying' => verdict' = {},
             \A m \in marks' \cup verdict' : m.about = Unknown \/ Held(m)
      PROVE  IInv'
  <2>1. AllHeld'
    BY <1>3, UnknownHeld, SameRowsHeld DEF AllHeld
  <2>2. Shape'
    BY <1>1, <1>3 DEF Shape
  <2>3. QED
    BY <2>1, <2>2 DEF IInv
<1>4. CASE UNCHANGED scheme /\ Blur
  <2>1. UNCHANGED <<status, offered, rows, flying, verdict>> /\ marks' = Lasting \cup Duplicates
    BY <1>4 DEF Blur
  <2>2. \A m \in marks' \cup verdict' : m \in Mark /\ (m.about = Unknown \/ Held(m))
    BY <1>1, <2>1, DuplicateMarks DEF Lasting, AllHeld, Shape
  <2>3. QED
    BY <1>1, <1>3, <1>4, <2>1, <2>2 DEF Shape
<1>5. CASE UNCHANGED scheme /\ Generate
  <2>1. CASE Duplicates # {}
    BY <1>1, <1>3, <1>5, <2>1, DuplicateMarks DEF Generate, Shape, AllHeld
  <2>2. CASE Duplicates = {}
    <3>1. PICK menu \in Offers, there \in Found : verdict' = Refusals(menu, there)
      BY <1>5, <2>2 DEF Generate
    <3>2. verdict' \subseteq Mark /\ \A m \in verdict' : Held(m)
      BY <1>1, <2>2, <3>1, RefusalMarks
    <3>3. QED
      BY <1>1, <1>3, <1>5, <2>2, <3>2 DEF Generate, Shape
  <2>3. QED
    BY <2>1, <2>2
<1>6. CASE UNCHANGED scheme /\ (Answer \/ Failure)
  BY <1>1, <1>3, <1>6 DEF Answer, Failure, Answered, Shape, AllHeld
<1>7. CASE UNCHANGED scheme /\ (EditInput \/ Request)
  BY <1>1, <1>3, <1>7 DEF EditInput, Request, Shape, AllHeld
<1>8. CASE UNCHANGED scheme /\ Brings
  BY <1>8, ConvertKeeps, ResetKeeps, RestoreKeeps DEF Brings
<1>9. ASSUME UNCHANGED scheme, NEW src \in Sources, NEW i \in DOMAIN rows[src], RowEdit(src, i)
      PROVE  IInv'
  BY <1>9, RenameKeeps, UpdateKeeps, CloneKeeps, DeleteKeeps DEF RowEdit
<1>10. QED
  BY <1>1, <1>2, <1>4, <1>5, <1>6, <1>7, <1>8, <1>9, StepIs DEF Quiet

-----------------------------------------------------------------------------
(* What a step changes *)

\* Updating a row changes its mode and its target.
LEMMA Updated ==
  ASSUME Shape, NEW src \in Sources, NEW i \in DOMAIN rows[src],
         NEW mode \in Modes, NEW target \in Targets, Update(src, i, mode, target)
  PROVE  /\ \A t \in Sources \ {src} : rows'[t] = rows[t]
         /\ DOMAIN rows'[src] = DOMAIN rows[src]
         /\ \A j \in DOMAIN rows[src] \ {i} : rows'[src][j] = rows[src][j]
         /\ rows'[src][i].name = rows[src][i].name
         /\ rows'[src][i].mode = mode /\ rows'[src][i].target = target
<1>. DEFINE new == [rows[src][i] EXCEPT !.mode = mode, !.target = target]
<1>1. new \in Row /\ new.name = rows[src][i].name /\ new.mode = mode /\ new.target = target
  BY RowsThere DEF Row, Targets
<1>2. Place(src, i, new)
  BY DEF Update
<1>. HIDE DEF new
<1>3. QED
  BY <1>1, <1>2, Placed

\* Renaming one changes its name.
LEMMA Renamed ==
  ASSUME RowsAssumption, Shape, NEW src \in Sources, NEW i \in DOMAIN rows[src],
         NEW name \in Typed, Rename(src, i, name)
  PROVE  /\ \A t \in Sources \ {src} : rows'[t] = rows[t]
         /\ DOMAIN rows'[src] = DOMAIN rows[src]
         /\ \A j \in DOMAIN rows[src] \ {i} : rows'[src][j] = rows[src][j]
         /\ rows'[src][i].name # rows[src][i].name
         /\ rows'[src][i].mode = rows[src][i].mode /\ rows'[src][i].target = rows[src][i].target
<1>. DEFINE new == [rows[src][i] EXCEPT !.name = name]
<1>1. /\ new \in Row /\ new.name = name
      /\ new.mode = rows[src][i].mode /\ new.target = rows[src][i].target
  <2>1. rows[src][i] \in Row /\ name \in Names
    BY RowsThere DEF RowsAssumption
  <2>2. QED
    BY <2>1 DEF Row
<1>2. Place(src, i, new) /\ name # rows[src][i].name
  BY DEF Rename
<1>. HIDE DEF new
<1>3. QED
  BY <1>1, <1>2, Placed

\* Copying one adds a row.
LEMMA Copied ==
  ASSUME RowsAssumption, Shape, NEW src \in Sources, NEW i \in DOMAIN rows[src], Clone(src, i)
  PROVE  /\ \A t \in Sources \ {src} : rows'[t] = rows[t]
         /\ DOMAIN rows[src] \subseteq DOMAIN rows'[src]
         /\ \A j \in DOMAIN rows[src] : rows'[src][j] = rows[src][j]
         /\ Len(rows'[src]) > Len(rows[src])
<1>. DEFINE copy == [rows[src][i] EXCEPT !.name = IF @ = Blank THEN Blank ELSE DerivedName(@)]
<1>1. /\ rows' = [rows EXCEPT ![src] = Append(rows[src], copy)]
      /\ rows[src] \in Seq(Row) /\ rows[src][i] \in Row
      /\ DOMAIN rows[src] = 1 .. Len(rows[src]) /\ Len(rows[src]) \in Nat
  BY RowsThere DEF Clone
<1>2. rows[src][i].name \in Names
  BY <1>1 DEF Row
<1>3. copy \in Row
  BY <1>1, <1>2, DerivedIsFree DEF Clone, Row, RowsAssumption
<1>. HIDE DEF copy
<1>4. /\ Len(Append(rows[src], copy)) = Len(rows[src]) + 1
      /\ DOMAIN Append(rows[src], copy) = 1 .. Len(rows[src]) + 1
      /\ \A j \in 1 .. Len(rows[src]) : Append(rows[src], copy)[j] = rows[src][j]
  BY <1>1, <1>3, AppendProperties, LenProperties
<1>5. rows'[src] = Append(rows[src], copy) /\ \A t \in Sources \ {src} : rows'[t] = rows[t]
  BY <1>1 DEF Shape
<1>6. QED
  BY <1>1, <1>4, <1>5

\* Deleting one moves those behind it up.
LEMMA Deleted ==
  ASSUME Shape, NEW src \in Sources, NEW i \in DOMAIN rows[src], Delete(src, i)
  PROVE  /\ \A t \in Sources \ {src} : rows'[t] = rows[t]
         /\ i \in 1 .. Len(rows[src]) /\ Len(rows[src]) \in Nat
         /\ DOMAIN rows[src] = 1 .. Len(rows[src])
         /\ Len(rows'[src]) = Len(rows[src]) - 1
         /\ DOMAIN rows'[src] = 1 .. Len(rows[src]) - 1
         /\ \A j \in 1 .. Len(rows[src]) - 1 :
              rows'[src][j] = IF j < i THEN rows[src][j] ELSE rows[src][j + 1]
<1>1. /\ rows' = [rows EXCEPT ![src] = RemoveAt(rows[src], i)]
      /\ rows[src] \in Seq(Row) /\ DOMAIN rows[src] = 1 .. Len(rows[src]) /\ Len(rows[src]) \in Nat
  BY RowsThere DEF Delete
<1>2. /\ RemoveAt(rows[src], i) \in Seq(Row) /\ Len(RemoveAt(rows[src], i)) = Len(rows[src]) - 1
      /\ \A j \in 1 .. Len(rows[src]) - 1 :
           RemoveAt(rows[src], i)[j] = IF j < i THEN rows[src][j] ELSE rows[src][j + 1]
  BY <1>1, TakenOut
<1>3. DOMAIN RemoveAt(rows[src], i) = 1 .. Len(rows[src]) - 1
  BY <1>2, LenProperties
<1>4. rows'[src] = RemoveAt(rows[src], i) /\ \A t \in Sources \ {src} : rows'[t] = rows[t]
  BY <1>1 DEF Shape
<1>5. QED
  BY <1>1, <1>2, <1>3, <1>4

\* Where a row comes to stand, and where it stood, when the row at `at` is
\* deleted.
Down(at, p) == IF p[1] = at[1] /\ p[2] > at[2] THEN <<p[1], p[2] - 1>> ELSE p
Up(at, p)   == IF p[1] = at[1] /\ ~(p[2] < at[2]) THEN <<p[1], p[2] + 1>> ELSE p

LEMMA DeletedPlaces ==
  ASSUME Shape, NEW src \in Sources, NEW i \in DOMAIN rows[src], Delete(src, i)
  PROVE  /\ \A p \in Places' : Up(<<src, i>>, p) \in Places /\ At(p)' = At(Up(<<src, i>>, p))
         /\ \A p \in Places \ {<<src, i>>} :
              Down(<<src, i>>, p) \in Places' /\ At(Down(<<src, i>>, p))' = At(p)
         /\ \A p, q \in Places' : Up(<<src, i>>, p) = Up(<<src, i>>, q) => p = q
         /\ \A p, q \in Places \ {<<src, i>>} : Down(<<src, i>>, p) = Down(<<src, i>>, q) => p = q
<1>1. /\ \A t \in Sources \ {src} : rows'[t] = rows[t]
      /\ i \in 1 .. Len(rows[src]) /\ Len(rows[src]) \in Nat
      /\ DOMAIN rows[src] = 1 .. Len(rows[src])
      /\ DOMAIN rows'[src] = 1 .. Len(rows[src]) - 1
      /\ \A j \in 1 .. Len(rows[src]) - 1 :
           rows'[src][j] = IF j < i THEN rows[src][j] ELSE rows[src][j + 1]
  BY Deleted
<1>2. \A p \in Places : p = <<p[1], p[2]>> /\ p[1] \in Sources /\ p[2] \in DOMAIN rows[p[1]]
  BY DEF Places
<1>3. \A p \in Places' : p = <<p[1], p[2]>> /\ p[1] \in Sources /\ p[2] \in DOMAIN rows'[p[1]]
  BY DEF Places
<1>4. \A t \in Sources : \A j : j \in DOMAIN rows'[t] => <<t, j>> \in Places'
  BY DEF Places
<1>5. ASSUME NEW p \in Places' PROVE Up(<<src, i>>, p) \in Places /\ At(p)' = At(Up(<<src, i>>, p))
  <2>1. CASE p[1] # src
    BY <1>1, <1>3, <2>1, PlacesAre DEF Up, At
  <2>2. CASE p[1] = src
    <3>1. p[2] \in 1 .. Len(rows[src]) - 1 /\ p = <<src, p[2]>>
      BY <1>1, <1>3, <2>2
    <3>2. p[2] \in 1 .. Len(rows[src]) /\ p[2] + 1 \in 1 .. Len(rows[src])
      BY <1>1, <3>1
    <3>3. CASE p[2] < i
      BY <1>1, <2>2, <3>1, <3>2, <3>3, PlacesAre DEF Up, At
    <3>4. CASE ~(p[2] < i)
      <4>1. Up(<<src, i>>, p) = <<src, p[2] + 1>>
        BY <2>2, <3>4 DEF Up
      <4>2. <<src, p[2] + 1>> \in Places
        BY <1>1, <3>2, PlacesAre
      <4>3. rows'[src][p[2]] = rows[src][p[2] + 1]
        BY <1>1, <3>1, <3>4
      <4>4. QED
        BY <2>2, <4>1, <4>2, <4>3 DEF At
    <3>5. QED
      BY <3>3, <3>4
  <2>3. QED
    BY <2>1, <2>2
<1>6. ASSUME NEW p \in Places \ {<<src, i>>}
      PROVE  Down(<<src, i>>, p) \in Places' /\ At(Down(<<src, i>>, p))' = At(p)
  <2>1. CASE p[1] # src
    <3>1. p = <<p[1], p[2]>> /\ p[1] \in Sources \ {src} /\ p[2] \in DOMAIN rows'[p[1]]
      BY <1>1, <1>2, <2>1
    <3>2. Down(<<src, i>>, p) = p
      BY <2>1 DEF Down
    <3>3. p \in Places'
      BY <1>4, <3>1
    <3>4. QED
      BY <1>1, <3>1, <3>2, <3>3 DEF At
  <2>2. CASE p[1] = src
    <3>1. p[2] \in 1 .. Len(rows[src]) /\ p = <<src, p[2]>> /\ p[2] # i
      BY <1>1, <1>2, <2>2
    <3>2. CASE p[2] > i
      <4>1. Down(<<src, i>>, p) = <<src, p[2] - 1>>
        BY <2>2, <3>2 DEF Down
      <4>2. p[2] - 1 \in 1 .. Len(rows[src]) - 1 /\ ~(p[2] - 1 < i) /\ (p[2] - 1) + 1 = p[2]
        BY <1>1, <3>1, <3>2
      <4>3. <<src, p[2] - 1>> \in Places'
        BY <1>1, <1>4, <4>2
      <4>4. rows'[src][p[2] - 1] = rows[src][p[2]]
        BY <1>1, <4>2
      <4>5. QED
        BY <2>2, <4>1, <4>3, <4>4 DEF At
    <3>3. CASE ~(p[2] > i)
      <4>1. Down(<<src, i>>, p) = p
        BY <3>3 DEF Down
      <4>2. p[2] \in 1 .. Len(rows[src]) - 1 /\ p[2] < i
        BY <1>1, <3>1, <3>3
      <4>3. p \in Places'
        BY <1>1, <1>4, <3>1, <4>2
      <4>4. rows'[src][p[2]] = rows[src][p[2]]
        BY <1>1, <4>2
      <4>5. QED
        BY <2>2, <4>1, <4>3, <4>4 DEF At
    <3>4. QED
      BY <3>2, <3>3
  <2>3. QED
    BY <2>1, <2>2
<1>7. ASSUME NEW p \in Places', NEW q \in Places', Up(<<src, i>>, p) = Up(<<src, i>>, q) PROVE p = q
  <2>1. /\ p = <<p[1], p[2]>> /\ q = <<q[1], q[2]>>
        /\ (p[1] = src => p[2] \in Int) /\ (q[1] = src => q[2] \in Int) /\ i \in Int
    BY <1>1, <1>3
  <2>2. p[1] = q[1]
    BY <1>7, <2>1 DEF Up
  <2>3. CASE p[1] = src
    <3>1. p[2] = q[2]
      BY <1>7, <2>1, <2>2, <2>3 DEF Up
    <3>2. QED
      BY <2>1, <2>2, <3>1
  <2>4. CASE p[1] # src
    BY <1>7, <2>2, <2>4 DEF Up
  <2>5. QED
    BY <2>3, <2>4
<1>8. ASSUME NEW p \in Places \ {<<src, i>>}, NEW q \in Places \ {<<src, i>>},
             Down(<<src, i>>, p) = Down(<<src, i>>, q)
      PROVE  p = q
  <2>1. /\ p = <<p[1], p[2]>> /\ q = <<q[1], q[2]>>
        /\ (p[1] = src => p[2] \in Int /\ p[2] # i) /\ (q[1] = src => q[2] \in Int /\ q[2] # i) /\ i \in Int
    BY <1>1, <1>2
  <2>2. p[1] = q[1]
    BY <1>8, <2>1 DEF Down
  <2>3. CASE p[1] = src
    <3>1. p[2] = q[2]
      BY <1>8, <2>1, <2>2, <2>3 DEF Down
    <3>2. QED
      BY <2>1, <2>2, <3>1
  <2>4. CASE p[1] # src
    BY <1>8, <2>2, <2>4 DEF Down
  <2>5. QED
    BY <2>3, <2>4
<1>9. QED
  BY <1>5, <1>6, <1>7, <1>8

-----------------------------------------------------------------------------
(* Services *)

\* What a catalog brings has no service, and what a conversion keeps is as it
\* was.
LEMMA BroughtUsers ==
  ASSUME RowsAssumption, Shape, NEW relay \in Relays, Convert \/ Reset
  PROVE  Users(relay)' \subseteq Users(relay)
<1>1. ASSUME NEW src \in Sources
      PROVE  \/ rows'[src] \in {<<>>, rows[src]}
             \/ \E row : rows'[src] = <<row>> /\ row.target \notin Relays
  <2>1. CASE Convert
    <3>1. PICK there \in Found, menu \in Offers : \E default \in Defaults(menu) :
            rows'[src] = IF src \notin there THEN <<>>
                         ELSE IF rows[src] = <<>> THEN <<default[src]>> ELSE rows[src]
      BY <2>1 DEF Convert
    <3>2. PICK default \in Defaults(menu) :
            rows'[src] = IF src \notin there THEN <<>>
                         ELSE IF rows[src] = <<>> THEN <<default[src]>> ELSE rows[src]
      BY <3>1
    <3>3. QED
      BY <3>2, DefaultRows
  <2>2. CASE Reset
    <3>1. PICK there \in Found, menu \in Offers : \E default \in Defaults(menu) :
            rows'[src] = IF src \in there THEN <<default[src]>> ELSE <<>>
      BY <2>2 DEF Reset
    <3>2. PICK default \in Defaults(menu) :
            rows'[src] = IF src \in there THEN <<default[src]>> ELSE <<>>
      BY <3>1
    <3>3. QED
      BY <3>2, DefaultRows
  <2>3. QED
    BY <2>1, <2>2
<1>2. ASSUME NEW p \in Users(relay)' PROVE p \in Users(relay)
  <2>1. /\ p = <<p[1], p[2]>> /\ p[1] \in Sources /\ p[2] \in DOMAIN rows'[p[1]]
        /\ rows'[p[1]][p[2]].mode = "port_forward" /\ rows'[p[1]][p[2]].target = relay
    BY DEF Users, Places, At
  <2>2. rows'[p[1]] # <<>>
    BY <2>1
  <2>3. ASSUME NEW row, rows'[p[1]] = <<row>> PROVE row.target = relay
    BY <2>1, <2>3
  <2>4. rows'[p[1]] = rows[p[1]]
    BY <1>1, <2>1, <2>2, <2>3
  <2>5. QED
    BY <2>1, <2>4 DEF Users, Places, At
<1>3. QED
  BY <1>2

\* A link uses no service twice.
LEMMA RestoredUsers ==
  ASSUME RowsAssumption, NEW relay \in Relays, RestoreReplayable \/ RestoreConflicted
  PROVE  \A p, q \in Users(relay)' : p = q
<1>1. PICK link \in Links : rows' = link
  BY DEF RestoreReplayable, RestoreConflicted, Restored
<1>2. Linked(link)
  BY DEF RowsAssumption
<1>3. \A p \in Users(relay)' :
        /\ p = <<p[1], p[2]>> /\ p[1] \in Sources /\ p[2] \in DOMAIN link[p[1]]
        /\ link[p[1]][p[2]].mode = "port_forward" /\ link[p[1]][p[2]].target = relay
  BY <1>1 DEF Users, Places, At
<1>4. QED
  BY <1>2, <1>3 DEF Linked

\* Only a copy brings a row to a service that another one has: the menus offer
\* what is free, and the row's own.
LEMMA SharingIsCopied ==
  ASSUME RowsAssumption, Shape, [Next]_vars
  PROVE  SharedByCopy
<1>. SUFFICES ASSUME ~\E src \in Sources : Len(rows'[src]) > Len(rows[src]), NEW relay \in Relays
              PROVE  \/ ~(Cardinality(Users(relay)') > 1)
                     \/ ~(Cardinality(Users(relay)') > Cardinality(Users(relay)))
  BY DEF SharedByCopy
<1>1. IsFiniteSet(Users(relay)) /\ Cardinality(Users(relay)) \in Nat
  <2>1. IsFiniteSet(Users(relay))
    BY PlacesFinite, FS_Subset DEF Users
  <2>2. QED
    BY <2>1, FS_CardinalityType
<1>2. ASSUME NEW f \in Injection(Users(relay)', Users(relay))
      PROVE  ~(Cardinality(Users(relay)') > Cardinality(Users(relay)))
  <2>1. IsFiniteSet(Users(relay)') /\ Cardinality(Users(relay)') <= Cardinality(Users(relay))
    BY <1>1, FS_Injection
  <2>2. Cardinality(Users(relay)') \in Nat
    BY <2>1, FS_CardinalityType
  <2>3. QED
    BY <1>1, <2>1, <2>2
<1>3. CASE Users(relay)' \subseteq Users(relay)
  <2>1. [p \in Users(relay)' |-> p] \in Injection(Users(relay)', Users(relay))
    BY <1>3 DEF Injection, IsInjective
  <2>2. QED
    BY <1>2, <2>1
<1>4. CASE UNCHANGED rows
  BY <1>3, <1>4 DEF Users, Places, At
<1>5. ASSUME NEW src \in Sources, NEW i \in DOMAIN rows[src],
             \A t \in Sources \ {src} : rows'[t] = rows[t], DOMAIN rows'[src] = DOMAIN rows[src],
             \A j \in DOMAIN rows[src] \ {i} : rows'[src][j] = rows[src][j]
      PROVE  /\ Places' = Places
             /\ \A p \in Places \ {<<src, i>>} : At(p)' = At(p)
             /\ <<src, i>> \in Places
  <2>1. \A t \in Sources : DOMAIN rows'[t] = DOMAIN rows[t]
    BY <1>5
  <2>2. Places' = Places
    BY <2>1 DEF Places
  <2>3. ASSUME NEW p \in Places \ {<<src, i>>} PROVE At(p)' = At(p)
    <3>1. p = <<p[1], p[2]>> /\ p[1] \in Sources /\ p[2] \in DOMAIN rows[p[1]]
      BY DEF Places
    <3>2. QED
      BY <1>5, <3>1 DEF At
  <2>4. QED
    BY <2>2, <2>3, PlacesAre
<1>6. ASSUME NEW src \in Sources, NEW i \in DOMAIN rows[src], NEW name \in Typed, Rename(src, i, name)
      PROVE  Users(relay)' \subseteq Users(relay)
  <2>1. /\ Places' = Places
        /\ \A p \in Places \ {<<src, i>>} : At(p)' = At(p)
    BY <1>5, <1>6, Renamed
  <2>2. At(<<src, i>>)'.mode = At(<<src, i>>).mode /\ At(<<src, i>>)'.target = At(<<src, i>>).target
    BY <1>6, Renamed DEF At
  <2>3. QED
    BY <2>1, <2>2 DEF Users
<1>7. ASSUME NEW src \in Sources, NEW i \in DOMAIN rows[src], NEW mode \in Modes, NEW target \in Targets,
             Suits(src, i, mode, target), Update(src, i, mode, target)
      PROVE  Users(relay)' \subseteq Users(relay) \/ Users(relay)' \subseteq {<<src, i>>}
  <2>1. /\ Places' = Places /\ <<src, i>> \in Places
        /\ \A p \in Places \ {<<src, i>>} : At(p)' = At(p)
    BY <1>5, <1>7, Updated
  <2>2. At(<<src, i>>)'.mode = mode /\ At(<<src, i>>)'.target = target
    BY <1>7, Updated DEF At
  <2>3. Users(relay)' \subseteq Users(relay) \cup {<<src, i>>}
    BY <2>1 DEF Users
  <2>4. CASE mode # "port_forward" \/ target # relay
    BY <2>1, <2>2, <2>3, <2>4 DEF Users
  <2>5. CASE mode = "port_forward" /\ target = relay
    <3>1. \/ relay \in RelayChoices(rows[src][i])
          \/ rows[src][i].mode = "port_forward" /\ relay = rows[src][i].target
      BY <1>7, <2>5 DEF Suits, RowsAssumption
    <3>2. CASE rows[src][i].mode = "port_forward" /\ relay = rows[src][i].target
      BY <2>1, <2>3, <3>2 DEF Users, At
    <3>3. CASE ~(rows[src][i].mode = "port_forward" /\ relay = rows[src][i].target)
      <4>1. relay \notin Selected
        BY <3>1, <3>3 DEF RelayChoices, When
      <4>2. relay # Unset
        BY DEF RowsAssumption
      <4>3. Users(relay) = {}
        <5>. SUFFICES ASSUME NEW p \in Users(relay) PROVE FALSE
          OBVIOUS
        <5>1. p[1] \in Sources /\ p[2] \in DOMAIN rows[p[1]]
          BY DEF Users, Places
        <5>2. At(p) \in AllRows /\ At(p).mode = "port_forward" /\ At(p).target = relay
          BY <5>1 DEF AllRows, RowsOf, ToSet, At, Users
        <5>3. QED
          BY <4>1, <4>2, <5>2 DEF Selected
      <4>4. QED
        BY <2>3, <4>3
    <3>4. QED
      BY <3>2, <3>3
  <2>6. QED
    BY <2>4, <2>5
<1>8. ASSUME NEW src \in Sources, NEW i \in DOMAIN rows[src], Delete(src, i)
      PROVE  \E f : f \in Injection(Users(relay)', Users(relay))
  <2>. DEFINE f == [p \in Users(relay)' |-> Up(<<src, i>>, p)]
  <2>1. /\ \A p \in Places' : Up(<<src, i>>, p) \in Places /\ At(p)' = At(Up(<<src, i>>, p))
        /\ \A p, q \in Places' : Up(<<src, i>>, p) = Up(<<src, i>>, q) => p = q
    BY <1>8, DeletedPlaces
  <2>2. \A p \in Users(relay)' : p \in Places' /\ Up(<<src, i>>, p) \in Users(relay)
    BY <2>1 DEF Users
  <2>3. f \in Injection(Users(relay)', Users(relay))
    BY <2>1, <2>2 DEF Injection, IsInjective
  <2>4. QED
    BY <2>3
<1>9. ASSUME NEW place, Users(relay)' \subseteq {place} PROVE ~(Cardinality(Users(relay)') > 1)
  <2>1. IsFiniteSet({place}) /\ Cardinality({place}) = 1
    BY FS_Singleton
  <2>2. IsFiniteSet(Users(relay)') /\ Cardinality(Users(relay)') <= 1
    BY <1>9, <2>1, FS_Subset
  <2>3. Cardinality(Users(relay)') \in Nat
    BY <2>2, FS_CardinalityType
  <2>4. QED
    BY <2>2, <2>3
<1>10. ASSUME NEW src \in Sources, NEW i \in DOMAIN rows[src], Clone(src, i) PROVE FALSE
  BY <1>10, Copied
<1>11. ASSUME NEW src \in Sources, NEW i \in DOMAIN rows[src], RowEdit(src, i)
       PROVE  \/ ~(Cardinality(Users(relay)') > 1)
              \/ ~(Cardinality(Users(relay)') > Cardinality(Users(relay)))
  BY <1>2, <1>3, <1>6, <1>7, <1>8, <1>9, <1>10, <1>11 DEF RowEdit
<1>12. CASE Convert \/ Reset
  BY <1>3, <1>12, BroughtUsers
<1>13. CASE RestoreReplayable \/ RestoreConflicted
  <2>1. \A p, q \in Users(relay)' : p = q
    BY <1>13, RestoredUsers
  <2>2. CASE Users(relay)' = {}
    BY <1>3, <2>2
  <2>3. CASE Users(relay)' # {}
    <3>1. PICK p \in Users(relay)' : TRUE
      BY <2>3
    <3>2. Users(relay)' \subseteq {p}
      BY <2>1
    <3>3. QED
      BY <1>9, <3>2
  <2>4. QED
    BY <2>2, <2>3
<1>14. QED
  BY <1>4, <1>11, <1>12, <1>13, QuietIs, StepIs DEF Brings

-----------------------------------------------------------------------------
(* Duplicates *)

-----------------------------------------------------------------------------
(* Duplicates *)

\* A mark of a duplicate names a row of its source, and no verdict is one.
Named(m) == m.code = "duplicate" => m.name # Blank /\ \E row \in RowsOf(m.source) : row.name = m.name

AllNamed == (\A m \in marks : Named(m)) /\ \A m \in verdict : m.code = "refused"

LEMMA DoubtedCode ==
  ASSUME NEW set \in SUBSET Mark, NEW src, NEW name, NEW code, \A m \in set : m.code = code
  PROVE  \A m \in Doubted(set, src, name) : m.code = code
<1>. SUFFICES ASSUME NEW m \in Doubted(set, src, name) PROVE m.code = code
  OBVIOUS
<1>1. PICK n \in set : m = IF n.source = src /\ n.name = name THEN [n EXCEPT !.about = Unknown] ELSE n
  BY DEF Doubted
<1>2. n \in Mark
  OBVIOUS
<1>3. [n EXCEPT !.about = Unknown].code = n.code
  BY <1>2 DEF Mark
<1>4. QED
  BY <1>1, <1>3

LEMMA ForgottenCode ==
  ASSUME NEW set \in SUBSET Mark, NEW srcs, NEW code, \A m \in set : m.code = code
  PROVE  \A m \in Forgotten(set, srcs) : m.code = code
<1>. SUFFICES ASSUME NEW m \in Forgotten(set, srcs) PROVE m.code = code
  OBVIOUS
<1>1. PICK n \in set : m = IF n.source \in srcs THEN [n EXCEPT !.about = Unknown] ELSE n
  BY DEF Forgotten
<1>2. n \in Mark
  OBVIOUS
<1>3. [n EXCEPT !.about = Unknown].code = n.code
  BY <1>2 DEF Mark
<1>4. QED
  BY <1>1, <1>3

\* What names a row has it among the places.
LEMMA NamedPlace ==
  ASSUME Shape, NEW m \in Mark, m.code = "duplicate", Named(m)
  PROVE  \E i \in DOMAIN rows[m.source] : <<m.source, i>> \in Namesakes(m.name)
<1>1. m.source \in Sources
  BY DEF Mark
<1>2. PICK i \in DOMAIN rows[m.source] : rows[m.source][i].name = m.name
  BY DEF Named, RowsOf, ToSet
<1>3. <<m.source, i>> \in Places
  BY <1>1, PlacesAre
<1>4. QED
  BY <1>2, <1>3 DEF Namesakes

LEMMA DuplicatesNamed ==
  ASSUME Shape
  PROVE  \A m \in Duplicates : Named(m) /\ Cardinality(Namesakes(m.name)) > 1
<1>. SUFFICES ASSUME NEW m \in Duplicates PROVE Named(m) /\ Cardinality(Namesakes(m.name)) > 1
  OBVIOUS
<1>1. PICK p \in Places :
        /\ m = [source |-> p[1], name |-> rows[p[1]][p[2]].name, code |-> "duplicate", about |-> Unknown]
        /\ rows[p[1]][p[2]].name # Blank /\ Cardinality(Namesakes(rows[p[1]][p[2]].name)) > 1
  BY DEF Duplicates
<1>2. p[1] \in Sources /\ p[2] \in DOMAIN rows[p[1]]
  BY DEF Places
<1>3. rows[p[1]][p[2]] \in RowsOf(p[1])
  BY <1>2 DEF RowsOf, ToSet
<1>4. m.source = p[1] /\ m.name = rows[p[1]][p[2]].name
  BY <1>1
<1>5. QED
  BY <1>1, <1>3, <1>4 DEF Named

LEMMA NamedKeeps ==
  ASSUME RowsAssumption, IInv, AllNamed, [Next]_vars
  PROVE  AllNamed'
<1>1. Shape /\ marks \in SUBSET Mark /\ verdict \in SUBSET Mark
  BY DEF IInv, Shape
<1>2. ASSUME UNCHANGED rows, \A m \in marks' : m.code = "refused" \/ Named(m),
             \A m \in verdict' : m.code = "refused"
      PROVE  AllNamed'
  BY <1>2 DEF AllNamed, Named, RowsOf
<1>3. CASE UNCHANGED vars \/ Answer \/ Failure \/ EditInput \/ Request
  BY <1>2, <1>3 DEF vars, AllNamed, Answer, Failure, Answered, EditInput, Request
<1>4. CASE Blur
  BY <1>1, <1>2, <1>4, DuplicatesNamed DEF Blur, Lasting, AllNamed
<1>5. CASE Generate
  <2>1. \A menu, there : \A m \in Refusals(menu, there) : m.code = "refused"
    BY DEF Refusals, Refusal
  <2>2. QED
    BY <1>1, <1>2, <1>5, <2>1, DuplicatesNamed DEF Generate, AllNamed
<1>6. ASSUME NEW src \in Sources, NEW i \in DOMAIN rows[src], NEW name \in Typed, Rename(src, i, name)
      PROVE  AllNamed'
  <2>1. \A m \in Lasting : m.code = "refused"
    BY <1>1 DEF Lasting, Mark
  <2>2. \A set \in SUBSET Mark : (\A m \in set : m.code = "refused") =>
          \A m \in Doubted(Doubted(set, src, rows[src][i].name), src, name) : m.code = "refused"
    <3>. SUFFICES ASSUME NEW set \in SUBSET Mark, \A m \in set : m.code = "refused"
                  PROVE  \A m \in Doubted(Doubted(set, src, rows[src][i].name), src, name) : m.code = "refused"
      OBVIOUS
    <3>. DEFINE old == rows[src][i].name
    <3>. HIDE DEF old
    <3>1. Doubted(set, src, old) \in SUBSET Mark
      BY DoubtedMarks
    <3>2. \A m \in Doubted(set, src, old) : m.code = "refused"
      BY DoubtedCode
    <3>3. \A m \in Doubted(Doubted(set, src, old), src, name) : m.code = "refused"
      BY <3>1, <3>2, DoubtedCode
    <3>4. QED
      BY <3>3 DEF old
  <2>3. Lasting \in SUBSET Mark
    BY <1>1 DEF Lasting
  <2>4. \A m \in marks' \cup verdict' : m.code = "refused"
    BY <1>1, <1>6, <2>1, <2>2, <2>3 DEF Rename, AllNamed
  <2>5. QED
    BY <2>4 DEF AllNamed, Named
<1>7. ASSUME NEW src \in Sources, NEW i \in DOMAIN rows[src], marks' \subseteq marks,
             verdict' = Doubted(verdict, src, rows[src][i].name),
             \A m \in marks' : m.code = "duplicate" => \E row \in RowsOf(m.source)' : row.name = m.name
      PROVE  AllNamed'
  <2>1. \A m \in verdict' : m.code = "refused"
    BY <1>1, <1>7, DoubtedCode DEF AllNamed
  <2>2. QED
    BY <1>7, <2>1 DEF AllNamed, Named
<1>8. ASSUME NEW src \in Sources, NEW i \in DOMAIN rows[src],
             NEW mode \in Modes, NEW target \in Targets, Update(src, i, mode, target)
      PROVE  AllNamed'
  <2>1. marks' \subseteq marks /\ verdict' = Doubted(verdict, src, rows[src][i].name)
    BY <1>8 DEF Update, Cleared
  <2>2. ASSUME NEW m \in marks', m.code = "duplicate" PROVE \E row \in RowsOf(m.source)' : row.name = m.name
    <3>1. m \in Mark /\ Named(m) /\ m.source \in Sources
      BY <1>1, <2>1, <2>2 DEF AllNamed, Mark
    <3>2. PICK j \in DOMAIN rows[m.source] : rows[m.source][j].name = m.name
      BY <2>2, <3>1 DEF Named, RowsOf, ToSet
    <3>3. j \in DOMAIN rows'[m.source] /\ rows'[m.source][j].name = m.name
      <4>1. CASE m.source # src
        BY <1>1, <1>8, <3>1, <3>2, <4>1, Updated
      <4>2. CASE m.source = src
        BY <1>1, <1>8, <3>2, <4>2, Updated
      <4>3. QED
        BY <4>1, <4>2
    <3>4. QED
      BY <3>3 DEF RowsOf, ToSet
  <2>3. QED
    BY <1>7, <2>1, <2>2
<1>9. ASSUME NEW src \in Sources, NEW i \in DOMAIN rows[src], Clone(src, i) PROVE AllNamed'
  <2>1. UNCHANGED <<marks, verdict>>
    BY <1>9 DEF Clone
  <2>2. ASSUME NEW m \in marks', m.code = "duplicate" PROVE \E row \in RowsOf(m.source)' : row.name = m.name
    <3>1. m \in Mark /\ Named(m) /\ m.source \in Sources
      BY <1>1, <2>1, <2>2 DEF AllNamed, Mark
    <3>2. PICK j \in DOMAIN rows[m.source] : rows[m.source][j].name = m.name
      BY <2>2, <3>1 DEF Named, RowsOf, ToSet
    <3>3. j \in DOMAIN rows'[m.source] /\ rows'[m.source][j].name = m.name
      <4>1. CASE m.source # src
        BY <1>1, <1>9, <3>1, <3>2, <4>1, Copied
      <4>2. CASE m.source = src
        BY <1>1, <1>9, <3>2, <4>2, Copied
      <4>3. QED
        BY <4>1, <4>2
    <3>4. QED
      BY <3>3 DEF RowsOf, ToSet
  <2>3. QED
    BY <2>1, <2>2 DEF AllNamed, Named
<1>10. ASSUME NEW src \in Sources, NEW i \in DOMAIN rows[src], Delete(src, i) PROVE AllNamed'
  <2>1. marks' = Cleared(src, rows[src][i]) /\ verdict' = Doubted(verdict, src, rows[src][i].name)
    BY <1>10 DEF Delete
  <2>2. ASSUME NEW m \in marks', m.code = "duplicate" PROVE \E row \in RowsOf(m.source)' : row.name = m.name
    <3>1. m \in Mark /\ Named(m) /\ m.source \in Sources /\ ~Hits(m, src, rows[src][i])
      BY <1>1, <2>1, <2>2 DEF AllNamed, Mark, Cleared
    <3>2. PICK j \in DOMAIN rows[m.source] : <<m.source, j>> \in Namesakes(m.name)
      BY <1>1, <2>2, <3>1, NamedPlace
    <3>3. <<m.source, j>> \in Places \ {<<src, i>>} /\ At(<<m.source, j>>).name = m.name
      BY <2>2, <3>1, <3>2 DEF Namesakes, At, Named, Hits
    <3>4. PICK p \in Places' : p[1] = m.source /\ At(p)'.name = m.name
      <4>1. Down(<<src, i>>, <<m.source, j>>)[1] = m.source
        BY DEF Down
      <4>2. QED
        BY <1>1, <1>10, <3>3, <4>1, DeletedPlaces
    <3>5. p[2] \in DOMAIN rows'[m.source] /\ rows'[m.source][p[2]].name = m.name
      BY <3>4 DEF Places, At
    <3>6. QED
      BY <3>5 DEF RowsOf, ToSet
  <2>3. QED
    BY <1>7, <2>1, <2>2 DEF Cleared
<1>11. CASE Brings
  <2>1. \A m \in verdict : m.code = "refused"
    BY DEF AllNamed
  <2>2. \A m \in verdict' : m.code = "refused"
    <3>1. CASE Convert
      BY <1>1, <2>1, <3>1, ForgottenCode DEF Convert
    <3>2. CASE Reset
      BY <2>1, <3>2 DEF Reset
    <3>3. CASE RestoreReplayable \/ RestoreConflicted
      BY <1>1, <2>1, <3>3, ForgottenCode DEF RestoreReplayable, RestoreConflicted, Restored
    <3>4. QED
      BY <1>11, <3>1, <3>2, <3>3 DEF Brings
  <2>3. QED
    BY <1>11, <2>2, BringsIs DEF AllNamed
<1>12. ASSUME NEW src \in Sources, NEW i \in DOMAIN rows[src], RowEdit(src, i) PROVE AllNamed'
  BY <1>6, <1>8, <1>9, <1>10, <1>12 DEF RowEdit
<1>13. QED
  BY <1>1, <1>3, <1>4, <1>5, <1>11, <1>12, StepIs DEF Quiet

\* Who is marked as a duplicate keeps a namesake.
LEMMA NamesakeLasts ==
  ASSUME RowsAssumption, IInv, IInv', AllNamed, [Next]_vars
  PROVE  HasNamesake
<1>1. Shape /\ Shape' /\ marks \in SUBSET Mark
  BY DEF IInv, Shape
<1>2. SUFFICES ASSUME NEW m \in marks', m.code = "duplicate"
               PROVE  \/ Cardinality(Namesakes(m.name)') > 1
                      \/ m \in marks /\ Cardinality(Namesakes(m.name)) = 1
                      \/ \E src \in Sources \ {m.source} : Len(rows'[src]) < Len(rows[src])
  BY DEF HasNamesake
<1>. DEFINE now   == Namesakes(m.name)
            after == Namesakes(m.name)'
<1>3. IsFiniteSet(after) /\ Cardinality(after) \in Nat
  <2>1. IsFiniteSet(after)
    <3>1. after \subseteq Places'
      BY DEF Namesakes
    <3>2. QED
      BY <1>1, <3>1, PlacesFiniteNext, FS_Subset
  <2>2. QED
    BY <2>1, FS_CardinalityType
<1>4. ASSUME m \in marks, NEW f \in Injection(now, after)
      PROVE  Cardinality(after) > 1 \/ Cardinality(now) = 1
  <2>1. now # {}
    BY <1>1, <1>2, <1>4, NamedPlace DEF AllNamed
  <2>2. IsFiniteSet(now) /\ Cardinality(now) <= Cardinality(after)
    BY <1>3, <1>4, FS_Injection
  <2>3. Cardinality(now) \in Nat /\ Cardinality(now) # 0
    BY <2>1, <2>2, FS_CardinalityType, FS_EmptySet
  <2>4. QED
    BY <1>3, <2>2, <2>3
<1>5. ASSUME m \in marks, now \subseteq after
      PROVE  Cardinality(after) > 1 \/ Cardinality(now) = 1
  <2>1. [p \in now |-> p] \in Injection(now, after)
    BY <1>5 DEF Injection, IsInjective
  <2>2. QED
    BY <1>4, <1>5, <2>1
<1>6. CASE UNCHANGED vars
  <2>1. m \in marks /\ now \subseteq after
    BY <1>2, <1>6 DEF vars, Namesakes, Places
  <2>2. QED
    BY <1>5, <2>1
<1>7. CASE (Blur \/ Generate) /\ m \in Duplicates
  <2>1. Cardinality(now) > 1
    BY <1>1, <1>7, DuplicatesNamed
  <2>2. after = now
    BY <1>7 DEF Blur, Generate, Namesakes, Places
  <2>3. QED
    BY <2>1, <2>2
<1>8. CASE ((Blur \/ Generate) /\ m \notin Duplicates) \/ Answer \/ Failure \/ EditInput \/ Request
  BY <1>1, <1>2, <1>8 DEF Blur, Lasting, Generate, Answer, Failure, Answered, EditInput, Request, AllNamed
<1>9. ASSUME NEW src \in Sources, NEW i \in DOMAIN rows[src], NEW name \in Typed, Rename(src, i, name)
      PROVE  FALSE
  <2>1. Lasting \in SUBSET Mark /\ \A n \in Lasting : n.code = "refused"
    BY <1>1 DEF Lasting, Mark
  <2>. DEFINE old == rows[src][i].name
  <2>2. marks' = Doubted(Doubted(Lasting, src, old), src, name)
    BY <1>9 DEF Rename
  <2>. HIDE DEF old
  <2>3. Doubted(Lasting, src, old) \in SUBSET Mark
    BY <2>1, DoubtedMarks
  <2>4. \A n \in Doubted(Lasting, src, old) : n.code = "refused"
    BY <2>1, DoubtedCode
  <2>5. \A n \in marks' : n.code = "refused"
    BY <2>2, <2>3, <2>4, DoubtedCode
  <2>6. QED
    BY <1>2, <2>5
<1>10. ASSUME NEW src \in Sources, NEW i \in DOMAIN rows[src],
              NEW mode \in Modes, NEW target \in Targets, Update(src, i, mode, target)
       PROVE  Cardinality(after) > 1 \/ (m \in marks /\ Cardinality(now) = 1)
  <2>1. m \in marks
    BY <1>2, <1>10 DEF Update, Cleared
  <2>2. now \subseteq after
    <3>. SUFFICES ASSUME NEW p \in now PROVE p \in after
      OBVIOUS
    <3>1. p = <<p[1], p[2]>> /\ p[1] \in Sources /\ p[2] \in DOMAIN rows[p[1]] /\ rows[p[1]][p[2]].name = m.name
      BY DEF Namesakes, Places
    <3>2. p[2] \in DOMAIN rows'[p[1]] /\ rows'[p[1]][p[2]].name = m.name
      <4>1. CASE p[1] # src
        BY <1>1, <1>10, <3>1, <4>1, Updated
      <4>2. CASE p[1] = src
        BY <1>1, <1>10, <3>1, <4>2, Updated
      <4>3. QED
        BY <4>1, <4>2
    <3>3. QED
      BY <3>1, <3>2 DEF Namesakes, Places
  <2>3. QED
    BY <1>5, <2>1, <2>2
<1>11. ASSUME NEW src \in Sources, NEW i \in DOMAIN rows[src], Clone(src, i)
       PROVE  Cardinality(after) > 1 \/ (m \in marks /\ Cardinality(now) = 1)
  <2>1. m \in marks
    BY <1>2, <1>11 DEF Clone
  <2>2. now \subseteq after
    <3>. SUFFICES ASSUME NEW p \in now PROVE p \in after
      OBVIOUS
    <3>1. p = <<p[1], p[2]>> /\ p[1] \in Sources /\ p[2] \in DOMAIN rows[p[1]] /\ rows[p[1]][p[2]].name = m.name
      BY DEF Namesakes, Places
    <3>2. p[2] \in DOMAIN rows'[p[1]] /\ rows'[p[1]][p[2]].name = m.name
      <4>1. CASE p[1] # src
        BY <1>1, <1>11, <3>1, <4>1, Copied
      <4>2. CASE p[1] = src
        BY <1>1, <1>11, <3>1, <4>2, Copied
      <4>3. QED
        BY <4>1, <4>2
    <3>3. QED
      BY <3>1, <3>2 DEF Namesakes, Places
  <2>3. QED
    BY <1>5, <2>1, <2>2
<1>12. ASSUME NEW src \in Sources, NEW i \in DOMAIN rows[src], Delete(src, i)
       PROVE  \/ Cardinality(after) > 1
              \/ m \in marks /\ Cardinality(now) = 1
              \/ \E t \in Sources \ {m.source} : Len(rows'[t]) < Len(rows[t])
  <2>1. m \in marks /\ m \in Mark /\ Named(m) /\ ~Hits(m, src, rows[src][i])
    BY <1>1, <1>2, <1>12 DEF Delete, Cleared, AllNamed
  <2>2. CASE m.source # src
    <3>1. Len(rows'[src]) = Len(rows[src]) - 1 /\ Len(rows[src]) \in Nat
      BY <1>1, <1>12, Deleted
    <3>2. Len(rows'[src]) < Len(rows[src])
      BY <3>1
    <3>3. QED
      BY <2>2, <3>2
  <2>3. CASE m.source = src
    <3>1. <<src, i>> \notin now
      BY <1>2, <2>1, <2>3 DEF Hits, Named, Namesakes
    <3>2. /\ \A p \in now : Down(<<src, i>>, p) \in after
          /\ \A p, q \in now : Down(<<src, i>>, p) = Down(<<src, i>>, q) => p = q
      <4>1. /\ \A p \in Places \ {<<src, i>>} :
                 Down(<<src, i>>, p) \in Places' /\ At(Down(<<src, i>>, p))' = At(p)
            /\ \A p, q \in Places \ {<<src, i>>} : Down(<<src, i>>, p) = Down(<<src, i>>, q) => p = q
        BY <1>1, <1>12, DeletedPlaces
      <4>2. /\ \A p \in now : p \in Places \ {<<src, i>>} /\ At(p).name = m.name
            /\ \A p \in Places' : At(p)'.name = m.name => p \in after
        BY <3>1 DEF Namesakes, At
      <4>. HIDE DEF now, after
      <4>3. QED
        BY <4>1, <4>2
    <3>3. [p \in now |-> Down(<<src, i>>, p)] \in Injection(now, after)
      <4>. HIDE DEF now, after
      <4>1. QED
        BY <3>2 DEF Injection, IsInjective
    <3>4. QED
      BY <1>4, <2>1, <3>3
  <2>4. QED
    BY <2>2, <2>3
<1>13. ASSUME NEW src \in Sources, NEW i \in DOMAIN rows[src], RowEdit(src, i)
       PROVE  \/ Cardinality(after) > 1
              \/ m \in marks /\ Cardinality(now) = 1
              \/ \E t \in Sources \ {m.source} : Len(rows'[t]) < Len(rows[t])
  <2>. HIDE DEF now, after
  <2>1. QED
    BY <1>9, <1>10, <1>11, <1>12, <1>13 DEF RowEdit
<1>14. CASE Brings
  BY <1>2, <1>14, BringsIs
<1>15. CASE Quiet
  BY <1>6, <1>7, <1>8, <1>15 DEF Quiet
<1>16. QED
  BY <1>1, <1>13, <1>14, <1>15, StepIs

-----------------------------------------------------------------------------
(* Other rows *)

\* The marks an update takes are those of its row.
LEMMA OthersAreSpared ==
  ASSUME RowsAssumption, Shape
  PROVE  OthersSpared
<1>. SUFFICES ASSUME NEW m \in marks \ marks', NEW t \in Sources, NEW j \in DOMAIN rows[t],
                     Len(rows'[t]) = Len(rows[t]), rows'[t][j].name = rows[t][j].name,
                     rows'[t][j] # rows[t][j], Edit
              PROVE  m.source = t /\ m.name = rows[t][j].name
  BY DEF OthersSpared
<1>1. ~Blur
  BY DEF Blur
<1>2. ASSUME NEW src \in Sources, NEW i \in DOMAIN rows[src], NEW name \in Typed, Rename(src, i, name)
      PROVE  FALSE
  <2>1. CASE t # src
    BY <1>2, <2>1, Renamed
  <2>2. CASE t = src
    BY <1>2, <2>2, Renamed
  <2>3. QED
    BY <2>1, <2>2
<1>3. ASSUME NEW src \in Sources, NEW i \in DOMAIN rows[src],
             NEW mode \in Modes, NEW target \in Targets, Update(src, i, mode, target)
      PROVE  m.source = t /\ m.name = rows[t][j].name
  <2>1. t = src /\ j = i
    BY <1>3, Updated
  <2>2. Hits(m, src, rows[src][i])
    BY <1>3 DEF Update, Cleared
  <2>3. QED
    BY <2>1, <2>2 DEF Hits
<1>4. ASSUME NEW src \in Sources, NEW i \in DOMAIN rows[src], Clone(src, i) PROVE FALSE
  BY <1>4 DEF Clone
<1>5. ASSUME NEW src \in Sources, NEW i \in DOMAIN rows[src], Delete(src, i) PROVE FALSE
  <2>1. /\ \A u \in Sources \ {src} : rows'[u] = rows[u]
        /\ Len(rows'[src]) = Len(rows[src]) - 1 /\ Len(rows[src]) \in Nat
    BY <1>5, Deleted
  <2>2. Len(rows'[src]) # Len(rows[src])
    BY <2>1
  <2>3. QED
    BY <2>1, <2>2
<1>6. ASSUME NEW src \in Sources, NEW i \in DOMAIN rows[src], RowEdit(src, i)
      PROVE  m.source = t /\ m.name = rows[t][j].name
  BY <1>2, <1>3, <1>4, <1>5, <1>6 DEF RowEdit
<1>7. QED
  BY <1>1, <1>6, EditIs

-----------------------------------------------------------------------------
(* Theorems *)

\* Rows keep their shape, and every mark that names a row, the ones that are on
\* their way included, has its row.
THEOREM Inductive == ASSUME RowsAssumption PROVE Spec => []IInv
  BY InitIInv, NextIInv, PTL DEF Spec

\* No control and no answer puts a mode or a target into a row that is not one,
\* or leaves a verdict behind (Page.tsx of each scheme, useAppWorkflow.ts).
THEOREM Typing == ASSUME RowsAssumption PROVE Spec => []TypeOK
<1>1. IInv => TypeOK
  BY DEF IInv, Shape, TypeOK
<1>2. QED
  BY <1>1, Inductive, PTL

\* What the server refused is marked in the row it was found in, as that row
\* was, until a name like its own is edited (matchesStage2RowError); unless,
\* while the answer was on its way, the row was edited or deleted, a restore was
\* answered, or a conversion without its source.
THEOREM InPlace == ASSUME RowsAssumption PROVE Spec => []MarksStayInPlace
<1>1. IInv => MarksStayInPlace
  BY DEF IInv, Shape, AllHeld, Held, MarksStayInPlace, Hits
<1>2. QED
  BY <1>1, Inductive, PTL

\* A copy is what it takes for a service to be used by more rows than one: the
\* menus of no scheme offer one that is in use (getForwardRelayChoices), nor
\* does a change of the mode keep it (pickNextTarget), a conversion or a reset
\* bring it, or a link hold it twice.
THEOREM Copies == ASSUME RowsAssumption PROVE Spec => OnlyCopiesShare
<1>1. IInv /\ [Next]_vars => [SharedByCopy]_vars
  BY SharingIsCopied DEF IInv
<1>2. QED
  BY <1>1, Inductive, PTL DEF Spec, OnlyCopiesShare

\* What is marked as a duplicate names a row that is there.
THEOREM MarksNamed == ASSUME RowsAssumption PROVE Spec => []AllNamed
<1>1. Init => AllNamed
  BY DEF Init, AllNamed
<1>2. IInv /\ AllNamed /\ [Next]_vars => AllNamed'
  BY NamedKeeps
<1>3. QED
  BY <1>1, <1>2, Inductive, PTL DEF Spec

\* A mark left by the precheck of the names is true until a row of another
\* source goes (clearDuplicateProxyNameErrors, deleteStage2RowState).
THEOREM Namesake == ASSUME RowsAssumption PROVE Spec => DuplicatesStayTrue
<1>1. IInv /\ IInv' /\ AllNamed /\ [Next]_vars => [HasNamesake]_vars
  BY NamesakeLasts
<1>2. QED
  BY <1>1, Inductive, MarksNamed, PTL DEF Spec, DuplicatesStayTrue

\* Editing a row clears no mark of another one (updateStage2RowState).
THEOREM Spares == ASSUME RowsAssumption PROVE Spec => EditsSpareOthers
<1>1. IInv /\ [Next]_vars => [OthersSpared]_vars
  BY OthersAreSpared DEF IInv
<1>2. QED
  BY <1>1, Inductive, PTL DEF Spec, EditsSpareOthers
=============================================================================
