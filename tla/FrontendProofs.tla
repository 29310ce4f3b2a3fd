---------------------------- MODULE FrontendProofs ----------------------------
(***************************************************************************)
(* The page, for any sources, servers, relays, tags, names and bounds.     *)
(*                                                                         *)
(* The snapshot (Stage2Editor).  That a member leads to the instance that  *)
(* was meant is not inductive alone: with a number given out twice it      *)
(* would lead to either instance at the next renumbering.  EditorIInv has  *)
(* that ids are unique, that lists have nothing twice, which a renumbering *)
(* keeps because ids are unique, and that whatever is in a draft, where    *)
(* nothing keeps it right, is Forgotten.  Lists are reasoned about by the  *)
(* places of their items: InOrder says what Picked picks, Flat what        *)
(* FlattenSeq joins, Narrows and Follows what a conversion makes of lists  *)
(* that lead to instances.                                                 *)
(*                                                                         *)
(* The dialogs (Stage1Dialogs).  That the page has each relay once needs   *)
(* the draft to be inductive only in b1, whose draft replaces the list:    *)
(* there it holds distinct relays, and all of the page's but for those     *)
(* taken out of it.  The other schemes compare what they append, whatever  *)
(* their drafts have come to hold.                                         *)
(*                                                                         *)
(* The page (Frontend) has each part's invariant, next to one another; of  *)
(* its two tables Stage2RowsProofs speaks.                                 *)
(***************************************************************************)
EXTENDS Frontend, FiniteSetTheorems, SequenceTheorems, TLAPS

-----------------------------------------------------------------------------
(* Places in lists *)

\* `chosen` is what `list` has at these places, in its order.
InOrder(chosen, list, places) ==
  \E at \in [1 .. Len(chosen) -> places] :
    /\ \A j, k \in 1 .. Len(chosen) : j < k => at[j] < at[k]
    /\ \A i \in places : \E k \in 1 .. Len(chosen) : at[k] = i
    /\ \A k \in 1 .. Len(chosen) : chosen[k] = list[at[k]]

\* Every set of natural numbers that is not empty has a least one.
LEMMA Least ==
  ASSUME NEW set \in SUBSET Nat, set # {}
  PROVE  \E k \in set : \A j \in set : k <= j
<1>1. PICK k \in set : \A j \in set : ~(<<j, k>> \in OpToRel(<, Nat))
  BY NatLessThanWellFounded, WFMin
<1>2. ASSUME NEW j \in set PROVE k <= j
  <2>1. <<j, k>> \in Nat \X Nat /\ (j < k => <<j, k>> \in OpToRel(<, Nat))
    BY DEF OpToRel
  <2>2. ~(j < k)
    BY <1>1, <2>1, Zenon
  <2>. QED
    BY <2>2
<1>. QED
  BY <1>2

\* Nothing is what a list has at no places.
LEMMA NoneInOrder == ASSUME NEW list PROVE InOrder(<<>>, list, {})
<1>1. Len(<<>>) = 0 /\ 1 .. 0 = {}
  OBVIOUS
<1>2. [k \in {} |-> k] \in [1 .. Len(<<>>) -> {}]
  BY <1>1
<1>. QED
  BY <1>1, <1>2 DEF InOrder

\* One more, further down.
LEMMA OneMoreInOrder ==
  ASSUME NEW S, NEW chosen \in Seq(S), NEW list, NEW n \in Nat, NEW places \in SUBSET (1 .. n - 1),
         InOrder(chosen, list, places), list[n] \in S
  PROVE  InOrder(Append(chosen, list[n]), list, places \cup {n})
<1>. DEFINE more == Append(chosen, list[n])
<1>1. PICK at \in [1 .. Len(chosen) -> places] :
        /\ \A j, k \in 1 .. Len(chosen) : j < k => at[j] < at[k]
        /\ \A i \in places : \E k \in 1 .. Len(chosen) : at[k] = i
        /\ \A k \in 1 .. Len(chosen) : chosen[k] = list[at[k]]
  BY DEF InOrder
<1>2. /\ Len(chosen) \in Nat /\ Len(more) = Len(chosen) + 1
      /\ \A k \in 1 .. Len(chosen) : more[k] = chosen[k]
      /\ more[Len(chosen) + 1] = list[n]
  BY LenProperties, AppendProperties
<1>. DEFINE new == [k \in 1 .. Len(chosen) + 1 |-> IF k <= Len(chosen) THEN at[k] ELSE n]
<1>3. /\ new \in [1 .. Len(chosen) + 1 -> places \cup {n}]
      /\ new[Len(chosen) + 1] = n
      /\ \A k \in 1 .. Len(chosen) : new[k] = at[k]
  BY <1>2
<1>. HIDE DEF new, more
<1>4. ASSUME NEW j \in 1 .. Len(chosen) + 1, NEW k \in 1 .. Len(chosen) + 1, j < k PROVE new[j] < new[k]
  <2>1. j \in 1 .. Len(chosen) /\ at[j] \in places /\ at[j] < n
    <3>1. j \in 1 .. Len(chosen)
      BY <1>2, <1>4
    <3>2. \A i \in places : i < n
      OBVIOUS
    <3>. QED
      BY <3>1, <3>2
  <2>2. CASE k \in 1 .. Len(chosen)
    BY <1>1, <1>3, <1>4, <2>1, <2>2
  <2>3. CASE k = Len(chosen) + 1
    BY <1>3, <2>1, <2>3
  <2>. QED
    BY <1>2, <2>2, <2>3
<1>5. ASSUME NEW i \in places \cup {n} PROVE \E k \in 1 .. Len(chosen) + 1 : new[k] = i
  <2>1. CASE i \in places
    BY <1>1, <1>2, <1>3, <2>1
  <2>2. CASE i = n
    <3>1. Len(chosen) + 1 \in 1 .. Len(chosen) + 1
      BY <1>2
    <3>. QED
      BY <1>3, <2>2, <3>1
  <2>. QED
    BY <2>1, <2>2
<1>6. ASSUME NEW k \in 1 .. Len(chosen) + 1 PROVE more[k] = list[new[k]]
  <2>1. CASE k \in 1 .. Len(chosen)
    BY <1>1, <1>2, <1>3, <2>1
  <2>2. CASE k = Len(chosen) + 1
    BY <1>2, <1>3, <2>2
  <2>. QED
    BY <1>2, <2>1, <2>2
<1>7. InOrder(more, list, places \cup {n})
  BY <1>2, <1>3, <1>4, <1>5, <1>6 DEF InOrder
<1>. QED
  BY <1>7 DEF more

\* The recursion of Picked, up to some place.
Picks(upTo, list, places, m) ==
  /\ upTo = [n \in 0 .. m |-> upTo[n]]
  /\ upTo[0] = <<>>
  /\ \A n \in 1 .. m :
       upTo[n] = IF n \in places THEN Append(upTo[n - 1], list[n]) ELSE upTo[n - 1]

\* The recursive function in Picked is one that picks.
LEMMA PicksExist ==
  ASSUME NEW list, NEW places, NEW m \in Nat
  PROVE  \E upTo : Picks(upTo, list, places, m)
<1>. DEFINE failing == {k \in Nat : ~ \E upTo : Picks(upTo, list, places, k)}
<1>. SUFFICES ASSUME failing # {} PROVE FALSE
  OBVIOUS
<1>1. PICK k \in failing : \A j \in failing : k <= j
  <2>. HIDE DEF failing
  <2>1. failing \in SUBSET Nat
    BY DEF failing
  <2>. QED
    BY <2>1, Least
<1>2. k # 0
  <2>. DEFINE none == [n \in 0 .. 0 |-> <<>>]
  <2>1. none = [n \in 0 .. 0 |-> none[n]] /\ none[0] = <<>> /\ 1 .. 0 = {}
    OBVIOUS
  <2>. HIDE DEF none
  <2>2. Picks(none, list, places, 0)
    BY <2>1 DEF Picks
  <2>. QED
    BY <2>2
<1>3. k \in Nat /\ k - 1 \in Nat /\ k - 1 \notin failing
  <2>1. k \in Nat
    OBVIOUS
  <2>. HIDE DEF failing
  <2>. QED
    BY <1>1, <1>2, <2>1
<1>4. PICK upTo : Picks(upTo, list, places, k - 1)
  BY <1>3
<1>. DEFINE last == IF k \in places THEN Append(upTo[k - 1], list[k]) ELSE upTo[k - 1]
            new == [n \in 0 .. k |-> IF n = k THEN last ELSE upTo[n]]
<1>5. /\ new[k] = last
      /\ \A n \in 0 .. k - 1 : new[n] = upTo[n]
  BY <1>3
<1>9. new = [n \in 0 .. k |-> new[n]]
  OBVIOUS
<1>. HIDE DEF new, last, failing
<1>6. new[0] = <<>>
  BY <1>3, <1>4, <1>5 DEF Picks
<1>7. ASSUME NEW n \in 1 .. k
      PROVE  new[n] = IF n \in places THEN Append(new[n - 1], list[n]) ELSE new[n - 1]
  <2>1. n - 1 \in 0 .. k - 1 /\ new[n - 1] = upTo[n - 1]
    BY <1>3, <1>5
  <2>2. CASE n = k
    BY <1>5, <2>1, <2>2 DEF last
  <2>3. CASE n # k
    <3>1. n \in 1 .. k - 1 /\ n \in 0 .. k - 1
      BY <1>3, <2>3
    <3>. QED
      BY <1>4, <1>5, <2>1, <3>1 DEF Picks
  <2>. QED
    BY <2>2, <2>3
<1>8. Picks(new, list, places, k)
  BY <1>6, <1>7, <1>9 DEF Picks
<1>. QED
  BY <1>8 DEF failing

\* What the recursion comes to.
LEMMA PicksInOrder ==
  ASSUME NEW S, NEW list \in Seq(S), NEW places, NEW upTo, Picks(upTo, list, places, Len(list)),
         NEW m \in 0 .. Len(list)
  PROVE  upTo[m] \in Seq(S) /\ InOrder(upTo[m], list, places \cap (1 .. m))
<1>. DEFINE Good(k) == upTo[k] \in Seq(S) /\ InOrder(upTo[k], list, places \cap (1 .. k))
            failing == {k \in 0 .. Len(list) : ~Good(k)}
<1>. SUFFICES ASSUME failing # {} PROVE FALSE
  OBVIOUS
<1>0. Len(list) \in Nat /\ \A n \in 1 .. Len(list) : list[n] \in S
  BY LenProperties, ElementOfSeq
<1>1. PICK k \in failing : \A j \in failing : k <= j
  <2>. HIDE DEF failing
  <2>1. failing \in SUBSET Nat
    BY <1>0 DEF failing
  <2>. QED
    BY <2>1, Least
<1>2. k # 0
  <2>1. places \cap (1 .. 0) = {}
    OBVIOUS
  <2>. QED
    BY <2>1, NoneInOrder DEF Picks
<1>3. k \in 1 .. Len(list) /\ k - 1 \in 0 .. Len(list)
  BY <1>0, <1>2
<1>4. Good(k - 1)
  <2>1. k - 1 \notin failing
    <3>. HIDE DEF failing
    <3>. QED
      BY <1>1, <1>3
  <2>. HIDE DEF Good
  <2>. QED
    BY <1>3, <2>1
<1>5. upTo[k] = IF k \in places THEN Append(upTo[k - 1], list[k]) ELSE upTo[k - 1]
  BY <1>3 DEF Picks
<1>6. CASE k \in places
  <2>1. places \cap (1 .. k) = (places \cap (1 .. k - 1)) \cup {k}
    BY <1>3, <1>6
  <2>2. upTo[k] \in Seq(S)
    BY <1>0, <1>3, <1>4, <1>5, <1>6, AppendProperties
  <2>3. InOrder(upTo[k], list, places \cap (1 .. k))
    <3>. HIDE DEF failing
    <3>1. places \cap (1 .. k - 1) \in SUBSET (1 .. k - 1) /\ k \in Nat /\ list[k] \in S
      BY <1>0, <1>3
    <3>2. InOrder(Append(upTo[k - 1], list[k]), list, (places \cap (1 .. k - 1)) \cup {k})
      BY <1>4, <3>1, OneMoreInOrder
    <3>. QED
      BY <1>5, <1>6, <2>1, <3>2
  <2>. QED
    BY <2>2, <2>3
<1>7. CASE k \notin places
  <2>1. places \cap (1 .. k) = places \cap (1 .. k - 1)
    BY <1>3, <1>7
  <2>. QED
    BY <1>4, <1>5, <1>7, <2>1
<1>. QED
  BY <1>6, <1>7

\* A list has all of its items in its order.
LEMMA WholeInOrder ==
  ASSUME NEW S, NEW list \in Seq(S) PROVE InOrder(list, list, DOMAIN list)
<1>1. DOMAIN list = 1 .. Len(list) /\ Len(list) \in Nat
  BY LenProperties
<1>. DEFINE id == [k \in 1 .. Len(list) |-> k]
<1>2. id \in [1 .. Len(list) -> DOMAIN list] /\ \A k \in 1 .. Len(list) : id[k] = k
  BY <1>1
<1>. HIDE DEF id
<1>. QED
  BY <1>1, <1>2 DEF InOrder

\* Picked has the items at its places, once each and in their order.
LEMMA PickedInOrder ==
  ASSUME NEW S, NEW list \in Seq(S), NEW places \in SUBSET DOMAIN list
  PROVE  Picked(list, places) \in Seq(S) /\ InOrder(Picked(list, places), list, places)
<1>1. DOMAIN list = 1 .. Len(list) /\ Len(list) \in Nat
  BY LenProperties
<1>2. CASE DOMAIN list \subseteq places
  <2>1. places = DOMAIN list /\ Picked(list, places) = list
    BY <1>2 DEF Picked
  <2>. QED
    BY <2>1, WholeInOrder
<1>3. CASE ~(DOMAIN list \subseteq places)
  <2>. DEFINE Rec(f) == f = [n \in 0 .. Len(list) |->
                              IF n = 0 THEN <<>>
                              ELSE IF n \in places THEN Append(f[n - 1], list[n]) ELSE f[n - 1]]
              upTo == CHOOSE f : Rec(f)
  <2>1. Picked(list, places) = upTo[Len(list)]
    BY <1>3 DEF Picked
  <2>2. PICK f : Picks(f, list, places, Len(list))
    BY <1>1, PicksExist
  <2>3. Rec(f)
    <3>1. f = [n \in 0 .. Len(list) |-> f[n]]
      BY <2>2 DEF Picks
    <3>2. \A n \in 0 .. Len(list) :
            f[n] = IF n = 0 THEN <<>>
                   ELSE IF n \in places THEN Append(f[n - 1], list[n]) ELSE f[n - 1]
      <4>. SUFFICES ASSUME NEW n \in 0 .. Len(list), n # 0
                    PROVE  f[n] = IF n \in places THEN Append(f[n - 1], list[n]) ELSE f[n - 1]
        BY <2>2 DEF Picks
      <4>1. n \in 1 .. Len(list)
        BY <1>1
      <4>. QED
        BY <2>2, <4>1 DEF Picks
    <3>. QED
      BY <3>1, <3>2
  <2>4. Rec(upTo)
    BY <2>3
  <2>. HIDE DEF upTo
  <2>5. Picks(upTo, list, places, Len(list))
    <3>1. /\ upTo = [n \in 0 .. Len(list) |-> upTo[n]]
          /\ \A n \in 0 .. Len(list) :
               upTo[n] = IF n = 0 THEN <<>>
                         ELSE IF n \in places THEN Append(upTo[n - 1], list[n]) ELSE upTo[n - 1]
      BY <2>4
    <3>2. upTo[0] = <<>>
      BY <1>1, <3>1
    <3>3. \A n \in 1 .. Len(list) : n \in 0 .. Len(list) /\ n # 0
      BY <1>1
    <3>. QED
      BY <3>1, <3>2, <3>3 DEF Picks
  <2>6. places \cap (1 .. Len(list)) = places
    BY <1>1
  <2>7. upTo[Len(list)] \in Seq(S) /\ InOrder(upTo[Len(list)], list, places \cap (1 .. Len(list)))
    <3>1. Len(list) \in 0 .. Len(list)
      BY <1>1
    <3>. QED
      BY <2>5, <3>1, PicksInOrder
  <2>. QED
    BY <2>1, <2>6, <2>7
<1>. QED
  BY <1>2, <1>3

-----------------------------------------------------------------------------
(* Lists that are joined *)

\* `flat` has the items of the first m lists, each of them once.
FlatBy(which, nth, flat, lists, m) ==
  /\ which \in [1 .. Len(flat) -> 1 .. m] /\ nth \in [1 .. Len(flat) -> Nat]
  /\ \A n \in 1 .. Len(flat) :
       nth[n] \in DOMAIN lists[which[n]] /\ flat[n] = lists[which[n]][nth[n]]
  /\ \A j, n \in 1 .. Len(flat) : which[j] = which[n] /\ nth[j] = nth[n] => j = n
  /\ \A k \in 1 .. m : \A i \in DOMAIN lists[k] :
       \E n \in 1 .. Len(flat) : which[n] = k /\ nth[n] = i

Flat(flat, lists, m) == \E which, nth : FlatBy(which, nth, flat, lists, m)

\* The first list is the join of one.
LEMMA FirstFlat ==
  ASSUME NEW S, NEW lists, lists[1] \in Seq(S)
  PROVE  Flat(lists[1], lists, 1)
<1>1. Len(lists[1]) \in Nat /\ DOMAIN lists[1] = 1 .. Len(lists[1])
  BY LenProperties
<1>. DEFINE which == [n \in 1 .. Len(lists[1]) |-> 1]
            nth == [n \in 1 .. Len(lists[1]) |-> n]
<1>2. /\ which \in [1 .. Len(lists[1]) -> 1 .. 1]
      /\ nth \in [1 .. Len(lists[1]) -> Nat]
      /\ \A n \in 1 .. Len(lists[1]) : which[n] = 1 /\ nth[n] = n
  BY <1>1
<1>. HIDE DEF which, nth
<1>3. \A k \in 1 .. 1 : k = 1
  OBVIOUS
<1>4. FlatBy(which, nth, lists[1], lists, 1)
  BY <1>1, <1>2, <1>3 DEF FlatBy
<1>. QED
  BY <1>4 DEF Flat

\* One more list is joined to those before it.
LEMMA NextFlat ==
  ASSUME NEW S, NEW lists, NEW m \in Nat, NEW flat \in Seq(S), Flat(flat, lists, m),
         lists[m + 1] \in Seq(S)
  PROVE  flat \o lists[m + 1] \in Seq(S) /\ Flat(flat \o lists[m + 1], lists, m + 1)
<1>. DEFINE tail == lists[m + 1]
            all == flat \o tail
<1>0. PICK which, nth : FlatBy(which, nth, flat, lists, m)
  BY DEF Flat
<1>1. /\ which \in [1 .. Len(flat) -> 1 .. m] /\ nth \in [1 .. Len(flat) -> Nat]
      /\ \A n \in 1 .. Len(flat) :
           nth[n] \in DOMAIN lists[which[n]] /\ flat[n] = lists[which[n]][nth[n]]
      /\ \A j, n \in 1 .. Len(flat) : which[j] = which[n] /\ nth[j] = nth[n] => j = n
      /\ \A k \in 1 .. m : \A i \in DOMAIN lists[k] :
           \E n \in 1 .. Len(flat) : which[n] = k /\ nth[n] = i
  BY <1>0 DEF FlatBy
<1>2. /\ all \in Seq(S) /\ Len(all) = Len(flat) + Len(tail)
      /\ \A n \in 1 .. Len(flat) + Len(tail) :
           all[n] = IF n <= Len(flat) THEN flat[n] ELSE tail[n - Len(flat)]
  BY ConcatProperties
<1>3. Len(flat) \in Nat /\ Len(tail) \in Nat /\ DOMAIN tail = 1 .. Len(tail)
  BY LenProperties
<1>. DEFINE w == [n \in 1 .. Len(flat) + Len(tail) |-> IF n <= Len(flat) THEN which[n] ELSE m + 1]
            o == [n \in 1 .. Len(flat) + Len(tail) |->
                    IF n <= Len(flat) THEN nth[n] ELSE n - Len(flat)]
<1>4. /\ w \in [1 .. Len(flat) + Len(tail) -> 1 .. m + 1]
      /\ o \in [1 .. Len(flat) + Len(tail) -> Nat]
  BY <1>1, <1>3
<1>5. \A n \in 1 .. Len(flat) : w[n] = which[n] /\ o[n] = nth[n] /\ all[n] = flat[n] /\ w[n] \in 1 .. m
  <2>. SUFFICES ASSUME NEW n \in 1 .. Len(flat)
                PROVE  w[n] = which[n] /\ o[n] = nth[n] /\ all[n] = flat[n] /\ w[n] \in 1 .. m
    OBVIOUS
  <2>1. n \in 1 .. Len(flat) + Len(tail) /\ n <= Len(flat)
    BY <1>3
  <2>2. all[n] = flat[n]
    <3>. HIDE DEF all
    <3>. QED
      BY <1>2, <2>1
  <2>3. w[n] = which[n] /\ o[n] = nth[n]
    BY <2>1
  <2>. QED
    BY <1>1, <2>2, <2>3
<1>6. \A n \in 1 .. Len(flat) + Len(tail) : ~(n \in 1 .. Len(flat)) =>
        /\ w[n] = m + 1 /\ o[n] = n - Len(flat) /\ all[n] = tail[n - Len(flat)]
        /\ n - Len(flat) \in 1 .. Len(tail)
  BY <1>2, <1>3
<1>7. tail = lists[m + 1]
  OBVIOUS
<1>. HIDE DEF all, w, o, tail
<1>8. ASSUME NEW n \in 1 .. Len(flat) + Len(tail)
      PROVE  o[n] \in DOMAIN lists[w[n]] /\ all[n] = lists[w[n]][o[n]]
  <2>1. CASE n \in 1 .. Len(flat)
    BY <1>1, <1>5, <2>1
  <2>2. CASE ~(n \in 1 .. Len(flat))
    BY <1>3, <1>6, <1>7, <2>2
  <2>. QED
    BY <2>1, <2>2
<1>9. ASSUME NEW j \in 1 .. Len(flat) + Len(tail), NEW n \in 1 .. Len(flat) + Len(tail),
             w[j] = w[n], o[j] = o[n]
      PROVE  j = n
  <2>1. CASE j \in 1 .. Len(flat) /\ n \in 1 .. Len(flat)
    <3>1. which[j] = which[n] /\ nth[j] = nth[n]
      BY <1>5, <1>9, <2>1
    <3>. QED
      BY <1>1, <2>1, <3>1
  <2>2. CASE ~(j \in 1 .. Len(flat)) /\ ~(n \in 1 .. Len(flat))
    BY <1>3, <1>6, <1>9, <2>2
  <2>3. CASE (j \in 1 .. Len(flat)) # (n \in 1 .. Len(flat))
    <3>1. m + 1 \notin 1 .. m
      OBVIOUS
    <3>. QED
      BY <1>5, <1>6, <1>9, <2>3, <3>1
  <2>. QED
    BY <2>1, <2>2, <2>3
<1>10. ASSUME NEW k \in 1 .. m + 1, NEW i \in DOMAIN lists[k]
       PROVE  \E n \in 1 .. Len(flat) + Len(tail) : w[n] = k /\ o[n] = i
  <2>1. CASE k \in 1 .. m
    <3>1. PICK n \in 1 .. Len(flat) : which[n] = k /\ nth[n] = i
      BY <1>1, <2>1
    <3>2. n \in 1 .. Len(flat) + Len(tail)
      BY <1>3
    <3>. QED
      BY <1>5, <3>1, <3>2
  <2>2. CASE k = m + 1
    <3>1. i \in 1 .. Len(tail)
      BY <1>3, <1>7, <2>2
    <3>2. /\ Len(flat) + i \in 1 .. Len(flat) + Len(tail)
          /\ ~(Len(flat) + i \in 1 .. Len(flat)) /\ (Len(flat) + i) - Len(flat) = i
      BY <1>3, <3>1
    <3>. QED
      BY <1>6, <2>2, <3>2
  <2>3. k \in 1 .. m \/ k = m + 1
    OBVIOUS
  <2>. QED
    BY <2>1, <2>2, <2>3
<1>11. Flat(all, lists, m + 1)
  <2>1. 1 .. Len(all) = 1 .. Len(flat) + Len(tail)
    BY <1>2
  <2>2. FlatBy(w, o, all, lists, m + 1)
    BY <1>4, <1>8, <1>9, <1>10, <2>1 DEF FlatBy
  <2>. QED
    BY <2>2 DEF Flat
<1>. QED
  BY <1>2, <1>11 DEF all, tail

\* The recursion of FlattenSeq, up to some list.
Flattens(f, lists, m) ==
  /\ f = [i \in 1 .. m |-> f[i]]
  /\ \A i \in 1 .. m : f[i] = IF i = 1 THEN lists[i] ELSE f[i - 1] \o lists[i]

\* The recursive function in FlattenSeq is one that joins.
LEMMA FlattensExist ==
  ASSUME NEW lists, NEW m \in Nat
  PROVE  \E f : Flattens(f, lists, m)
<1>. DEFINE failing == {k \in Nat : ~ \E f : Flattens(f, lists, k)}
<1>. SUFFICES ASSUME failing # {} PROVE FALSE
  OBVIOUS
<1>1. PICK k \in failing : \A j \in failing : k <= j
  <2>. HIDE DEF failing
  <2>1. failing \in SUBSET Nat
    BY DEF failing
  <2>. QED
    BY <2>1, Least
<1>2. k # 0
  <2>. DEFINE none == [i \in 1 .. 0 |-> <<>>]
  <2>1. none = [i \in 1 .. 0 |-> none[i]] /\ 1 .. 0 = {}
    OBVIOUS
  <2>. HIDE DEF none
  <2>2. Flattens(none, lists, 0)
    BY <2>1 DEF Flattens
  <2>. QED
    BY <2>2
<1>3. k \in Nat /\ k - 1 \in Nat /\ k - 1 \notin failing
  <2>1. k \in Nat
    OBVIOUS
  <2>. HIDE DEF failing
  <2>. QED
    BY <1>1, <1>2, <2>1
<1>4. PICK f : Flattens(f, lists, k - 1)
  BY <1>3
<1>. DEFINE last == IF k = 1 THEN lists[k] ELSE f[k - 1] \o lists[k]
            new == [i \in 1 .. k |-> IF i = k THEN last ELSE f[i]]
<1>5. new[k] = last /\ \A i \in 1 .. k - 1 : new[i] = f[i]
  <2>. HIDE DEF last
  <2>1. k \in 1 .. k /\ \A i \in 1 .. k - 1 : i \in 1 .. k /\ i # k
    BY <1>2, <1>3
  <2>. QED
    BY <2>1
<1>6. new = [i \in 1 .. k |-> new[i]]
  OBVIOUS
<1>. HIDE DEF new, last, failing
<1>7. ASSUME NEW i \in 1 .. k
      PROVE  new[i] = IF i = 1 THEN lists[i] ELSE new[i - 1] \o lists[i]
  <2>1. i # 1 => i - 1 \in 1 .. k - 1 /\ new[i - 1] = f[i - 1]
    BY <1>3, <1>5
  <2>2. CASE i = k
    BY <1>5, <2>1, <2>2 DEF last
  <2>3. CASE i # k
    <3>1. i \in 1 .. k - 1
      BY <1>3, <2>3
    <3>. QED
      BY <1>4, <1>5, <2>1, <3>1 DEF Flattens
  <2>. QED
    BY <2>2, <2>3
<1>8. Flattens(new, lists, k)
  BY <1>6, <1>7 DEF Flattens
<1>. QED
  BY <1>8 DEF failing

\* What it returns has the items of the first lists.
LEMMA FlattensFlat ==
  ASSUME NEW S, NEW lists, NEW m \in Nat, \A i \in 1 .. m : lists[i] \in Seq(S),
         NEW f, Flattens(f, lists, m), NEW n \in 1 .. m
  PROVE  f[n] \in Seq(S) /\ Flat(f[n], lists, n)
<1>. DEFINE Good(k) == f[k] \in Seq(S) /\ Flat(f[k], lists, k)
            failing == {k \in 1 .. m : ~Good(k)}
<1>. SUFFICES ASSUME failing # {} PROVE FALSE
  OBVIOUS
<1>1. PICK k \in failing : \A j \in failing : k <= j
  <2>. HIDE DEF failing
  <2>1. failing \in SUBSET Nat
    BY DEF failing
  <2>. QED
    BY <2>1, Least
<1>2. k \in 1 .. m /\ f[k] = IF k = 1 THEN lists[k] ELSE f[k - 1] \o lists[k]
  BY DEF Flattens
<1>3. CASE k = 1
  BY <1>2, <1>3, FirstFlat
<1>4. CASE k # 1
  <2>1. k - 1 \in 1 .. m /\ k - 1 \in Nat /\ (k - 1) + 1 = k
    BY <1>2, <1>4
  <2>2. k - 1 \notin failing
    <3>. HIDE DEF failing
    <3>. QED
      BY <1>1, <1>2, <2>1
  <2>3. Good(k - 1)
    <3>. HIDE DEF Good
    <3>. QED
      BY <2>1, <2>2
  <2>4. f[k - 1] \o lists[(k - 1) + 1] \in Seq(S) /\ Flat(f[k - 1] \o lists[(k - 1) + 1], lists, (k - 1) + 1)
    <3>. HIDE DEF failing
    <3>1. lists[(k - 1) + 1] \in Seq(S)
      BY <1>2, <2>1
    <3>. QED
      BY <2>1, <2>3, <3>1, NextFlat
  <2>. QED
    BY <1>2, <1>4, <2>1, <2>4
<1>. QED
  BY <1>3, <1>4

\* Flattening lists gives all of their items, each of them once.
LEMMA Flattened ==
  ASSUME NEW S, NEW lists \in Seq(Seq(S))
  PROVE  FlattenSeq(lists) \in Seq(S) /\ Flat(FlattenSeq(lists), lists, Len(lists))
<1>1. Len(lists) \in Nat /\ \A i \in 1 .. Len(lists) : lists[i] \in Seq(S)
  BY LenProperties, ElementOfSeq
<1>2. CASE Len(lists) = 0
  <2>1. FlattenSeq(lists) = <<>>
    BY <1>2, EmptySeq DEF FlattenSeq
  <2>2. Len(<<>>) = 0 /\ 1 .. 0 = {} /\ <<>> \in Seq(S)
    OBVIOUS
  <2>3. [n \in {} |-> n] \in [1 .. Len(<<>>) -> 1 .. Len(lists)] /\ [n \in {} |-> n] \in [1 .. Len(<<>>) -> Nat]
    BY <2>2
  <2>4. FlatBy([n \in {} |-> n], [n \in {} |-> n], <<>>, lists, Len(lists))
    BY <1>2, <2>2, <2>3 DEF FlatBy
  <2>. QED
    BY <2>1, <2>2, <2>4 DEF Flat
<1>3. CASE Len(lists) # 0
  <2>. DEFINE Rec(f) == f = [i \in 1 .. Len(lists) |->
                              IF i = 1 THEN lists[i] ELSE f[i - 1] \o lists[i]]
              flatten == CHOOSE f : Rec(f)
  <2>1. FlattenSeq(lists) = flatten[Len(lists)]
    BY <1>3 DEF FlattenSeq
  <2>2. PICK f : Flattens(f, lists, Len(lists))
    BY <1>1, FlattensExist
  <2>3. Rec(f)
    <3>1. f = [i \in 1 .. Len(lists) |-> f[i]]
      BY <2>2 DEF Flattens
    <3>2. \A i \in 1 .. Len(lists) : f[i] = IF i = 1 THEN lists[i] ELSE f[i - 1] \o lists[i]
      BY <2>2 DEF Flattens
    <3>. QED
      BY <3>1, <3>2
  <2>4. Rec(flatten)
    BY <2>3
  <2>. HIDE DEF flatten
  <2>5. Flattens(flatten, lists, Len(lists))
    <3>1. /\ flatten = [i \in 1 .. Len(lists) |-> flatten[i]]
          /\ \A i \in 1 .. Len(lists) :
               flatten[i] = IF i = 1 THEN lists[i] ELSE flatten[i - 1] \o lists[i]
      BY <2>4
    <3>. QED
      BY <3>1 DEF Flattens
  <2>6. Len(lists) \in 1 .. Len(lists)
    BY <1>1, <1>3
  <2>7. flatten[Len(lists)] \in Seq(S) /\ Flat(flatten[Len(lists)], lists, Len(lists))
    BY <1>1, <2>5, <2>6, FlattensFlat
  <2>. QED
    BY <2>1, <2>7
<1>. QED
  BY <1>2, <1>3

-----------------------------------------------------------------------------
(* Parts of lists *)

\* The numbers up to n are n.
LEMMA UpTo == ASSUME NEW n \in Nat PROVE IsFiniteSet(1 .. n) /\ Cardinality(1 .. n) = n
<1>1. 1 \in Int /\ n \in Int
  OBVIOUS
<1>2. IsFiniteSet(1 .. n) /\ Cardinality(1 .. n) = IF 1 > n THEN 0 ELSE n - 1 + 1
  BY <1>1, FS_Interval
<1>. QED
  BY <1>2

\* What is picked from a list is in it, at one of the places, and all of it is
\* picked; nothing is picked twice.
LEMMA Chosen ==
  ASSUME NEW S, NEW list \in Seq(S), NEW places \in SUBSET DOMAIN list
  PROVE  /\ Picked(list, places) \in Seq(S)
         /\ Len(Picked(list, places)) \in 0 .. Len(list)
         /\ \A k \in DOMAIN Picked(list, places) : \E i \in places : Picked(list, places)[k] = list[i]
         /\ \A i \in places : \E k \in DOMAIN Picked(list, places) : Picked(list, places)[k] = list[i]
<1>. DEFINE chosen == Picked(list, places)
<1>1. chosen \in Seq(S) /\ InOrder(chosen, list, places)
  BY PickedInOrder
<1>. HIDE DEF chosen
<1>2. PICK at \in [1 .. Len(chosen) -> places] :
        /\ \A j, k \in 1 .. Len(chosen) : j < k => at[j] < at[k]
        /\ \A i \in places : \E k \in 1 .. Len(chosen) : at[k] = i
        /\ \A k \in 1 .. Len(chosen) : chosen[k] = list[at[k]]
  BY <1>1 DEF InOrder
<1>3. /\ Len(chosen) \in Nat /\ DOMAIN chosen = 1 .. Len(chosen)
      /\ Len(list) \in Nat /\ DOMAIN list = 1 .. Len(list)
  BY <1>1, LenProperties
<1>4. Len(chosen) <= Len(list)
  <2>1. IsFiniteSet(1 .. Len(list)) /\ Cardinality(1 .. Len(list)) = Len(list)
    BY <1>3, UpTo
  <2>2. IsFiniteSet(1 .. Len(chosen)) /\ Cardinality(1 .. Len(chosen)) = Len(chosen)
    BY <1>3, UpTo
  <2>3. at \in Injection(1 .. Len(chosen), 1 .. Len(list))
    <3>1. at \in [1 .. Len(chosen) -> 1 .. Len(list)]
      BY <1>3
    <3>2. \A j, k \in 1 .. Len(chosen) : at[j] = at[k] => j = k
      <4>. SUFFICES ASSUME NEW j \in 1 .. Len(chosen), NEW k \in 1 .. Len(chosen), at[j] = at[k]
                    PROVE  j = k
        OBVIOUS
      <4>1. at[j] \in Int /\ at[k] \in Int
        BY <3>1
      <4>2. ~(j < k) /\ ~(k < j)
        BY <1>2, <4>1
      <4>. QED
        BY <4>2
    <3>. QED
      BY <3>1, <3>2 DEF Injection, IsInjective
  <2>. QED
    BY <2>1, <2>2, <2>3, <1>3, FS_Injection
<1>5. \A k \in 1 .. Len(chosen) : at[k] \in places /\ chosen[k] = list[at[k]]
  BY <1>2
<1>6. \A i \in places : \E k \in 1 .. Len(chosen) : chosen[k] = list[i]
  BY <1>2
<1>7. Len(chosen) \in 0 .. Len(list)
  BY <1>3, <1>4
<1>8. /\ chosen \in Seq(S) /\ Len(chosen) \in 0 .. Len(list)
      /\ \A k \in DOMAIN chosen : \E i \in places : chosen[k] = list[i]
      /\ \A i \in places : \E k \in DOMAIN chosen : chosen[k] = list[i]
  BY <1>1, <1>3, <1>5, <1>6, <1>7
<1>. QED
  BY <1>8 DEF chosen

\* No two entries of a list have one id.
Distinct(list) == \A i, j \in DOMAIN list : SameId(list[i], list[j]) => i = j

\* What is picked from a list without repetitions has none.
LEMMA ChosenOnce ==
  ASSUME NEW S, NEW list \in Seq(S), NEW places \in SUBSET DOMAIN list, IsInjective(list),
         NEW j \in DOMAIN Picked(list, places), NEW k \in DOMAIN Picked(list, places),
         Picked(list, places)[j] = Picked(list, places)[k]
  PROVE  j = k
<1>. DEFINE chosen == Picked(list, places)
<1>1. chosen \in Seq(S) /\ InOrder(chosen, list, places)
  BY PickedInOrder
<1>. HIDE DEF chosen
<1>2. PICK at \in [1 .. Len(chosen) -> places] :
        /\ \A m, n \in 1 .. Len(chosen) : m < n => at[m] < at[n]
        /\ \A n \in 1 .. Len(chosen) : chosen[n] = list[at[n]]
  BY <1>1 DEF InOrder
<1>3. /\ Len(chosen) \in Nat /\ DOMAIN chosen = 1 .. Len(chosen)
      /\ Len(list) \in Nat /\ DOMAIN list = 1 .. Len(list)
  BY <1>1, LenProperties
<1>4. j \in 1 .. Len(chosen) /\ k \in 1 .. Len(chosen) /\ chosen[j] = chosen[k]
  BY <1>3 DEF chosen
<1>5. at[j] \in DOMAIN list /\ at[k] \in DOMAIN list /\ at[j] = at[k]
  BY <1>2, <1>4 DEF IsInjective
<1>6. at[j] \in Int /\ at[k] \in Int
  BY <1>3, <1>5
<1>7. ~(j < k) /\ ~(k < j)
  BY <1>2, <1>4, <1>5, <1>6
<1>. QED
  BY <1>3, <1>4, <1>7

\* The same of members and their ids.
LEMMA ChosenDistinct ==
  ASSUME NEW S, NEW list \in Seq(S), NEW places \in SUBSET DOMAIN list, Distinct(list)
  PROVE  Distinct(Picked(list, places))
<1>. DEFINE chosen == Picked(list, places)
<1>1. chosen \in Seq(S) /\ InOrder(chosen, list, places)
  BY PickedInOrder
<1>. HIDE DEF chosen
<1>2. PICK at \in [1 .. Len(chosen) -> places] :
        /\ \A j, k \in 1 .. Len(chosen) : j < k => at[j] < at[k]
        /\ \A k \in 1 .. Len(chosen) : chosen[k] = list[at[k]]
  BY <1>1 DEF InOrder
<1>3. /\ Len(chosen) \in Nat /\ DOMAIN chosen = 1 .. Len(chosen)
      /\ Len(list) \in Nat /\ DOMAIN list = 1 .. Len(list)
  BY <1>1, LenProperties
<1>4. ASSUME NEW j \in DOMAIN chosen, NEW k \in DOMAIN chosen, SameId(chosen[j], chosen[k]) PROVE j = k
  <2>1. at[j] \in DOMAIN list /\ at[k] \in DOMAIN list /\ at[j] = at[k]
    BY <1>2, <1>3, <1>4 DEF Distinct
  <2>2. at[j] \in Int /\ at[k] \in Int
    BY <1>3, <2>1
  <2>3. ~(j < k) /\ ~(k < j)
    BY <1>2, <1>3, <2>1, <2>2
  <2>. QED
    BY <1>3, <2>3
<1>. QED
  BY <1>4 DEF Distinct, chosen

\* All of a list is the list.
LEMMA AllChosen ==
  ASSUME NEW list, NEW places, DOMAIN list \subseteq places
  PROVE  Picked(list, places) = list
BY DEF Picked

\* Taking an item out of a list leaves the others.
LEMMA TakenOut ==
  ASSUME NEW S, NEW list \in Seq(S), NEW i \in DOMAIN list
  PROVE  /\ RemoveAt(list, i) \in Seq(S)
         /\ Len(RemoveAt(list, i)) = Len(list) - 1
         /\ \A k \in 1 .. Len(list) - 1 : RemoveAt(list, i)[k] = IF k < i THEN list[k] ELSE list[k + 1]
<1>1. Len(list) \in Nat /\ i \in 1 .. Len(list)
  BY LenProperties
<1>. DEFINE front == SubSeq(list, 1, i - 1)
            back  == SubSeq(list, i + 1, Len(list))
<1>2. /\ front \in Seq(S) /\ Len(front) = i - 1
      /\ \A k \in 1 .. i - 1 : front[k] = list[k]
  <2>1. \A k \in 1 .. i - 1 : list[k] \in S
    BY <1>1, ElementOfSeq
  <2>2. 1 \in Int /\ i - 1 \in Int
    BY <1>1
  <2>3. /\ front \in Seq(S) /\ Len(front) = IF 1 <= i - 1 THEN (i - 1) - 1 + 1 ELSE 0
        /\ \A k \in 1 .. (i - 1) - 1 + 1 : front[k] = list[1 + k - 1]
    BY <2>1, <2>2, SubSeqProperties
  <2>. HIDE DEF front
  <2>4. Len(front) = i - 1
    BY <1>1, <2>3
  <2>5. \A k \in 1 .. i - 1 : k \in 1 .. (i - 1) - 1 + 1 /\ 1 + k - 1 = k
    BY <1>1
  <2>. QED
    BY <2>3, <2>4, <2>5
<1>3. /\ back \in Seq(S) /\ Len(back) = Len(list) - i
      /\ \A k \in 1 .. Len(list) - i : back[k] = list[i + k]
  <2>1. \A k \in i + 1 .. Len(list) : list[k] \in S
    BY <1>1, ElementOfSeq
  <2>2. i + 1 \in Int /\ Len(list) \in Int
    BY <1>1
  <2>3. /\ back \in Seq(S) /\ Len(back) = IF i + 1 <= Len(list) THEN Len(list) - (i + 1) + 1 ELSE 0
        /\ \A k \in 1 .. Len(list) - (i + 1) + 1 : back[k] = list[(i + 1) + k - 1]
    BY <2>1, <2>2, SubSeqProperties
  <2>. HIDE DEF back
  <2>4. Len(back) = Len(list) - i
    BY <1>1, <2>3
  <2>5. \A k \in 1 .. Len(list) - i : k \in 1 .. Len(list) - (i + 1) + 1 /\ (i + 1) + k - 1 = i + k
    BY <1>1
  <2>. QED
    BY <2>3, <2>4, <2>5
<1>4. RemoveAt(list, i) = front \o back
  BY DEF RemoveAt
<1>. HIDE DEF front, back
<1>5. /\ front \o back \in Seq(S) /\ Len(front \o back) = Len(front) + Len(back)
      /\ \A k \in 1 .. Len(front) + Len(back) :
           (front \o back)[k] = IF k <= Len(front) THEN front[k] ELSE back[k - Len(front)]
  BY <1>2, <1>3, ConcatProperties
<1>. DEFINE all == front \o back
<1>. HIDE DEF all
<1>6. Len(all) = Len(list) - 1
  BY <1>1, <1>2, <1>3, <1>5 DEF all
<1>7. ASSUME NEW k \in 1 .. Len(list) - 1 PROVE all[k] = IF k < i THEN list[k] ELSE list[k + 1]
  <2>1. all[k] = IF k <= i - 1 THEN front[k] ELSE back[k - (i - 1)]
    <3>1. k \in 1 .. Len(front) + Len(back)
      BY <1>1, <1>2, <1>3
    <3>. QED
      BY <1>2, <1>5, <3>1 DEF all
  <2>2. CASE k < i
    BY <1>1, <1>2, <2>1, <2>2
  <2>3. CASE ~(k < i)
    <3>1. k - (i - 1) \in 1 .. Len(list) - i /\ i + (k - (i - 1)) = k + 1
      BY <1>1, <2>3
    <3>. QED
      BY <1>1, <1>3, <2>1, <2>3, <3>1
  <2>. QED
    BY <2>2, <2>3
<1>. QED
  BY <1>4, <1>5, <1>6, <1>7 DEF all

\* There is one way to go through places in their order.
LEMMA NotAhead ==
  ASSUME NEW places \in SUBSET Nat, NEW m \in Nat, NEW n \in Nat,
         NEW f \in [1 .. m -> places], NEW g \in [1 .. n -> places],
         \A j, k \in 1 .. m : j < k => f[j] < f[k],
         \A j, k \in 1 .. n : j < k => g[j] < g[k],
         \A i \in places : \E k \in 1 .. n : g[k] = i,
         NEW k \in 1 .. m, k \in 1 .. n, \A j \in 1 .. k - 1 : f[j] = g[j]
  PROVE  ~(f[k] < g[k])
<1>. SUFFICES ASSUME f[k] < g[k] PROVE FALSE
  OBVIOUS
<1>1. PICK j \in 1 .. n : g[j] = f[k]
  OBVIOUS
<1>2. j < k
  <2>. SUFFICES ASSUME k <= j PROVE FALSE
    OBVIOUS
  <2>1. g[k] <= g[j]
    <3>0. g[k] \in Nat
      OBVIOUS
    <3>1. k = j \/ k < j
      OBVIOUS
    <3>2. CASE k = j
      BY <3>0, <3>2
    <3>3. CASE k < j
      <4>1. g[k] < g[j] /\ g[j] \in Nat
        BY <3>3
      <4>. QED
        BY <3>0, <4>1
    <3>. QED
      BY <3>1, <3>2, <3>3
  <2>. QED
    <3>1. g[k] \in Nat /\ g[j] \in Nat
      OBVIOUS
    <3>. QED
      BY <1>1, <2>1, <3>1
<1>3. j \in 1 .. k - 1 /\ j \in 1 .. m
  BY <1>2
<1>4. f[j] < f[k] /\ f[j] = f[k]
  BY <1>1, <1>2, <1>3
<1>5. f[k] \in Nat
  OBVIOUS
<1>. QED
  BY <1>4, <1>5

\* Of two ways through places, the one that goes through them in order is no longer.
LEMMA NotLonger ==
  ASSUME NEW places \in SUBSET Nat, NEW m \in Nat, NEW n \in Nat,
         NEW f \in [1 .. m -> places], NEW g \in [1 .. n -> places],
         \A j, k \in 1 .. n : j < k => g[j] < g[k],
         \A i \in places : \E k \in 1 .. m : f[k] = i,
         \A j \in 1 .. m : j \in 1 .. n => f[j] = g[j]
  PROVE  n <= m
<1>. SUFFICES ASSUME m < n PROVE FALSE
  OBVIOUS
<1>1. m + 1 \in 1 .. n /\ g[m + 1] \in places
  <2>1. m + 1 \in 1 .. n
    OBVIOUS
  <2>. QED
    BY <2>1
<1>2. PICK j \in 1 .. m : f[j] = g[m + 1]
  BY <1>1
<1>3. j \in 1 .. n /\ j < m + 1
  OBVIOUS
<1>4. g[j] = g[m + 1] /\ g[j] < g[m + 1]
  BY <1>1, <1>2, <1>3
<1>5. g[j] \in Nat
  BY <1>3
<1>. QED
  BY <1>4, <1>5

Through(at, m, places) ==
  /\ at \in [1 .. m -> places]
  /\ \A j, k \in 1 .. m : j < k => at[j] < at[k]
  /\ \A i \in places : \E k \in 1 .. m : at[k] = i

\* Two ways through the same places in order are one.
LEMMA OneOrder ==
  ASSUME NEW places \in SUBSET Nat, NEW m \in Nat, NEW n \in Nat,
         NEW f, NEW g, Through(f, m, places), Through(g, n, places)
  PROVE  m = n /\ \A k \in 1 .. m : f[k] = g[k]
<1>. USE DEF Through
<1>. DEFINE differ == {k \in Nat : k \in 1 .. m /\ k \in 1 .. n /\ f[k] # g[k]}
<1>1. differ = {}
  <2>. SUFFICES ASSUME differ # {} PROVE FALSE
    OBVIOUS
  <2>1. PICK k \in differ : \A j \in differ : k <= j
    <3>. HIDE DEF differ
    <3>1. differ \in SUBSET Nat
      BY DEF differ
    <3>. QED
      BY <3>1, Least
  <2>2. k \in Nat /\ k \in 1 .. m /\ k \in 1 .. n /\ f[k] # g[k]
    OBVIOUS
  <2>3. \A j \in 1 .. k - 1 : f[j] = g[j]
    <3>. SUFFICES ASSUME NEW j \in 1 .. k - 1 PROVE f[j] = g[j]
      OBVIOUS
    <3>1. j \in Nat /\ j \in 1 .. m /\ j \in 1 .. n /\ ~(k <= j)
      BY <2>2
    <3>2. j \notin differ
      <4>. HIDE DEF differ
      <4>. QED
        BY <2>1, <3>1
    <3>. QED
      BY <3>1, <3>2
  <2>. HIDE DEF differ
  <2>4. ~(f[k] < g[k])
    BY <2>2, <2>3, NotAhead
  <2>5. ~(g[k] < f[k])
    <3>1. \A j \in 1 .. k - 1 : g[j] = f[j]
      BY <2>3
    <3>. QED
      BY <2>2, <3>1, NotAhead
  <2>6. f[k] \in Nat /\ g[k] \in Nat
    BY <2>2
  <2>. QED
    BY <2>2, <2>4, <2>5, <2>6
<1>2. \A j \in 1 .. m : j \in 1 .. n => f[j] = g[j]
  <2>. SUFFICES ASSUME NEW j \in 1 .. m, j \in 1 .. n PROVE f[j] = g[j]
    OBVIOUS
  <2>1. j \in Nat /\ j \notin differ
    BY <1>1
  <2>. QED
    BY <2>1
<1>. HIDE DEF differ
<1>3. n <= m
  BY <1>2, NotLonger
<1>4. m <= n
  <2>1. \A j \in 1 .. n : j \in 1 .. m => g[j] = f[j]
    BY <1>2
  <2>. QED
    BY <2>1, NotLonger
<1>5. m = n
  BY <1>3, <1>4
<1>. QED
  BY <1>2, <1>5

\* What two lists have at the same places is at the same places.
LEMMA TwoInOrder ==
  ASSUME NEW S, NEW T, NEW chosen \in Seq(S), NEW chosen2 \in Seq(T), NEW list, NEW list2,
         NEW places \in SUBSET Nat, InOrder(chosen, list, places), InOrder(chosen2, list2, places)
  PROVE  /\ Len(chosen) = Len(chosen2)
         /\ \A k \in 1 .. Len(chosen) : \E i \in places : chosen[k] = list[i] /\ chosen2[k] = list2[i]
<1>1. PICK f \in [1 .. Len(chosen) -> places] :
        /\ \A j, k \in 1 .. Len(chosen) : j < k => f[j] < f[k]
        /\ \A i \in places : \E k \in 1 .. Len(chosen) : f[k] = i
        /\ \A k \in 1 .. Len(chosen) : chosen[k] = list[f[k]]
  BY DEF InOrder
<1>2. PICK g \in [1 .. Len(chosen2) -> places] :
        /\ \A j, k \in 1 .. Len(chosen2) : j < k => g[j] < g[k]
        /\ \A i \in places : \E k \in 1 .. Len(chosen2) : g[k] = i
        /\ \A k \in 1 .. Len(chosen2) : chosen2[k] = list2[g[k]]
  BY DEF InOrder
<1>3. Len(chosen) \in Nat /\ Len(chosen2) \in Nat
  BY LenProperties
<1>4. Len(chosen) = Len(chosen2) /\ \A k \in 1 .. Len(chosen) : f[k] = g[k]
  <2>1. Through(f, Len(chosen), places)
    BY <1>1 DEF Through
  <2>2. Through(g, Len(chosen2), places)
    BY <1>2 DEF Through
  <2>. QED
    BY <1>3, <2>1, <2>2, OneOrder
<1>5. ASSUME NEW k \in 1 .. Len(chosen)
      PROVE  f[k] \in places /\ chosen[k] = list[f[k]] /\ chosen2[k] = list2[f[k]]
  BY <1>1, <1>2, <1>4
<1>. QED
  BY <1>4, <1>5

\* `second` are the places of `first`, which is picked from a list, where the
\* items are of T; `passing` are their places in the list.
Narrows(list, places, T, first, second, passing) ==
  /\ places \in SUBSET DOMAIN list /\ first = Picked(list, places)
  /\ second = {k \in DOMAIN first : first[k] \in T}
  /\ passing = {i \in places : list[i] \in T}

\* Choosing among what was chosen.
LEMMA ChosenTwice ==
  ASSUME NEW S, NEW list \in Seq(S), NEW places, NEW T, NEW first, NEW second, NEW passing,
         Narrows(list, places, T, first, second, passing)
  PROVE  Picked(first, second) = Picked(list, passing)
<1>. DEFINE once  == Picked(list, places)
            twice == Picked(once, {k \in DOMAIN once : once[k] \in T})
            both  == {i \in places : list[i] \in T}
            chosen  == Picked(list, both)
<1>0. /\ Picked(first, second) = twice /\ Picked(list, passing) = chosen
      /\ places \in SUBSET DOMAIN list
  BY DEF Narrows
<1>1. once \in Seq(S) /\ InOrder(once, list, places)
  BY <1>0, PickedInOrder
<1>2. chosen \in Seq(S) /\ InOrder(chosen, list, both)
  <2>1. both \subseteq DOMAIN list
    BY <1>0
  <2>. HIDE DEF both
  <2>. QED
    BY <2>1, PickedInOrder
<1>. DEFINE there == {k \in DOMAIN once : once[k] \in T}
<1>. HIDE DEF once
<1>3. twice \in Seq(S) /\ InOrder(twice, once, there)
  <2>1. there \subseteq DOMAIN once
    OBVIOUS
  <2>. HIDE DEF there
  <2>. QED
    BY <1>1, <2>1, PickedInOrder DEF there
<1>4. /\ Len(once) \in Nat /\ DOMAIN once = 1 .. Len(once)
      /\ Len(list) \in Nat /\ DOMAIN list = 1 .. Len(list)
      /\ Len(twice) \in Nat
  BY <1>1, <1>3, LenProperties
<1>. HIDE DEF twice
<1>5. PICK f \in [1 .. Len(once) -> places] :
        /\ \A j, k \in 1 .. Len(once) : j < k => f[j] < f[k]
        /\ \A i \in places : \E k \in 1 .. Len(once) : f[k] = i
        /\ \A k \in 1 .. Len(once) : once[k] = list[f[k]]
  BY <1>1 DEF InOrder
<1>6. PICK g \in [1 .. Len(twice) -> there] :
        /\ \A j, k \in 1 .. Len(twice) : j < k => g[j] < g[k]
        /\ \A i \in there : \E k \in 1 .. Len(twice) : g[k] = i
        /\ \A k \in 1 .. Len(twice) : twice[k] = once[g[k]]
  BY <1>3 DEF InOrder
<1>. DEFINE h == [k \in 1 .. Len(twice) |-> f[g[k]]]
<1>7. \A k \in 1 .. Len(twice) : g[k] \in 1 .. Len(once) /\ once[g[k]] \in T
  BY <1>4
<1>8. h \in [1 .. Len(twice) -> both]
  BY <1>5, <1>7
<1>9. \A j, k \in 1 .. Len(twice) : j < k => h[j] < h[k]
  BY <1>5, <1>6, <1>7
<1>10. ASSUME NEW i \in both PROVE \E k \in 1 .. Len(twice) : h[k] = i
  <2>1. PICK n \in 1 .. Len(once) : f[n] = i
    BY <1>5
  <2>2. n \in there
    BY <1>4, <1>5, <2>1
  <2>3. PICK k \in 1 .. Len(twice) : g[k] = n
    BY <1>6, <2>2
  <2>. QED
    BY <2>1, <2>3
<1>11. \A k \in 1 .. Len(twice) : twice[k] = list[h[k]]
  BY <1>5, <1>6, <1>7
<1>12. InOrder(twice, list, both)
  <2>. HIDE DEF h, both
  <2>. QED
    BY <1>8, <1>9, <1>10, <1>11 DEF InOrder
<1>. HIDE DEF chosen
<1>13. /\ Len(twice) = Len(chosen)
       /\ \A k \in 1 .. Len(twice) : \E i \in both : twice[k] = list[i] /\ chosen[k] = list[i]
  <2>1. both \in SUBSET Nat
    BY <1>0, <1>4
  <2>. HIDE DEF both
  <2>. QED
    BY <1>2, <1>3, <1>12, <2>1, TwoInOrder
<1>14. twice = chosen
  <2>1. \A k \in 1 .. Len(twice) : twice[k] = chosen[k]
    BY <1>13
  <2>. QED
    BY <1>2, <1>3, <1>13, <2>1, SeqEqual
<1>. QED
  BY <1>0, <1>14

\* A list and what its items are turned into are chosen from alike.
Alike(chosen, chosen2, list, list2, places) ==
  /\ Len(chosen) = Len(chosen2)
  /\ \A k \in 1 .. Len(chosen) : \E i \in places : chosen[k] = list[i] /\ chosen2[k] = list2[i]

\* The same places of two lists are picked in the same order.
LEMMA ChosenAlike ==
  ASSUME NEW S, NEW T, NEW list \in Seq(S), NEW list2 \in Seq(T), Len(list) = Len(list2),
         NEW places \in SUBSET DOMAIN list
  PROVE  Alike(Picked(list, places), Picked(list2, places), list, list2, places)
<1>1. DOMAIN list = DOMAIN list2 /\ DOMAIN list \subseteq Nat
  <2>1. /\ Len(list) \in Nat /\ DOMAIN list = 1 .. Len(list) /\ DOMAIN list2 = 1 .. Len(list2)
    BY LenProperties
  <2>. QED
    BY <2>1
<1>2. Picked(list, places) \in Seq(S) /\ InOrder(Picked(list, places), list, places)
  BY PickedInOrder
<1>3. Picked(list2, places) \in Seq(T) /\ InOrder(Picked(list2, places), list2, places)
  BY <1>1, PickedInOrder
<1>. QED
  BY <1>1, <1>2, <1>3, TwoInOrder DEF Alike

\* `result` has the items of a list of its length in some order.
Rearranged(result, list) ==
  \E place \in [DOMAIN list -> DOMAIN list] :
    /\ \A k \in DOMAIN list : result[k] = list[place[k]]
    /\ \A j, k \in DOMAIN list : place[j] = place[k] => j = k

\* Moving an item to another place leaves the same items.
LEMMA Moved ==
  ASSUME NEW S, NEW list \in Seq(S), NEW from \in DOMAIN list, NEW to \in DOMAIN list,
         NEW result, result = InsertAt(RemoveAt(list, from), to, list[from])
  PROVE  result \in Seq(S) /\ Len(result) = Len(list) /\ Rearranged(result, list)
<1>. DEFINE rest  == RemoveAt(list, from)
            item  == list[from]
            front == SubSeq(rest, 1, to - 1)
            back  == SubSeq(rest, to, Len(rest))
            moved == front \o <<item>> \o back
<1>1. /\ Len(list) \in Nat /\ DOMAIN list = 1 .. Len(list)
      /\ from \in 1 .. Len(list) /\ to \in 1 .. Len(list) /\ item \in S
  BY LenProperties, ElementOfSeq
<1>2. /\ rest \in Seq(S) /\ Len(rest) = Len(list) - 1
      /\ \A k \in 1 .. Len(list) - 1 : rest[k] = IF k < from THEN list[k] ELSE list[k + 1]
  BY TakenOut
<1>. HIDE DEF rest, item
<1>3. /\ front \in Seq(S) /\ Len(front) = to - 1
      /\ \A k \in 1 .. to - 1 : front[k] = rest[k]
  <2>1. \A k \in 1 .. to - 1 : rest[k] \in S
    BY <1>1, <1>2, ElementOfSeq
  <2>2. 1 \in Int /\ to - 1 \in Int
    BY <1>1
  <2>3. /\ front \in Seq(S) /\ Len(front) = IF 1 <= to - 1 THEN (to - 1) - 1 + 1 ELSE 0
        /\ \A k \in 1 .. (to - 1) - 1 + 1 : front[k] = rest[1 + k - 1]
    BY <2>1, <2>2, SubSeqProperties
  <2>. HIDE DEF front
  <2>4. Len(front) = to - 1
    BY <1>1, <2>3
  <2>5. \A k \in 1 .. to - 1 : k \in 1 .. (to - 1) - 1 + 1 /\ 1 + k - 1 = k
    BY <1>1
  <2>. QED
    BY <2>3, <2>4, <2>5
<1>4. /\ back \in Seq(S) /\ Len(back) = Len(list) - to
      /\ \A k \in 1 .. Len(list) - to : back[k] = rest[to + k - 1]
  <2>. DEFINE first == to
              last  == Len(rest)
  <2>1. \A k \in first .. last : rest[k] \in S
    BY <1>1, <1>2, ElementOfSeq
  <2>2. first \in Int /\ last \in Int
    BY <1>1, <1>2
  <2>3. /\ back \in Seq(S) /\ Len(back) = IF first <= last THEN last - first + 1 ELSE 0
        /\ \A k \in 1 .. last - first + 1 : back[k] = rest[first + k - 1]
    <3>. HIDE DEF first, last, back
    <3>1. back = SubSeq(rest, first, last)
      BY DEF first, last, back
    <3>. QED
      BY <2>1, <2>2, <3>1, SubSeqProperties
  <2>. HIDE DEF back
  <2>4. Len(back) = Len(list) - to
    BY <1>1, <1>2, <2>3
  <2>5. \A k \in 1 .. Len(list) - to : k \in 1 .. Len(rest) - to + 1
    BY <1>1, <1>2
  <2>. QED
    BY <2>3, <2>4, <2>5
<1>. HIDE DEF front, back
<1>5. /\ <<item>> \in Seq(S) /\ Len(<<item>>) = 1 /\ <<item>>[1] = item
  BY <1>1
<1>. DEFINE begin == front \o <<item>>
<1>6. /\ begin \in Seq(S) /\ Len(begin) = Len(front) + 1
      /\ \A k \in 1 .. Len(front) + 1 : begin[k] = IF k <= Len(front) THEN front[k] ELSE <<item>>[k - Len(front)]
  BY <1>3, <1>5, ConcatProperties
<1>. HIDE DEF begin
<1>7. /\ moved \in Seq(S) /\ Len(moved) = Len(begin) + Len(back)
      /\ \A k \in 1 .. Len(begin) + Len(back) :
           moved[k] = IF k <= Len(begin) THEN begin[k] ELSE back[k - Len(begin)]
  BY <1>4, <1>6, ConcatProperties DEF begin
<1>. HIDE DEF moved
<1>8. Len(moved) = Len(list)
  BY <1>1, <1>3, <1>4, <1>6, <1>7
<1>. DEFINE skip(k) == IF k < from THEN k ELSE k + 1
            place == [k \in 1 .. Len(list) |->
                        IF k < to THEN skip(k) ELSE IF k = to THEN from ELSE skip(k - 1)]
<1>9. place \in [1 .. Len(list) -> 1 .. Len(list)]
  BY <1>1
<1>10. \A j, k \in 1 .. Len(list) : place[j] = place[k] => j = k
  BY <1>1
<1>11. ASSUME NEW k \in 1 .. Len(list) PROVE moved[k] = list[place[k]]
  <2>1. k \in 1 .. Len(begin) + Len(back)
    BY <1>1, <1>3, <1>4, <1>6
  <2>2. moved[k] = IF k <= to THEN begin[k] ELSE back[k - to]
    BY <1>1, <1>3, <1>6, <1>7, <2>1
  <2>3. CASE k < to
    <3>1. begin[k] = front[k]
      BY <1>1, <1>3, <1>6, <2>3
    <3>2. k \in 1 .. to - 1 /\ k \in 1 .. Len(list) - 1
      BY <1>1, <2>3
    <3>3. moved[k] = IF k < from THEN list[k] ELSE list[k + 1]
      BY <1>1, <1>2, <1>3, <2>2, <2>3, <3>1, <3>2
    <3>. QED
      BY <2>3, <3>3
  <2>4. CASE k = to
    <3>1. k \in 1 .. Len(front) + 1 /\ ~(k <= Len(front)) /\ k - Len(front) = 1
      BY <1>1, <1>3, <2>4
    <3>2. begin[k] = item
      BY <1>5, <1>6, <3>1
    <3>3. moved[k] = item
      BY <1>1, <2>2, <2>4, <3>2
    <3>. QED
      BY <1>1, <2>4, <3>3 DEF item
  <2>5. CASE k > to
    <3>1. k - to \in 1 .. Len(list) - to /\ to + (k - to) - 1 = k - 1 /\ k - 1 \in 1 .. Len(list) - 1
      BY <1>1, <2>5
    <3>2. moved[k] = rest[k - 1]
      BY <1>1, <1>4, <2>2, <2>5, <3>1
    <3>3. moved[k] = IF k - 1 < from THEN list[k - 1] ELSE list[k - 1 + 1]
      BY <1>2, <3>1, <3>2
    <3>. QED
      BY <1>1, <2>5, <3>3
  <2>. QED
    BY <1>1, <2>3, <2>4, <2>5
<1>12. Rearranged(moved, list)
  <2>. HIDE DEF place
  <2>. QED
    BY <1>1, <1>9, <1>10, <1>11 DEF Rearranged
<1>13. result = moved
  BY DEF InsertAt, moved, rest, item, front, back, begin
<1>. QED
  BY <1>7, <1>8, <1>12, <1>13

(* The invariant *)

OnceEach(list) == \A i, j \in DOMAIN list : list[i].ord = list[j].ord => i = j

\* An instance with this number that is this one is in the list.
There(list, ord, who) == \E i \in DOMAIN list : list[i].ord = ord /\ list[i].who = who

\* A member is an instance of its server, and the one that was meant.
Stands(m, s, at, there) ==
  m.who # Forgotten => at[m.source] = s /\ There(there[m.source], m.ord, m.who)

GoodGroup(list, s, at, there) ==
  list \in Seq(Member) /\ Distinct(list) /\ \A i \in DOMAIN list : Stands(list[i], s, at, there)

GoodDraft(list) ==
  list \in Seq(Member) /\ Distinct(list) /\ \A i \in DOMAIN list : list[i].who = Forgotten

GoodRows(at, there) ==
  /\ at \in [Sources -> Servers \cup {Gone}]
  /\ there \in [Sources -> Seq(Instance)]
  /\ \A src \in Sources : OnceEach(there[src]) /\ (there[src] = <<>> <=> at[src] = Gone)

GoodLists(at, there, groups, kept) ==
  /\ groups \in [Servers -> {Off} \cup Seq(Member)]
  /\ kept \in [Servers -> {Off} \cup Seq(Member)]
  /\ \A s \in Servers : groups[s] # Off => GoodGroup(groups[s], s, at, there)
  /\ \A s \in Servers : kept[s] # Off => GoodDraft(kept[s])
  /\ \A s \in Servers : groups[s] = Off \/ kept[s] = Off
  /\ \A s \in Servers \ ServersOf(at) : groups[s] = Off /\ kept[s] = Off

EditorIInv == GoodRows(home, rows) /\ GoodLists(home, rows, members, drafts)

\* Where ids differ, a member fits if what was meant is there under its number.
LEMMA FitsIs ==
  ASSUME NEW s, NEW m, OnceEach(rows[m.source])
  PROVE  Fits(s, m) <=> home[m.source] = s /\ There(rows[m.source], m.ord, m.who)
<1>. DEFINE list == rows[m.source]
            first == CHOOSE i \in DOMAIN list : list[i].ord = m.ord
<1>1. Resolved(m).who = list[first].who
  BY DEF Resolved
<1>2. Resolves(m) <=> \E i \in DOMAIN list : list[i].ord = m.ord
  BY DEF Resolves
<1>3. Resolves(m) => first \in DOMAIN list /\ list[first].ord = m.ord
  BY <1>2
<1>4. OnceEach(list)
  OBVIOUS
<1>. HIDE DEF list, first
<1>5. ASSUME NEW i \in DOMAIN list, list[i].ord = m.ord PROVE i = first
  BY <1>2, <1>3, <1>4, <1>5 DEF OnceEach
<1>6. Resolves(m) /\ list[first].who = m.who <=> There(list, m.ord, m.who)
  BY <1>2, <1>3, <1>5 DEF There
<1>. QED
  BY <1>1, <1>6 DEF Fits, list

\* What the invariant is for.
LEMMA EditorIInvMeans == ASSUME EditorAssumption, EditorIInv PROVE EditorTypeOK /\ NothingTwice /\ OnlyDraftsStray
<1>. USE DEF EditorIInv, GoodRows, GoodLists
<1>1. EditorTypeOK
  BY DEF EditorTypeOK
<1>2. IdsUnique
  BY DEF IdsUnique, OnceEach
<1>3. ListedOnce
  <2>1. ASSUME NEW s \in Servers, members[s] # Off PROVE Distinct(members[s])
    BY <2>1 DEF GoodGroup
  <2>2. ASSUME NEW s \in Servers, drafts[s] # Off PROVE Distinct(drafts[s])
    BY <2>2 DEF GoodDraft
  <2>. QED
    BY <2>1, <2>2 DEF ListedOnce, Distinct
<1>4. OnlyDraftsStray
  <2>. SUFFICES ASSUME NEW s \in Servers, members[s] # Off, NEW m \in ToSet(members[s]), m.who # Forgotten
                PROVE  Fits(s, m)
    BY DEF OnlyDraftsStray
  <2>1. members[s] \in Seq(Member) /\ Stands(m, s, home, rows)
    BY DEF GoodGroup, ToSet
  <2>2. m \in Member
    BY <2>1, LenProperties, ElementOfSeq DEF ToSet
  <2>3. OnceEach(rows[m.source])
    BY <2>2 DEF Member
  <2>. QED
    BY <2>1, <2>3, FitsIs DEF Stands
<1>. QED
  BY <1>1, <1>2, <1>3, <1>4 DEF NothingTwice

-----------------------------------------------------------------------------
(* Groups *)

\* A part of a group is a group.
LEMMA PartGood ==
  ASSUME NEW list \in Seq(Member), Distinct(list), NEW places \in SUBSET DOMAIN list,
         NEW s, NEW at, NEW there, \A i \in places : Stands(list[i], s, at, there)
  PROVE  GoodGroup(Picked(list, places), s, at, there)
<1>1. Picked(list, places) \in Seq(Member)
      /\ \A k \in DOMAIN Picked(list, places) : \E i \in places : Picked(list, places)[k] = list[i]
  BY Chosen
<1>2. Distinct(Picked(list, places))
  BY ChosenDistinct
<1>. QED
  BY <1>1, <1>2 DEF GoodGroup

\* So is what is left of one when a member is taken out.
LEMMA WithoutGood ==
  ASSUME NEW s, NEW at, NEW there, NEW list, GoodGroup(list, s, at, there), NEW m
  PROVE  /\ GoodGroup(Without(list, m), s, at, there)
         /\ \A k \in DOMAIN Without(list, m) :
              /\ ~SameId(Without(list, m)[k], m)
              /\ \E i \in DOMAIN list : Without(list, m)[k] = list[i]
<1>. DEFINE places == {i \in DOMAIN list : ~SameId(list[i], m)}
<1>1. list \in Seq(Member) /\ Distinct(list) /\ \A i \in places : Stands(list[i], s, at, there)
  BY DEF GoodGroup
<1>2. places \in SUBSET DOMAIN list
  OBVIOUS
<1>3. Without(list, m) = Picked(list, places)
  BY DEF Without, Those
<1>4. \A i \in places : i \in DOMAIN list /\ ~SameId(list[i], m)
  OBVIOUS
<1>. HIDE DEF places
<1>5. GoodGroup(Picked(list, places), s, at, there)
  BY <1>1, <1>2, PartGood
<1>6. \A k \in DOMAIN Picked(list, places) : \E i \in places : Picked(list, places)[k] = list[i]
  BY <1>1, <1>2, Chosen
<1>7. ASSUME NEW k \in DOMAIN Picked(list, places)
      PROVE  /\ ~SameId(Picked(list, places)[k], m)
             /\ \E i \in DOMAIN list : Picked(list, places)[k] = list[i]
  BY <1>4, <1>6
<1>. QED
  BY <1>3, <1>5, <1>7

\* A member that stands can be put in, or in again.
LEMMA PutGood ==
  ASSUME NEW s, NEW at, NEW there, NEW list, GoodGroup(list, s, at, there),
         NEW m \in Member, Stands(m, s, at, there)
  PROVE  GoodGroup(Put(list, m), s, at, there)
<1>. DEFINE rest == Without(list, m)
            more == Append(rest, m)
<1>1. GoodGroup(rest, s, at, there) /\ \A k \in DOMAIN rest : ~SameId(rest[k], m)
  BY WithoutGood
<1>2. Put(list, m) = more
  BY DEF Put
<1>. HIDE DEF rest
<1>3. rest \in Seq(Member) /\ Distinct(rest)
  BY <1>1 DEF GoodGroup
<1>4. /\ more \in Seq(Member) /\ Len(more) = Len(rest) + 1
      /\ \A k \in 1 .. Len(rest) : more[k] = rest[k]
      /\ more[Len(rest) + 1] = m
  BY <1>3, AppendProperties
<1>5. /\ Len(rest) \in Nat /\ DOMAIN rest = 1 .. Len(rest) /\ DOMAIN more = 1 .. Len(more)
  BY <1>3, <1>4, LenProperties
<1>. HIDE DEF more
<1>6. \A k \in DOMAIN more : (k \in DOMAIN rest /\ more[k] = rest[k]) \/ (k = Len(rest) + 1 /\ more[k] = m)
  BY <1>4, <1>5
<1>7. Distinct(more)
  <2>. SUFFICES ASSUME NEW i \in DOMAIN more, NEW j \in DOMAIN more, SameId(more[i], more[j]) PROVE i = j
    BY DEF Distinct
  <2>1. CASE i \in DOMAIN rest /\ more[i] = rest[i] /\ j \in DOMAIN rest /\ more[j] = rest[j]
    BY <1>3, <2>1 DEF Distinct
  <2>2. CASE more[i] = m /\ j \in DOMAIN rest /\ more[j] = rest[j]
    <3>1. SameId(rest[j], m)
      BY <2>2 DEF SameId
    <3>. QED
      BY <1>1, <2>2, <3>1
  <2>3. CASE more[j] = m /\ i \in DOMAIN rest /\ more[i] = rest[i]
    BY <1>1, <2>3
  <2>. QED
    BY <1>6, <2>1, <2>2, <2>3
<1>8. \A k \in DOMAIN more : Stands(more[k], s, at, there)
  BY <1>1, <1>6 DEF GoodGroup
<1>. QED
  BY <1>2, <1>4, <1>7, <1>8 DEF GoodGroup

\* A member can be dragged to another place.
LEMMA MovedGood ==
  ASSUME NEW s, NEW at, NEW there, NEW list, GoodGroup(list, s, at, there),
         NEW from \in DOMAIN list, NEW to \in DOMAIN list
  PROVE  GoodGroup(InsertAt(RemoveAt(list, from), to, list[from]), s, at, there)
<1>. DEFINE moved == InsertAt(RemoveAt(list, from), to, list[from])
<1>1. list \in Seq(Member) /\ Distinct(list) /\ \A i \in DOMAIN list : Stands(list[i], s, at, there)
  BY DEF GoodGroup
<1>2. moved \in Seq(Member) /\ Len(moved) = Len(list) /\ Rearranged(moved, list)
  BY <1>1, Moved
<1>. HIDE DEF moved
<1>3. DOMAIN moved = DOMAIN list
  BY <1>1, <1>2, LenProperties
<1>4. PICK place \in [DOMAIN list -> DOMAIN list] :
        /\ \A k \in DOMAIN list : moved[k] = list[place[k]]
        /\ \A j, k \in DOMAIN list : place[j] = place[k] => j = k
  BY <1>2 DEF Rearranged
<1>5. Distinct(moved)
  BY <1>1, <1>3, <1>4 DEF Distinct
<1>6. \A k \in DOMAIN moved : Stands(moved[k], s, at, there)
  BY <1>1, <1>3, <1>4
<1>. QED
  BY <1>2, <1>5, <1>6 DEF GoodGroup, moved

\* The rows of a server are its instances, each of them once.
LEMMA RowsAre ==
  ASSUME EditorAssumption, GoodRows(home, rows), NEW s
  PROVE  /\ RowsOf(s) \in Seq(Member) /\ Distinct(RowsOf(s))
         /\ \A k \in DOMAIN RowsOf(s) :
              LET m == RowsOf(s)[k] IN home[m.source] = s /\ There(rows[m.source], m.ord, m.who)
         /\ \A src \in Sources : home[src] = s => \A i \in DOMAIN rows[src] :
              \E k \in DOMAIN RowsOf(s) : RowsOf(s)[k] =
                [source |-> src, ord |-> rows[src][i].ord, who |-> rows[src][i].who]
<1>. DEFINE rowsAt(src) == [i \in DOMAIN rows[src] |->
                              [source |-> src, ord |-> rows[src][i].ord, who |-> rows[src][i].who]]
            places == {i \in DOMAIN SourceSeq : home[SourceSeq[i]] = s}
            own   == Picked(SourceSeq, places)
            lists == [i \in DOMAIN own |-> rowsAt(own[i])]
            flat  == FlattenSeq(lists)
<1>1. RowsOf(s) = flat
  BY DEF RowsOf, Those
<1>. HIDE DEF places
<1>2. /\ SourceSeq \in Seq(Sources) /\ IsInjective(SourceSeq) /\ places \in SUBSET DOMAIN SourceSeq
      /\ \A i \in places : home[SourceSeq[i]] = s
      /\ \A i \in DOMAIN SourceSeq : home[SourceSeq[i]] = s => i \in places
  BY DEF EditorAssumption, places
<1>3. /\ own \in Seq(Sources)
      /\ \A k \in DOMAIN own : \E i \in places : own[k] = SourceSeq[i]
      /\ \A i \in places : \E k \in DOMAIN own : own[k] = SourceSeq[i]
  BY <1>2, Chosen
<1>4. \A j, k \in DOMAIN own : own[j] = own[k] => j = k
  BY <1>2, ChosenOnce
<1>. HIDE DEF own
<1>5. \A k \in DOMAIN own : own[k] \in Sources /\ home[own[k]] = s
  <2>1. \A k \in DOMAIN own : own[k] \in Sources
    BY <1>3, LenProperties, ElementOfSeq
  <2>. QED
    BY <1>2, <1>3, <2>1
<1>6. \A src \in Sources : home[src] = s => \E k \in DOMAIN own : own[k] = src
  <2>1. \A src \in Sources : \E i \in DOMAIN SourceSeq : SourceSeq[i] = src
    BY DEF Sources, ToSet
  <2>. QED
    BY <1>2, <1>3, <2>1
<1>7. \A src \in Sources : rows[src] \in Seq(Instance) /\ OnceEach(rows[src])
  BY DEF GoodRows
<1>8. \A k \in DOMAIN own : lists[k] = rowsAt(own[k]) /\ rowsAt(own[k]) \in Seq(Member)
  <2>. SUFFICES ASSUME NEW k \in DOMAIN own PROVE rowsAt(own[k]) \in Seq(Member)
    OBVIOUS
  <2>. DEFINE src == own[k]
  <2>1. src \in Sources /\ rows[src] \in Seq(Instance)
    BY <1>5, <1>7
  <2>. HIDE DEF src
  <2>2. /\ Len(rows[src]) \in Nat /\ DOMAIN rows[src] = 1 .. Len(rows[src])
        /\ \A i \in 1 .. Len(rows[src]) : rows[src][i] \in Instance
    BY <2>1, LenProperties, ElementOfSeq
  <2>3. \A i \in DOMAIN rows[src] :
          [source |-> src, ord |-> rows[src][i].ord, who |-> rows[src][i].who] \in Member
    BY <2>1, <2>2 DEF Instance, Member
  <2>. QED
    BY <2>2, <2>3 DEF src
<1>9. lists \in Seq(Seq(Member)) /\ Len(lists) = Len(own) /\ DOMAIN own = 1 .. Len(own)
  <2>1. DOMAIN own = 1 .. Len(own) /\ Len(own) \in Nat
    BY <1>3, LenProperties
  <2>. QED
    BY <1>8, <2>1
<1>10. /\ flat \in Seq(Member) /\ Flat(flat, lists, Len(lists))
  BY <1>9, Flattened
<1>. HIDE DEF flat, lists
<1>11. PICK which, nth : FlatBy(which, nth, flat, lists, Len(lists))
  BY <1>10 DEF Flat
<1>12. DOMAIN flat = 1 .. Len(flat)
  BY <1>10, LenProperties
<1>13. ASSUME NEW n \in DOMAIN flat
       PROVE  /\ which[n] \in DOMAIN own /\ nth[n] \in DOMAIN rows[own[which[n]]]
              /\ flat[n].source = own[which[n]]
              /\ flat[n].ord = rows[own[which[n]]][nth[n]].ord
              /\ flat[n].who = rows[own[which[n]]][nth[n]].who
  <2>1. /\ which[n] \in 1 .. Len(lists) /\ nth[n] \in DOMAIN lists[which[n]]
        /\ flat[n] = lists[which[n]][nth[n]]
    BY <1>11, <1>12 DEF FlatBy
  <2>2. which[n] \in DOMAIN own /\ lists[which[n]] = rowsAt(own[which[n]])
    BY <1>8, <1>9, <2>1
  <2>. QED
    BY <2>1, <2>2
<1>14. Distinct(flat)
  <2>. SUFFICES ASSUME NEW j \in DOMAIN flat, NEW n \in DOMAIN flat, SameId(flat[j], flat[n]) PROVE j = n
    BY DEF Distinct
  <2>1. which[j] = which[n]
    BY <1>4, <1>13 DEF SameId
  <2>2. nth[j] = nth[n]
    BY <1>5, <1>7, <1>13, <2>1 DEF SameId, OnceEach
  <2>. QED
    BY <1>11, <1>12, <2>1, <2>2 DEF FlatBy
<1>15. \A k \in DOMAIN flat : home[flat[k].source] = s /\ There(rows[flat[k].source], flat[k].ord, flat[k].who)
  BY <1>5, <1>13 DEF There
<1>16. ASSUME NEW src \in Sources, home[src] = s, NEW i \in DOMAIN rows[src]
       PROVE  \E k \in DOMAIN flat : flat[k] = [source |-> src, ord |-> rows[src][i].ord, who |-> rows[src][i].who]
  <2>1. PICK k \in DOMAIN own : own[k] = src
    BY <1>6, <1>16
  <2>2. lists[k] = rowsAt(src) /\ k \in 1 .. Len(lists)
    BY <1>8, <1>9, <2>1
  <2>3. i \in DOMAIN lists[k]
    BY <2>2
  <2>4. PICK n \in 1 .. Len(flat) : which[n] = k /\ nth[n] = i
    BY <1>11, <2>2, <2>3 DEF FlatBy
  <2>5. flat[n] = lists[k][i]
    BY <1>11, <2>4 DEF FlatBy
  <2>. QED
    BY <1>12, <2>2, <2>5
<1>. QED
  BY <1>1, <1>10, <1>14, <1>15, <1>16

\* There is no snapshot at first.
LEMMA EditorInitIInv == ASSUME EditorAssumption, EditorInit PROVE EditorIInv
<1>1. GoodRows(home, rows)
  <2>1. \A src \in Sources : rows[src] = <<>> /\ home[src] = Gone
    BY DEF EditorInit
  <2>2. \A src \in Sources : OnceEach(rows[src])
    BY <2>1 DEF OnceEach
  <2>3. <<>> \in Seq(Instance)
    OBVIOUS
  <2>. QED
    BY <2>1, <2>2, <2>3 DEF GoodRows, EditorInit
<1>2. GoodLists(home, rows, members, drafts)
  BY DEF GoodLists, EditorInit
<1>. QED
  BY <1>1, <1>2 DEF EditorIInv

-----------------------------------------------------------------------------
(* New instances *)

\* A list has finitely many items.
LEMMA ImageFinite ==
  ASSUME NEW S, NEW list \in Seq(S)
  PROVE  IsFiniteSet(ToSet(list))
<1>1. DOMAIN list = 1 .. Len(list) /\ Len(list) \in Nat
  BY LenProperties
<1>2. IsFiniteSet(DOMAIN list)
  BY <1>1, UpTo
<1>3. IsFiniteSet({list[i] : i \in DOMAIN list})
  <2>. DEFINE f == [i \in DOMAIN list |-> list[i]]
  <2>1. f \in Surjection(DOMAIN list, ToSet(list))
    BY DEF Surjection, ToSet
  <2>. QED
    BY <1>2, <2>1, FS_Surjection DEF ToSet
<1>. QED
  BY <1>3 DEF ToSet

\* One of the first n + 1 numbers is not among n.
LEMMA FreeNumber ==
  ASSUME NEW used, IsFiniteSet(used)
  PROVE  \E w \in 1 .. Cardinality(used) + 1 : w \notin used
<1>. SUFFICES ASSUME 1 .. Cardinality(used) + 1 \subseteq used PROVE FALSE
  OBVIOUS
<1>1. Cardinality(used) \in Nat /\ Cardinality(used) + 1 \in Nat
  BY FS_CardinalityType
<1>2. Cardinality(1 .. Cardinality(used) + 1) = Cardinality(used) + 1
  BY <1>1, UpTo
<1>3. Cardinality(1 .. Cardinality(used) + 1) <= Cardinality(used)
  BY FS_Subset
<1>. QED
  BY <1>1, <1>2, <1>3

\* The tree has finitely many servers.
LEMMA ServersFinite == ASSUME EditorAssumption PROVE IsFiniteSet(ServersOf(home))
<1>1. IsFiniteSet(Sources)
  BY ImageFinite DEF EditorAssumption, Sources
<1>2. IsFiniteSet({home[src] : src \in Sources})
  <2>. DEFINE f == [src \in Sources |-> home[src]]
              T == {home[src] : src \in Sources}
  <2>1. f \in Surjection(Sources, T)
    BY DEF Surjection
  <2>. HIDE DEF f, T
  <2>2. IsFiniteSet(T)
    BY <1>1, <2>1, FS_Surjection
  <2>. QED
    BY <2>2 DEF T
<1>3. ServersOf(home) \subseteq {home[src] : src \in Sources}
  BY DEF ServersOf
<1>. QED
  BY <1>2, <1>3, FS_Subset

\* A new instance can be told apart from all that are there.
LEMMA FreshIs == ASSUME EditorAssumption, EditorIInv, NEW src \in Sources PROVE Fresh(src) \in Nat \ {Forgotten}
<1>. DEFINE lists  == {ToSet(members[s]) : s \in Grouped}
            listed == UNION lists
            some   == {n \in listed : n.source = src}
            meant  == {m.who : m \in some}
            these  == ToSet(rows[src])
            there  == {r.who : r \in these}
            used   == meant \cup there
<1>1. Grouped \subseteq ServersOf(home) /\ \A s \in Grouped : members[s] \in Seq(Member)
  BY DEF EditorIInv, GoodLists, Grouped
<1>2. IsFiniteSet(Grouped)
  BY <1>1, ServersFinite, FS_Subset
<1>3. IsFiniteSet(lists)
  <2>. DEFINE f == [s \in Grouped |-> ToSet(members[s])]
  <2>1. f \in Surjection(Grouped, lists)
    BY DEF Surjection
  <2>. HIDE DEF f, lists
  <2>. QED
    BY <1>2, <2>1, FS_Surjection
<1>4. \A l \in lists : IsFiniteSet(l)
  BY <1>1, ImageFinite
<1>5. IsFiniteSet(listed)
  <2>. HIDE DEF lists
  <2>. QED
    BY <1>3, <1>4, FS_UNION
<1>6. IsFiniteSet(some)
  <2>1. some \subseteq listed
    OBVIOUS
  <2>. HIDE DEF some, listed
  <2>. QED
    BY <1>5, <2>1, FS_Subset
<1>7. IsFiniteSet(meant)
  <2>. DEFINE f == [m \in some |-> m.who]
  <2>. HIDE DEF some
  <2>1. f \in Surjection(some, meant)
    BY DEF Surjection
  <2>. HIDE DEF f, meant
  <2>. QED
    BY <1>6, <2>1, FS_Surjection
<1>8. IsFiniteSet(these)
  BY ImageFinite DEF EditorIInv, GoodRows
<1>9. IsFiniteSet(there)
  <2>. DEFINE f == [r \in these |-> r.who]
  <2>. HIDE DEF these
  <2>1. f \in Surjection(these, there)
    BY DEF Surjection
  <2>. HIDE DEF f, there
  <2>. QED
    BY <1>8, <2>1, FS_Surjection
<1>10. IsFiniteSet(used)
  <2>. HIDE DEF meant, there
  <2>. QED
    BY <1>7, <1>9, FS_Union
<1>11. Fresh(src) = CHOOSE w \in 1 .. Cardinality(used) + 1 : w \notin used
  BY DEF Fresh
<1>. HIDE DEF used
<1>12. Fresh(src) \in 1 .. Cardinality(used) + 1
  BY <1>10, <1>11, FreeNumber
<1>13. Cardinality(used) \in Nat
  BY <1>10, FS_CardinalityType
<1>. QED
  BY <1>12, <1>13 DEF Forgotten

\* The number of a copy is greater than those in use (nextOrdinalForSource).
LEMMA NextOrdinalIs ==
  ASSUME EditorAssumption, NEW src, rows[src] \in Seq(Instance)
  PROVE  /\ NextOrdinal(src) \in 1 .. MaxOrdinal + 1
         /\ \A r \in ToSet(rows[src]) : r.ord < NextOrdinal(src)
<1>. DEFINE Free(n) == \A r \in ToSet(rows[src]) : r.ord < n
            Next1(n) == /\ \A r \in ToSet(rows[src]) : r.ord < n
                        /\ n = 1 \/ \E r \in ToSet(rows[src]) : r.ord = n - 1
            free == {n \in Nat : n # 0 /\ Free(n)}
<1>1. \A r \in ToSet(rows[src]) : r.ord \in 1 .. MaxOrdinal
  <2>1. \A r \in ToSet(rows[src]) : r \in Instance
    BY LenProperties, ElementOfSeq DEF ToSet
  <2>. QED
    BY <2>1 DEF Instance
<1>2. MaxOrdinal \in Nat \ {0}
  BY DEF EditorAssumption
<1>3. MaxOrdinal + 1 \in free
  BY <1>1, <1>2
<1>4. PICK n \in free : \A j \in free : n <= j
  <2>1. free \in SUBSET Nat /\ free # {}
    BY <1>3
  <2>. HIDE DEF free
  <2>. QED
    BY <2>1, Least
<1>5. n \in Nat /\ n # 0 /\ Free(n)
  OBVIOUS
<1>6. n \in 1 .. MaxOrdinal + 1
  <2>. HIDE DEF free
  <2>1. n <= MaxOrdinal + 1
    BY <1>3, <1>4
  <2>. QED
    BY <1>2, <1>5, <2>1
<1>7. Next1(n)
  <2>. SUFFICES ASSUME n # 1 PROVE \E r \in ToSet(rows[src]) : r.ord = n - 1
    BY <1>5
  <2>1. n - 1 \in Nat /\ n - 1 # 0 /\ ~(n <= n - 1)
    BY <1>5
  <2>2. n - 1 \notin free
    <3>. HIDE DEF free
    <3>. QED
      BY <1>4, <2>1
  <2>3. PICK r \in ToSet(rows[src]) : ~(r.ord < n - 1)
    BY <2>1, <2>2
  <2>4. r.ord < n /\ r.ord \in Nat
    BY <1>1, <1>2, <1>5
  <2>5. r.ord = n - 1
    BY <1>5, <2>3, <2>4
  <2>. QED
    BY <2>5
<1>8. NextOrdinal(src) = CHOOSE k \in 1 .. MaxOrdinal + 1 : Next1(k)
  BY DEF NextOrdinal
<1>9. Next1(NextOrdinal(src)) /\ NextOrdinal(src) \in 1 .. MaxOrdinal + 1
  <2>. HIDE DEF Next1
  <2>. QED
    BY <1>6, <1>7, <1>8
<1>. QED
  BY <1>9

\* A group stays as good as its members do.
LEMMA GroupStays ==
  ASSUME NEW list, NEW s, NEW at, NEW there, GoodGroup(list, s, at, there), NEW at2, NEW there2,
         \A i \in DOMAIN list : Stands(list[i], s, at, there) => Stands(list[i], s, at2, there2)
  PROVE  GoodGroup(list, s, at2, there2)
BY DEF GoodGroup

\* A copy takes no number of another (cloneInstance).
LEMMA CloneKeeps == ASSUME EditorAssumption, EditorIInv, NEW src \in Sources, Clone(src) PROVE EditorIInv'
<1>. DEFINE new  == [ord |-> NextOrdinal(src), who |-> Fresh(src)]
            more == Append(rows[src], new)
<1>1. /\ rows \in [Sources -> Seq(Instance)] /\ rows[src] # <<>>
      /\ rows' = [rows EXCEPT ![src] = more] /\ UNCHANGED <<home, members, drafts>>
  BY DEF EditorIInv, GoodRows, Clone
<1>2. new \in Instance /\ \A r \in ToSet(rows[src]) : r.ord < new.ord
  <2>1. NextOrdinal(src) \in 1 .. MaxOrdinal + 1 /\ \A r \in ToSet(rows[src]) : r.ord < NextOrdinal(src)
    BY <1>1, NextOrdinalIs
  <2>2. NextOrdinal(src) <= MaxOrdinal /\ MaxOrdinal \in Nat
    BY DEF Clone, EditorAssumption
  <2>3. NextOrdinal(src) \in 1 .. MaxOrdinal
    BY <2>1, <2>2
  <2>4. Fresh(src) \in Nat \ {Forgotten}
    BY FreshIs
  <2>. QED
    BY <2>1, <2>3, <2>4 DEF Instance
<1>. HIDE DEF new
<1>3. /\ more \in Seq(Instance) /\ more # <<>> /\ Len(more) = Len(rows[src]) + 1
      /\ \A k \in 1 .. Len(rows[src]) : more[k] = rows[src][k]
      /\ more[Len(rows[src]) + 1] = new
  BY <1>1, <1>2, AppendProperties
<1>4. /\ Len(rows[src]) \in Nat /\ DOMAIN rows[src] = 1 .. Len(rows[src]) /\ DOMAIN more = 1 .. Len(more)
  BY <1>1, <1>3, LenProperties
<1>. HIDE DEF more
<1>5. \A k \in DOMAIN more : \/ k \in DOMAIN rows[src] /\ more[k] = rows[src][k]
                             \/ k = Len(rows[src]) + 1 /\ more[k] = new
  BY <1>3, <1>4
<1>6. OnceEach(more)
  <2>. SUFFICES ASSUME NEW i \in DOMAIN more, NEW j \in DOMAIN more, more[i].ord = more[j].ord PROVE i = j
    BY DEF OnceEach
  <2>1. OnceEach(rows[src])
    BY DEF EditorIInv, GoodRows
  <2>2. \A k \in DOMAIN rows[src] : rows[src][k].ord # new.ord
    <3>1. \A k \in DOMAIN rows[src] : rows[src][k].ord < new.ord /\ rows[src][k].ord \in Int
      <4>1. \A k \in DOMAIN rows[src] : rows[src][k] \in ToSet(rows[src]) /\ rows[src][k] \in Instance
        BY <1>1, <1>4, ElementOfSeq DEF ToSet
      <4>. QED
        BY <1>2, <4>1 DEF Instance
    <3>2. new.ord \in Int
      BY <1>2 DEF Instance
    <3>. QED
      BY <3>1, <3>2
  <2>. QED
    BY <1>5, <2>1, <2>2 DEF OnceEach
<1>7. GoodRows(home, rows')
  BY <1>1, <1>3, <1>6 DEF EditorIInv, GoodRows
<1>8. GoodLists(home, rows', members, drafts)
  <2>. SUFFICES ASSUME NEW s \in Servers, members[s] # Off PROVE GoodGroup(members[s], s, home, rows')
    BY DEF EditorIInv, GoodLists
  <2>1. GoodGroup(members[s], s, home, rows)
    BY DEF EditorIInv, GoodLists
  <2>2. ASSUME NEW at, NEW ord, NEW who, There(rows[at], ord, who) PROVE There(rows'[at], ord, who)
    <3>1. CASE at = src
      <4>1. PICK k \in DOMAIN rows[src] : rows[src][k].ord = ord /\ rows[src][k].who = who
        BY <2>2, <3>1 DEF There
      <4>2. k \in DOMAIN more /\ more[k] = rows[src][k]
        BY <1>3, <1>4
      <4>. QED
        BY <1>1, <3>1, <4>1, <4>2 DEF There
    <3>2. CASE at # src
      BY <1>1, <2>2, <3>2
    <3>. QED
      BY <3>1, <3>2
  <2>3. \A i \in DOMAIN members[s] : Stands(members[s][i], s, home, rows) => Stands(members[s][i], s, home, rows')
    BY <2>2 DEF Stands
  <2>. QED
    BY <2>1, <2>3, GroupStays
<1>. QED
  BY <1>1, <1>7, <1>8 DEF EditorIInv

\* A deleted instance leaves its group with its number (deleteInstance).
LEMMA DeleteKeeps ==
  ASSUME EditorAssumption, EditorIInv, NEW src \in Sources, NEW i \in DOMAIN rows[src], Delete(src, i)
  PROVE  EditorIInv'
<1>. DEFINE list == rows[src]
            rest == RemoveAt(list, i)
            gone == [source |-> src, ord |-> list[i].ord]
<1>1. /\ rows \in [Sources -> Seq(Instance)] /\ list \in Seq(Instance) /\ OnceEach(list) /\ Len(list) > 1
      /\ rows' = [rows EXCEPT ![src] = rest]
      /\ members' = [members EXCEPT ![home[src]] = IF @ = Off THEN Off ELSE Without(@, gone)]
      /\ UNCHANGED <<home, drafts>>
  BY DEF EditorIInv, GoodRows, Delete
<1>2. /\ rest \in Seq(Instance) /\ Len(rest) = Len(list) - 1
      /\ \A k \in 1 .. Len(list) - 1 : rest[k] = IF k < i THEN list[k] ELSE list[k + 1]
  BY <1>1, TakenOut
<1>3. /\ Len(list) \in Nat /\ DOMAIN list = 1 .. Len(list) /\ DOMAIN rest = 1 .. Len(rest)
      /\ i \in 1 .. Len(list)
  BY <1>1, <1>2, LenProperties
<1>. HIDE DEF rest, list
<1>4. rest # <<>>
  <2>1. Len(rest) # 0
    BY <1>1, <1>2, <1>3
  <2>. QED
    BY <2>1
<1>5. OnceEach(rest)
  <2>. SUFFICES ASSUME NEW j \in DOMAIN rest, NEW k \in DOMAIN rest, rest[j].ord = rest[k].ord PROVE j = k
    BY DEF OnceEach
  <2>. DEFINE skip(n) == IF n < i THEN n ELSE n + 1
  <2>1. /\ rest[j] = list[skip(j)] /\ rest[k] = list[skip(k)]
        /\ skip(j) \in DOMAIN list /\ skip(k) \in DOMAIN list
    BY <1>2, <1>3
  <2>2. skip(j) = skip(k)
    <3>. HIDE DEF skip
    <3>. QED
      BY <1>1, <2>1 DEF OnceEach
  <2>. QED
    BY <1>2, <1>3, <2>2
<1>6. \A ord, who : ord # list[i].ord /\ There(list, ord, who) => There(rest, ord, who)
  <2>. SUFFICES ASSUME NEW ord, NEW who, ord # list[i].ord,
                       NEW n \in DOMAIN list, list[n].ord = ord, list[n].who = who
                PROVE  \E k \in DOMAIN rest : rest[k] = list[n]
    BY DEF There
  <2>1. n # i
    OBVIOUS
  <2>2. CASE n < i
    <3>1. n \in 1 .. Len(list) - 1
      BY <1>3, <2>2
    <3>. QED
      BY <1>2, <1>3, <2>2, <3>1
  <2>3. CASE n > i
    <3>1. n - 1 \in 1 .. Len(list) - 1 /\ ~(n - 1 < i) /\ (n - 1) + 1 = n
      BY <1>3, <2>3
    <3>2. rest[n - 1] = list[(n - 1) + 1]
      BY <1>2, <3>1
    <3>. QED
      BY <1>2, <1>3, <3>1, <3>2
  <2>. QED
    BY <1>3, <2>1, <2>2, <2>3
<1>7. GoodRows(home, rows')
  <2>1. rows' \in [Sources -> Seq(Instance)]
    BY <1>1, <1>2
  <2>2. ASSUME NEW at \in Sources
        PROVE  OnceEach(rows'[at]) /\ (rows'[at] = <<>> <=> home[at] = Gone)
    <3>1. CASE at = src
      <4>1. rows'[at] = rest /\ rows[src] # <<>>
        <5>1. rows[src] # <<>>
          BY <1>1, <1>3 DEF list
        <5>. QED
          BY <1>1, <3>1, <5>1
      <4>. QED
        BY <1>4, <1>5, <3>1, <4>1 DEF EditorIInv, GoodRows
    <3>2. CASE at # src
      BY <1>1, <3>2 DEF EditorIInv, GoodRows
    <3>. QED
      BY <3>1, <3>2
  <2>. QED
    BY <2>1, <2>2 DEF EditorIInv, GoodRows
<1>8. home[src] \in Servers
  <2>1. rows[src] # <<>>
    BY <1>1, <1>3 DEF list
  <2>. QED
    BY <2>1 DEF EditorIInv, GoodRows
<1>9. ASSUME NEW s \in Servers, members[s] # Off
      PROVE  members'[s] = IF s = home[src] THEN Without(members[s], gone) ELSE members[s]
  <2>1. members \in [Servers -> {Off} \cup Seq(Member)]
    BY DEF EditorIInv, GoodLists
  <2>. HIDE DEF gone
  <2>. QED
    BY <1>1, <1>9, <2>1
<1>10. ASSUME NEW s \in Servers, members[s] = Off PROVE members'[s] = Off
  <2>1. members \in [Servers -> {Off} \cup Seq(Member)]
    BY DEF EditorIInv, GoodLists
  <2>. HIDE DEF gone
  <2>. QED
    BY <1>1, <1>10, <2>1
<1>11. ASSUME NEW s \in Servers, members[s] # Off PROVE GoodGroup(members'[s], s, home, rows')
  <2>1. GoodGroup(members[s], s, home, rows)
    BY <1>11 DEF EditorIInv, GoodLists
  <2>2. CASE s = home[src]
    <3>. DEFINE left == Without(members[s], gone)
    <3>1. members'[s] = left
      BY <1>9, <1>11, <2>2
    <3>2. GoodGroup(left, s, home, rows) /\ \A k \in DOMAIN left : ~SameId(left[k], gone)
      <4>. HIDE DEF gone
      <4>. QED
        BY <2>1, WithoutGood
    <3>. HIDE DEF left
    <3>3. ASSUME NEW k \in DOMAIN left, Stands(left[k], s, home, rows) PROVE Stands(left[k], s, home, rows')
      <4>. DEFINE m == left[k]
      <4>1. m \in Member
        BY <3>2, LenProperties, ElementOfSeq DEF GoodGroup
      <4>2. CASE m.source = src
        <5>1. m.ord # list[i].ord
          BY <3>2, <4>2 DEF SameId
        <5>2. There(list, m.ord, m.who) => There(rest, m.ord, m.who)
          BY <1>6, <5>1
        <5>3. rows'[m.source] = rest /\ rows[m.source] = list
          BY <1>1, <4>2 DEF list
        <5>. QED
          BY <3>3, <5>2, <5>3 DEF Stands
      <4>3. CASE m.source # src
        <5>1. rows'[m.source] = rows[m.source]
          BY <1>1, <4>1, <4>3 DEF Member
        <5>. QED
          BY <3>3, <5>1 DEF Stands
      <4>. QED
        BY <4>2, <4>3
    <3>. QED
      BY <3>1, <3>2, <3>3, GroupStays
  <2>3. CASE s # home[src]
    <3>1. members'[s] = members[s]
      BY <1>9, <1>11, <2>3
    <3>2. ASSUME NEW k \in DOMAIN members[s], Stands(members[s][k], s, home, rows)
          PROVE  Stands(members[s][k], s, home, rows')
      <4>. DEFINE m == members[s][k]
      <4>1. m \in Member
        BY <2>1, LenProperties, ElementOfSeq DEF GoodGroup
      <4>2. m.who # Forgotten => rows'[m.source] = rows[m.source]
        BY <1>1, <2>3, <3>2, <4>1 DEF Member, Stands
      <4>. QED
        BY <3>2, <4>2 DEF Stands
    <3>. QED
      BY <2>1, <3>1, <3>2, GroupStays
  <2>. QED
    BY <2>2, <2>3
<1>12. GoodLists(home, rows', members', drafts)
  <2>1. members' \in [Servers -> {Off} \cup Seq(Member)]
    <3>1. members' \in [Servers -> {Off} \cup Seq(Member)] <=> \A s \in Servers : members'[s] \in {Off} \cup Seq(Member)
      <4>1. members \in [Servers -> {Off} \cup Seq(Member)]
        BY DEF EditorIInv, GoodLists
      <4>2. members' = [s \in Servers |-> members'[s]]
        <5>. HIDE DEF gone
        <5>. QED
          BY <1>1, <4>1
      <4>. QED
        BY <4>2
    <3>2. \A s \in Servers : members'[s] \in {Off} \cup Seq(Member)
      BY <1>10, <1>11 DEF GoodGroup
    <3>. QED
      BY <3>1, <3>2
  <2>2. \A s \in Servers : members'[s] # Off => GoodGroup(members'[s], s, home, rows')
    BY <1>10, <1>11
  <2>. QED
    BY <1>10, <2>1, <2>2 DEF EditorIInv, GoodLists
<1>. QED
  BY <1>1, <1>7, <1>12 DEF EditorIInv

-----------------------------------------------------------------------------
(* One group changes *)

\* One group can be replaced by a good one.
LEMMA OneGroupKeeps ==
  ASSUME EditorAssumption, EditorIInv, NEW s \in Servers, members[s] # Off,
         NEW list, GoodGroup(list, s, home, rows),
         members' = [members EXCEPT ![s] = list], UNCHANGED <<home, rows, drafts>>
  PROVE  EditorIInv'
<1>1. /\ members \in [Servers -> {Off} \cup Seq(Member)] /\ drafts[s] = Off /\ s \in ServersOf(home)
  BY DEF EditorIInv, GoodLists
<1>2. members' \in [Servers -> {Off} \cup Seq(Member)]
  BY <1>1 DEF GoodGroup
<1>3. GoodLists(home, rows, members', drafts)
  BY <1>1, <1>2 DEF EditorIInv, GoodLists
<1>. QED
  BY <1>3 DEF EditorIInv

\* The box of a row (handleServerAggregationChange).
LEMMA CheckKeeps ==
  ASSUME EditorAssumption, EditorIInv, NEW s \in Servers, NEW m \in ToSet(RowsOf(s)), Check(s, m)
  PROVE  EditorIInv'
<1>1. members[s] # Off /\ GoodGroup(members[s], s, home, rows) /\ members \in [Servers -> {Off} \cup Seq(Member)]
  BY DEF Check, EditorIInv, GoodLists
<1>2. m \in Member /\ Stands(m, s, home, rows)
  <2>1. /\ RowsOf(s) \in Seq(Member)
        /\ \A k \in DOMAIN RowsOf(s) :
             LET n == RowsOf(s)[k] IN home[n.source] = s /\ There(rows[n.source], n.ord, n.who)
    BY RowsAre DEF EditorIInv
  <2>2. PICK k \in DOMAIN RowsOf(s) : m = RowsOf(s)[k]
    BY DEF ToSet
  <2>3. m \in Member
    BY <2>1, <2>2, LenProperties, ElementOfSeq
  <2>. QED
    BY <2>1, <2>2, <2>3 DEF Stands
<1>3. CASE HasId(members[s], m)
  <2>1. GoodGroup(Without(members[s], m), s, home, rows)
    BY <1>1, WithoutGood
  <2>2. members' = [members EXCEPT ![s] = Without(members[s], m)]
    BY <1>1, <1>3 DEF Check
  <2>. QED
    BY <1>1, <2>1, <2>2, OneGroupKeeps DEF Check
<1>4. CASE ~HasId(members[s], m)
  <2>1. GoodGroup(Put(members[s], m), s, home, rows)
    BY <1>1, <1>2, PutGood
  <2>2. members' = [members EXCEPT ![s] = Put(members[s], m)]
    BY <1>1, <1>4 DEF Check
  <2>. QED
    BY <1>1, <2>1, <2>2, OneGroupKeeps DEF Check
<1>. QED
  BY <1>3, <1>4

\* The strategy puts the first row last, and changes no member.
LEMMA ChangeStrategyKeeps ==
  ASSUME EditorAssumption, EditorIInv, NEW s \in Servers, NEW anchor, ChangeStrategy(s, anchor)
  PROVE  EditorIInv'
<1>. DEFINE n == CHOOSE i \in DOMAIN members[s] : SameId(members[s][i], anchor)
            meant == members[s][n]
<1>1. /\ members[s] # Off /\ GoodGroup(members[s], s, home, rows) /\ HasId(members[s], anchor)
      /\ members' = [members EXCEPT ![s] = Put(members[s], meant)] /\ UNCHANGED <<home, rows, drafts>>
      /\ members \in [Servers -> {Off} \cup Seq(Member)]
  BY DEF ChangeStrategy, EditorIInv, GoodLists
<1>2. n \in DOMAIN members[s]
  BY <1>1 DEF HasId
<1>. HIDE DEF n
<1>3. meant \in Member /\ Stands(meant, s, home, rows)
  BY <1>1, <1>2, LenProperties, ElementOfSeq DEF GoodGroup
<1>4. GoodGroup(Put(members[s], meant), s, home, rows)
  <2>. HIDE DEF meant
  <2>. QED
    BY <1>1, <1>3, PutGood
<1>. QED
  BY <1>1, <1>4, OneGroupKeeps

\* The list to drag in (moveMember), whatever place is taken for another.
LEMMA OrderMenuKeeps ==
  ASSUME EditorAssumption, EditorIInv, NEW s \in Servers, OrderMenu(s)
  PROVE  EditorIInv'
<1>. DEFINE list   == members[s]
            places == {i \in DOMAIN list : Resolves(list[i])}
            shown  == Picked(list, places)
<1>1. /\ list # Off /\ GoodGroup(list, s, home, rows) /\ members \in [Servers -> {Off} \cup Seq(Member)]
  BY DEF OrderMenu, EditorIInv, GoodLists
<1>2. PICK i \in DOMAIN shown, j \in DOMAIN shown : MoveMember(s, shown[i], j)
  BY DEF OrderMenu, Drag, Displayed, Those
<1>3. list \in Seq(Member)
  BY <1>1 DEF GoodGroup
<1>4. places \in SUBSET DOMAIN list
  OBVIOUS
<1>. HIDE DEF places
<1>5. /\ shown \in Seq(Member) /\ Len(shown) \in 0 .. Len(list)
      /\ \A k \in DOMAIN shown : \E n \in places : shown[k] = list[n]
  BY <1>3, <1>4, Chosen
<1>. HIDE DEF shown
<1>6. j \in DOMAIN list
  <2>1. DOMAIN shown = 1 .. Len(shown) /\ DOMAIN list = 1 .. Len(list) /\ Len(list) \in Nat
    BY <1>3, <1>5, LenProperties
  <2>. QED
    BY <1>5, <2>1
<1>. DEFINE from == CHOOSE n \in DOMAIN list : SameId(list[n], shown[i])
<1>7. from \in DOMAIN list
  <2>1. \E n \in DOMAIN list : SameId(list[n], shown[i])
    BY <1>4, <1>5 DEF SameId
  <2>. QED
    BY <2>1
<1>8. members' = [members EXCEPT ![s] = InsertAt(RemoveAt(list, from), j, list[from])] /\ UNCHANGED <<home, rows, drafts>>
  BY <1>1, <1>2 DEF MoveMember
<1>. HIDE DEF from
<1>9. GoodGroup(InsertAt(RemoveAt(list, from), j, list[from]), s, home, rows)
  BY <1>1, <1>6, <1>7, MovedGood
<1>. QED
  BY <1>1, <1>8, <1>9, OneGroupKeeps

-----------------------------------------------------------------------------
(* Groups are switched on and off *)

\* Drafts forget what their members meant (setServerAggregationEnabledState).
LEMMA DisableKeeps == ASSUME EditorAssumption, EditorIInv, NEW off \in SUBSET Servers, Disable(off) PROVE EditorIInv'
<1>. DEFINE forgot(list) == [i \in DOMAIN list |-> [list[i] EXCEPT !.who = Forgotten]]
<1>1. /\ drafts' = [s \in Servers |-> IF s \in off THEN forgot(members[s]) ELSE drafts[s]]
      /\ members' = [s \in Servers |-> IF s \in off THEN Off ELSE members[s]]
      /\ \A s \in off : members[s] # Off
      /\ UNCHANGED <<home, rows>>
  BY DEF Disable
<1>2. ASSUME NEW list \in Seq(Member), Distinct(list) PROVE GoodDraft(forgot(list))
  <2>1. Len(list) \in Nat /\ DOMAIN list = 1 .. Len(list) /\ \A i \in 1 .. Len(list) : list[i] \in Member
    BY LenProperties, ElementOfSeq
  <2>2. \A i \in DOMAIN list : /\ [list[i] EXCEPT !.who = Forgotten] \in Member
                               /\ [list[i] EXCEPT !.who = Forgotten].who = Forgotten
                               /\ [list[i] EXCEPT !.who = Forgotten].source = list[i].source
                               /\ [list[i] EXCEPT !.who = Forgotten].ord = list[i].ord
    BY <2>1 DEF Member, Forgotten
  <2>. DEFINE new == forgot(list)
  <2>3. new \in Seq(Member) /\ DOMAIN new = DOMAIN list
    BY <2>1, <2>2
  <2>4. \A i \in DOMAIN list : new[i].who = Forgotten /\ new[i].source = list[i].source /\ new[i].ord = list[i].ord
    BY <2>2
  <2>. HIDE DEF new
  <2>5. Distinct(new)
    BY <1>2, <2>3, <2>4 DEF Distinct, SameId
  <2>6. GoodDraft(new)
    BY <2>3, <2>4, <2>5 DEF GoodDraft
  <2>. QED
    BY <2>6 DEF new
<1>. HIDE DEF forgot
<1>3. /\ members \in [Servers -> {Off} \cup Seq(Member)] /\ drafts \in [Servers -> {Off} \cup Seq(Member)]
      /\ \A s \in Servers : members[s] # Off => GoodGroup(members[s], s, home, rows)
      /\ \A s \in Servers : drafts[s] # Off => GoodDraft(drafts[s])
      /\ \A s \in Servers : members[s] = Off \/ drafts[s] = Off
      /\ \A s \in Servers \ ServersOf(home) : members[s] = Off /\ drafts[s] = Off
  BY DEF EditorIInv, GoodLists
<1>4. \A s \in off : GoodDraft(forgot(members[s]))
  BY <1>1, <1>2, <1>3 DEF GoodGroup
<1>5. ASSUME NEW s \in Servers
      PROVE  /\ members'[s] \in {Off} \cup Seq(Member) /\ drafts'[s] \in {Off} \cup Seq(Member)
             /\ members'[s] # Off => GoodGroup(members'[s], s, home, rows)
             /\ drafts'[s] # Off => GoodDraft(drafts'[s])
             /\ members'[s] = Off \/ drafts'[s] = Off
             /\ s \notin ServersOf(home) => members'[s] = Off /\ drafts'[s] = Off
  <2>1. CASE s \in off
    <3>1. members'[s] = Off /\ drafts'[s] = forgot(members[s]) /\ s \in ServersOf(home)
      BY <1>1, <1>3, <2>1
    <3>. QED
      BY <1>4, <2>1, <3>1 DEF GoodDraft
  <2>2. CASE s \notin off
    <3>1. members'[s] = members[s] /\ drafts'[s] = drafts[s]
      BY <1>1, <2>2
    <3>. QED
      BY <1>3, <3>1
  <2>. QED
    BY <2>1, <2>2
<1>6. members' \in [Servers -> {Off} \cup Seq(Member)] /\ drafts' \in [Servers -> {Off} \cup Seq(Member)]
  <2>1. members' = [s \in Servers |-> members'[s]] /\ drafts' = [s \in Servers |-> drafts'[s]]
    BY <1>1
  <2>. QED
    BY <1>5, <2>1
<1>7. GoodLists(home, rows, members', drafts')
  BY <1>5, <1>6 DEF GoodLists
<1>. QED
  BY <1>1, <1>7 DEF EditorIInv

\* Two groups that share no id are one.
LEMMA ConcatGood ==
  ASSUME NEW s, NEW at, NEW there, NEW list, NEW more,
         GoodGroup(list, s, at, there), GoodGroup(more, s, at, there),
         \A i \in DOMAIN list, j \in DOMAIN more : ~SameId(list[i], more[j])
  PROVE  GoodGroup(list \o more, s, at, there)
<1>. DEFINE all == list \o more
<1>1. list \in Seq(Member) /\ more \in Seq(Member) /\ Distinct(list) /\ Distinct(more)
  BY DEF GoodGroup
<1>2. /\ all \in Seq(Member) /\ Len(all) = Len(list) + Len(more)
      /\ \A k \in 1 .. Len(list) + Len(more) :
           all[k] = IF k <= Len(list) THEN list[k] ELSE more[k - Len(list)]
  BY <1>1, ConcatProperties
<1>3. /\ Len(list) \in Nat /\ DOMAIN list = 1 .. Len(list)
      /\ Len(more) \in Nat /\ DOMAIN more = 1 .. Len(more) /\ DOMAIN all = 1 .. Len(all)
  BY <1>1, <1>2, LenProperties
<1>. HIDE DEF all
<1>4. ASSUME NEW k \in DOMAIN all
      PROVE  \/ k \in DOMAIN list /\ all[k] = list[k]
             \/ k \notin DOMAIN list /\ k - Len(list) \in DOMAIN more /\ all[k] = more[k - Len(list)]
  BY <1>2, <1>3
<1>5. Distinct(all)
  <2>. SUFFICES ASSUME NEW j \in DOMAIN all, NEW k \in DOMAIN all, SameId(all[j], all[k]) PROVE j = k
    BY DEF Distinct
  <2>1. CASE j \in DOMAIN list /\ k \in DOMAIN list
    BY <1>1, <1>4, <2>1 DEF Distinct
  <2>2. CASE j \notin DOMAIN list /\ k \notin DOMAIN list
    <3>1. j - Len(list) = k - Len(list)
      BY <1>1, <1>4, <2>2 DEF Distinct
    <3>. QED
      BY <1>2, <1>3, <3>1
  <2>3. CASE j \in DOMAIN list /\ k \notin DOMAIN list
    BY <1>4, <2>3
  <2>4. CASE j \notin DOMAIN list /\ k \in DOMAIN list
    <3>1. SameId(all[k], all[j])
      BY DEF SameId
    <3>. QED
      BY <1>4, <2>4, <3>1
  <2>. QED
    BY <2>1, <2>2, <2>3, <2>4
<1>6. \A k \in DOMAIN all : Stands(all[k], s, at, there)
  BY <1>4 DEF GoodGroup
<1>. QED
  BY <1>2, <1>5, <1>6 DEF GoodGroup, all

\* A draft comes back with its strays before the rows of the server.
LEMMA EnableKeeps == ASSUME EditorAssumption, EditorIInv, NEW s \in Servers, Enable(s) PROVE EditorIInv'
<1>. DEFINE own     == RowsOf(s)
            noted   == IF drafts[s] = Off THEN <<>> ELSE drafts[s]
            alone   == {i \in DOMAIN noted : ~HasId(own, noted[i])}
            strays  == Picked(noted, alone)
            meant(m) == noted[CHOOSE i \in DOMAIN noted : SameId(noted[i], m)]
<1>1. PICK byMode \in SUBSET ToSet(own) :
        LET stays(m)  == m \in byMode \/ (m # own[1] /\ HasId(noted, m))
            kept      == Those(own, stays)
            written(m)  == IF m \in byMode THEN m ELSE meant(m)
        IN  members' = [members EXCEPT ![s] = strays \o [i \in DOMAIN kept |-> written(kept[i])]]
  BY DEF Enable, Those
<1>. DEFINE stays(m)  == m \in byMode \/ (m # own[1] /\ HasId(noted, m))
            staying   == {i \in DOMAIN own : stays(own[i])}
            kept      == Picked(own, staying)
            written(m)  == IF m \in byMode THEN m ELSE meant(m)
            again     == [i \in DOMAIN kept |-> written(kept[i])]
<1>2. /\ members' = [members EXCEPT ![s] = strays \o again]
      /\ drafts' = [drafts EXCEPT ![s] = Off] /\ UNCHANGED <<home, rows>>
      /\ s \in ServersOf(home)
  BY <1>1 DEF Enable, Those
<1>3. /\ own \in Seq(Member) /\ Distinct(own)
      /\ \A k \in DOMAIN own : home[own[k].source] = s /\ There(rows[own[k].source], own[k].ord, own[k].who)
  BY RowsAre DEF EditorIInv
<1>4. noted \in Seq(Member) /\ Distinct(noted) /\ \A i \in DOMAIN noted : noted[i].who = Forgotten
  <2>1. GoodDraft(noted)
    <3>1. CASE drafts[s] = Off
      <4>1. GoodDraft(<<>>)
        BY DEF GoodDraft, Distinct
      <4>. QED
        BY <3>1, <4>1
    <3>2. CASE drafts[s] # Off
      BY <3>2 DEF EditorIInv, GoodLists
    <3>. QED
      BY <3>1, <3>2
  <2>. HIDE DEF noted
  <2>. QED
    BY <2>1 DEF GoodDraft
<1>. HIDE DEF own, noted
<1>5. GoodGroup(strays, s, home, rows) /\ \A i \in DOMAIN strays : ~HasId(own, strays[i])
  <2>1. \A i \in alone : Stands(noted[i], s, home, rows) /\ ~HasId(own, noted[i])
    BY <1>4 DEF Stands
  <2>2. alone \in SUBSET DOMAIN noted
    OBVIOUS
  <2>. HIDE DEF alone
  <2>3. GoodGroup(strays, s, home, rows)
    BY <1>4, <2>1, <2>2, PartGood
  <2>4. \A i \in DOMAIN strays : \E j \in alone : strays[i] = noted[j]
    BY <1>4, <2>2, Chosen
  <2>. QED
    BY <2>1, <2>3, <2>4
<1>6. /\ kept \in Seq(Member) /\ Distinct(kept)
      /\ \A i \in DOMAIN kept : \E j \in DOMAIN own : kept[i] = own[j] /\ stays(own[j])
  <2>1. staying \in SUBSET DOMAIN own /\ \A j \in staying : j \in DOMAIN own /\ stays(own[j])
    OBVIOUS
  <2>. HIDE DEF staying, stays
  <2>2. /\ kept \in Seq(Member) /\ \A i \in DOMAIN kept : \E j \in staying : kept[i] = own[j]
    BY <1>3, <2>1, Chosen
  <2>3. Distinct(kept)
    BY <1>3, <2>1, ChosenDistinct
  <2>. QED
    BY <2>1, <2>2, <2>3
<1>. HIDE DEF kept, strays
<1>7. ASSUME NEW i \in DOMAIN kept
      PROVE  /\ written(kept[i]) \in Member /\ SameId(written(kept[i]), kept[i])
             /\ Stands(written(kept[i]), s, home, rows) /\ HasId(own, written(kept[i]))
  <2>1. PICK j \in DOMAIN own : kept[i] = own[j] /\ stays(own[j])
    BY <1>6
  <2>2. own[j] \in Member
    BY <1>3, LenProperties, ElementOfSeq
  <2>3. CASE own[j] \in byMode
    <3>1. written(kept[i]) = own[j]
      BY <2>1, <2>3
    <3>. HIDE DEF written
    <3>. QED
      BY <1>3, <2>1, <2>2, <3>1 DEF Stands, SameId, HasId
  <2>4. CASE own[j] \notin byMode
    <3>. DEFINE n == CHOOSE k \in DOMAIN noted : SameId(noted[k], own[j])
    <3>1. n \in DOMAIN noted /\ SameId(noted[n], own[j])
      BY <2>1, <2>4 DEF HasId
    <3>2. written(kept[i]) = noted[n]
      BY <2>1, <2>4
    <3>. HIDE DEF written, n
    <3>3. noted[n] \in Member
      BY <1>4, <3>1, LenProperties, ElementOfSeq
    <3>4. HasId(own, noted[n])
      BY <3>1 DEF HasId, SameId
    <3>. QED
      BY <1>4, <2>1, <3>1, <3>2, <3>3, <3>4 DEF Stands
  <2>. QED
    BY <2>3, <2>4
<1>8. /\ again \in Seq(Member) /\ DOMAIN again = DOMAIN kept
      /\ \A i \in DOMAIN kept : again[i] = written(kept[i])
  <2>1. DOMAIN kept = 1 .. Len(kept) /\ Len(kept) \in Nat
    BY <1>6, LenProperties
  <2>. HIDE DEF written
  <2>. QED
    BY <1>7, <2>1
<1>. HIDE DEF again, written
<1>9. GoodGroup(again, s, home, rows)
  <2>1. Distinct(again)
    BY <1>6, <1>7, <1>8 DEF Distinct, SameId
  <2>. QED
    BY <1>7, <1>8, <2>1 DEF GoodGroup
<1>10. \A i \in DOMAIN strays, j \in DOMAIN again : ~SameId(strays[i], again[j])
  <2>. SUFFICES ASSUME NEW i \in DOMAIN strays, NEW j \in DOMAIN again, SameId(strays[i], again[j]) PROVE FALSE
    OBVIOUS
  <2>1. HasId(own, again[j])
    BY <1>7, <1>8
  <2>2. HasId(own, strays[i])
    BY <2>1 DEF HasId, SameId
  <2>. QED
    BY <1>5, <2>2
<1>. DEFINE group == strays \o again
<1>11. GoodGroup(group, s, home, rows)
  BY <1>5, <1>9, <1>10, ConcatGood
<1>12. members' = [members EXCEPT ![s] = group]
  BY <1>2
<1>. HIDE DEF group
<1>13. members \in [Servers -> {Off} \cup Seq(Member)] /\ drafts \in [Servers -> {Off} \cup Seq(Member)]
  BY DEF EditorIInv, GoodLists
<1>14. members' \in [Servers -> {Off} \cup Seq(Member)] /\ drafts' \in [Servers -> {Off} \cup Seq(Member)]
  BY <1>2, <1>11, <1>12, <1>13 DEF GoodGroup
<1>15. ASSUME NEW n \in Servers
       PROVE  /\ members'[n] # Off => GoodGroup(members'[n], n, home, rows)
              /\ drafts'[n] # Off => GoodDraft(drafts'[n])
              /\ members'[n] = Off \/ drafts'[n] = Off
              /\ n \notin ServersOf(home) => members'[n] = Off /\ drafts'[n] = Off
  <2>1. CASE n = s
    <3>1. members'[n] = group /\ drafts'[n] = Off
      BY <1>2, <1>12, <1>13, <2>1
    <3>. QED
      BY <1>2, <1>11, <2>1, <3>1
  <2>2. CASE n # s
    <3>1. members'[n] = members[n] /\ drafts'[n] = drafts[n]
      BY <1>2, <1>12, <1>13, <2>2
    <3>. QED
      BY <3>1 DEF EditorIInv, GoodLists
  <2>. QED
    BY <2>1, <2>2
<1>16. GoodLists(home, rows, members', drafts')
  BY <1>14, <1>15 DEF GoodLists
<1>. QED
  BY <1>2, <1>16 DEF EditorIInv

-----------------------------------------------------------------------------
(* Ids are given out again *)

\* A source never has more instances than there are numbers.
LEMMA FewEnough ==
  ASSUME EditorAssumption, NEW list \in Seq(Instance), OnceEach(list)
  PROVE  Len(list) <= MaxOrdinal
<1>1. /\ Len(list) \in Nat /\ DOMAIN list = 1 .. Len(list) /\ MaxOrdinal \in Nat
      /\ \A i \in 1 .. Len(list) : list[i].ord \in 1 .. MaxOrdinal
  <2>1. \A i \in 1 .. Len(list) : list[i] \in Instance
    BY ElementOfSeq
  <2>. QED
    BY <2>1, LenProperties DEF Instance, EditorAssumption
<1>. DEFINE f == [i \in 1 .. Len(list) |-> list[i].ord]
<1>2. f \in Injection(1 .. Len(list), 1 .. MaxOrdinal)
  BY <1>1 DEF Injection, IsInjective, OnceEach
<1>3. /\ IsFiniteSet(1 .. MaxOrdinal) /\ Cardinality(1 .. MaxOrdinal) = MaxOrdinal
      /\ Cardinality(1 .. Len(list)) = Len(list)
  BY <1>1, UpTo
<1>4. Cardinality(1 .. Len(list)) <= Cardinality(1 .. MaxOrdinal)
  <2>. HIDE DEF f
  <2>. QED
    BY <1>2, <1>3, FS_Injection
<1>. QED
  BY <1>3, <1>4

\* Renumbered instances have their places for numbers (hydrateInstanceIds).
LEMMA RenumberedIs ==
  ASSUME EditorAssumption, NEW list \in Seq(Instance), OnceEach(list)
  PROVE  /\ Renumbered(list) \in Seq(Instance) /\ OnceEach(Renumbered(list))
         /\ DOMAIN Renumbered(list) = DOMAIN list
         /\ \A i \in DOMAIN list : Renumbered(list)[i].ord = i /\ Renumbered(list)[i].who = list[i].who
         /\ Renumbered(list) = <<>> <=> list = <<>>
<1>. DEFINE new == Renumbered(list)
<1>1. /\ Len(list) \in Nat /\ DOMAIN list = 1 .. Len(list) /\ Len(list) <= MaxOrdinal /\ MaxOrdinal \in Nat
      /\ \A i \in 1 .. Len(list) : list[i] \in Instance
  BY LenProperties, ElementOfSeq, FewEnough DEF EditorAssumption
<1>2. ASSUME NEW i \in DOMAIN list
      PROVE  /\ [list[i] EXCEPT !.ord = i] \in Instance
             /\ [list[i] EXCEPT !.ord = i].ord = i /\ [list[i] EXCEPT !.ord = i].who = list[i].who
  <2>1. i \in 1 .. MaxOrdinal /\ list[i] \in Instance
    BY <1>1
  <2>. QED
    BY <2>1 DEF Instance
<1>3. new \in Seq(Instance) /\ DOMAIN new = DOMAIN list
  BY <1>1, <1>2 DEF Renumbered
<1>4. \A i \in DOMAIN list : new[i].ord = i /\ new[i].who = list[i].who
  BY <1>2 DEF Renumbered
<1>. HIDE DEF new
<1>5. OnceEach(new)
  BY <1>3, <1>4 DEF OnceEach
<1>6. new = <<>> <=> list = <<>>
  <2>1. Len(new) = Len(list)
    <3>1. DOMAIN new = 1 .. Len(new) /\ Len(new) \in Nat
      BY <1>3, LenProperties
    <3>. QED
      BY <1>1, <1>3, <3>1
  <2>2. new = <<>> <=> Len(new) = 0
    BY <1>3
  <2>3. list = <<>> <=> Len(list) = 0
    OBVIOUS
  <2>. QED
    BY <2>1, <2>2, <2>3
<1>. QED
  BY <1>3, <1>4, <1>5, <1>6 DEF new

\* A source begins with one instance.
LEMMA NewSourceIs ==
  ASSUME EditorAssumption, EditorIInv, NEW src \in Sources
  PROVE  NewSource(src) \in Seq(Instance) /\ NewSource(src) # <<>> /\ OnceEach(NewSource(src))
<1>1. Fresh(src) \in Nat \ {Forgotten} /\ 1 \in 1 .. MaxOrdinal
  BY FreshIs DEF EditorAssumption
<1>. DEFINE new == [ord |-> 1, who |-> Fresh(src)]
<1>2. new \in Instance
  BY <1>1 DEF Instance
<1>. HIDE DEF new
<1>3. <<new>> \in Seq(Instance) /\ <<new>> # <<>> /\ OnceEach(<<new>>)
  BY <1>2 DEF OnceEach
<1>. QED
  BY <1>3 DEF NewSource, new

Renamed(list) == [i \in DOMAIN list |-> [list[i] EXCEPT !.ord = NewId(list[i])]]

\* Every member of the list leads to an instance, which gets a new number.
Leads(list, s, at, there) ==
  \A i \in DOMAIN list : /\ Resolves(list[i]) /\ Stands(list[i], s, home, rows)
                         /\ list[i].who # Forgotten => at[list[i].source] = s
                         /\ there[list[i].source] = Renumbered(rows[list[i].source])

\* The members of one list lead to the places of those of the other.
Follows(new, list) ==
  /\ DOMAIN new = DOMAIN list
  /\ \A i \in DOMAIN list :
       LET old == rows[list[i].source]
       IN  /\ new[i].source = list[i].source /\ new[i].ord \in DOMAIN old
           /\ old[new[i].ord].ord = list[i].ord

\* Members that lead somewhere keep to what they lead to.
LEMMA RenamedGood ==
  ASSUME EditorAssumption, EditorIInv, NEW s, NEW at, NEW there, NEW list \in Seq(Member), Distinct(list),
         Leads(list, s, at, there)
  PROVE  GoodGroup(Renamed(list), s, at, there) /\ Follows(Renamed(list), list)
<1>. DEFINE new == Renamed(list)
<1>0. \A i \in DOMAIN list : /\ Resolves(list[i]) /\ Stands(list[i], s, home, rows)
                             /\ list[i].who # Forgotten => at[list[i].source] = s
                             /\ there[list[i].source] = Renumbered(rows[list[i].source])
  BY DEF Leads
<1>1. Len(list) \in Nat /\ DOMAIN list = 1 .. Len(list) /\ \A i \in DOMAIN list : list[i] \in Member
  BY LenProperties, ElementOfSeq
<1>2. ASSUME NEW src \in Sources
      PROVE  /\ rows[src] \in Seq(Instance) /\ OnceEach(rows[src])
             /\ \A i \in DOMAIN rows[src] : i \in 1 .. MaxOrdinal
  <2>1. rows[src] \in Seq(Instance) /\ OnceEach(rows[src])
    BY DEF EditorIInv, GoodRows
  <2>2. Len(rows[src]) \in Nat /\ DOMAIN rows[src] = 1 .. Len(rows[src]) /\ Len(rows[src]) <= MaxOrdinal
        /\ MaxOrdinal \in Nat
    BY <2>1, LenProperties, FewEnough DEF EditorAssumption
  <2>. QED
    BY <2>1, <2>2
<1>3. ASSUME NEW i \in DOMAIN list
      PROVE  /\ list[i].source \in Sources /\ NewId(list[i]) \in DOMAIN rows[list[i].source]
             /\ rows[list[i].source][NewId(list[i])].ord = list[i].ord
             /\ NewId(list[i]) \in 1 .. MaxOrdinal
  <2>1. list[i].source \in Sources
    BY <1>1 DEF Member
  <2>2. \E k \in DOMAIN rows[list[i].source] : rows[list[i].source][k].ord = list[i].ord
    BY <1>0 DEF Resolves
  <2>3. NewId(list[i]) \in DOMAIN rows[list[i].source] /\ rows[list[i].source][NewId(list[i])].ord = list[i].ord
    BY <2>2 DEF NewId
  <2>. QED
    BY <1>2, <2>1, <2>3
<1>4. ASSUME NEW i \in DOMAIN list
      PROVE  /\ new[i] \in Member /\ new[i].source = list[i].source /\ new[i].who = list[i].who
             /\ new[i].ord = NewId(list[i])
  <2>1. list[i] \in Member /\ NewId(list[i]) \in 1 .. MaxOrdinal
    BY <1>1, <1>3
  <2>2. new[i] = [list[i] EXCEPT !.ord = NewId(list[i])]
    BY DEF Renamed
  <2>. QED
    BY <2>1, <2>2 DEF Member
<1>5. new \in Seq(Member) /\ DOMAIN new = DOMAIN list
  BY <1>1, <1>4 DEF Renamed
<1>. HIDE DEF new
<1>6. Distinct(new)
  <2>. SUFFICES ASSUME NEW i \in DOMAIN list, NEW j \in DOMAIN list, SameId(new[i], new[j]) PROVE i = j
    BY <1>5 DEF Distinct
  <2>1. list[i].source = list[j].source /\ NewId(list[i]) = NewId(list[j])
    BY <1>4 DEF SameId
  <2>2. SameId(list[i], list[j])
    BY <1>3, <2>1 DEF SameId
  <2>. QED
    BY <2>2 DEF Distinct
<1>7. ASSUME NEW i \in DOMAIN list PROVE Stands(new[i], s, at, there)
  <2>. SUFFICES ASSUME list[i].who # Forgotten
                PROVE  at[list[i].source] = s /\ There(there[list[i].source], NewId(list[i]), list[i].who)
    BY <1>0, <1>4 DEF Stands
  <2>. DEFINE old == rows[list[i].source]
  <2>1. /\ old \in Seq(Instance) /\ OnceEach(old) /\ NewId(list[i]) \in DOMAIN old
        /\ old[NewId(list[i])].ord = list[i].ord
    BY <1>2, <1>3
  <2>2. There(old, list[i].ord, list[i].who)
    BY <1>0 DEF Stands
  <2>3. old[NewId(list[i])].who = list[i].who
    BY <2>1, <2>2 DEF There, OnceEach
  <2>4. there[list[i].source] = Renumbered(old)
    BY <1>0
  <2>. HIDE DEF old
  <2>5. There(Renumbered(old), NewId(list[i]), list[i].who)
    BY <2>1, <2>3, RenumberedIs DEF There
  <2>. QED
    BY <1>0, <2>4, <2>5
<1>8. GoodGroup(new, s, at, there)
  BY <1>5, <1>6, <1>7 DEF GoodGroup
<1>9. Follows(new, list)
  BY <1>3, <1>4, <1>5 DEF Follows
<1>. QED
  BY <1>8, <1>9 DEF new

-----------------------------------------------------------------------------
(* A conversion *)

\* What a group keeps when the sources are at `at`.
Survivors(s, at) == Picked(members[s], {i \in DOMAIN members[s] : at[members[s][i].source] = s /\ Resolves(members[s][i])})

\* The members that a conversion keeps are instances of the server they go to.
LEMMA SurvivorsAre ==
  ASSUME EditorAssumption, EditorIInv, NEW at, NEW s \in Servers, members[s] # Off
  PROVE  /\ Survivors(s, at) \in Seq(Member) /\ Distinct(Survivors(s, at))
         /\ \A i \in DOMAIN Survivors(s, at) :
              LET m == Survivors(s, at)[i]
              IN  m \in Member /\ at[m.source] = s /\ Resolves(m) /\ Stands(m, s, home, rows)
<1>. DEFINE list   == members[s]
            places == {i \in DOMAIN list : at[list[i].source] = s /\ Resolves(list[i])}
<1>1. list \in Seq(Member) /\ Distinct(list) /\ \A i \in DOMAIN list : Stands(list[i], s, home, rows)
  BY DEF EditorIInv, GoodLists, GoodGroup
<1>2. places \in SUBSET DOMAIN list
  OBVIOUS
<1>3. \A i \in places : i \in DOMAIN list /\ at[list[i].source] = s /\ Resolves(list[i])
  OBVIOUS
<1>4. Survivors(s, at) = Picked(list, places)
  BY DEF Survivors
<1>. HIDE DEF places, list
<1>5. /\ Survivors(s, at) \in Seq(Member)
      /\ \A k \in DOMAIN Survivors(s, at) : \E i \in places : Survivors(s, at)[k] = list[i]
  BY <1>1, <1>2, <1>4, Chosen
<1>6. Distinct(Survivors(s, at))
  BY <1>1, <1>2, <1>4, ChosenDistinct
<1>7. \A i \in DOMAIN list : list[i] \in Member
  BY <1>1, LenProperties, ElementOfSeq
<1>. QED
  BY <1>1, <1>3, <1>5, <1>6, <1>7

\* They keep to what they lead to (mergeSnapshotAfterConvert).
LEMMA MergedGood ==
  ASSUME EditorAssumption, EditorIInv, NEW at \in Catalogs, Convert(at), NEW s \in Servers, members[s] # Off
  PROVE  /\ GoodGroup(Merged(s, at), s, at, rows') /\ Follows(Merged(s, at), Survivors(s, at))
         /\ Leads(Survivors(s, at), s, at, rows')
<1>. DEFINE list == Survivors(s, at)
<1>1. /\ list \in Seq(Member) /\ Distinct(list)
      /\ \A i \in DOMAIN list : /\ list[i] \in Member /\ at[list[i].source] = s
                                /\ Resolves(list[i]) /\ Stands(list[i], s, home, rows)
  BY SurvivorsAre
<1>2. Merged(s, at) = Renamed(list)
  BY DEF Merged, Those, Survivors, Renamed
<1>. HIDE DEF list
<1>3. ASSUME NEW i \in DOMAIN list PROVE rows'[list[i].source] = Renumbered(rows[list[i].source])
  <2>1. list[i].source \in Sources /\ at[list[i].source] # Gone
    BY <1>1 DEF Member, EditorAssumption
  <2>2. rows[list[i].source] # <<>>
    <3>1. \E k \in DOMAIN rows[list[i].source] : rows[list[i].source][k].ord = list[i].ord
      BY <1>1 DEF Resolves
    <3>. QED
      BY <3>1
  <2>. QED
    BY <2>1, <2>2 DEF Convert
<1>4. Leads(list, s, at, rows')
  BY <1>1, <1>3 DEF Leads
<1>5. GoodGroup(Renamed(list), s, at, rows') /\ Follows(Renamed(list), list)
  BY <1>1, <1>4, RenamedGood
<1>. QED
  BY <1>2, <1>4, <1>5 DEF list

\* Rows follow their source, and a source that comes has one.
LEMMA ConvertedRows ==
  ASSUME EditorAssumption, EditorIInv, NEW at \in Catalogs, home' = at,
         NEW new, new = [src \in Sources |->
                           IF at[src] = Gone THEN <<>>
                           ELSE IF rows[src] = <<>> THEN NewSource(src) ELSE Renumbered(rows[src])]
  PROVE  GoodRows(at, new)
<1>1. at \in [Sources -> Servers \cup {Gone}]
  BY DEF EditorAssumption
<1>2. <<>> \in Seq(Instance) /\ OnceEach(<<>>)
  BY DEF OnceEach
<1>3. ASSUME NEW src \in Sources
      PROVE  new[src] \in Seq(Instance) /\ OnceEach(new[src]) /\ (new[src] = <<>> <=> at[src] = Gone)
  <2>1. rows[src] \in Seq(Instance) /\ OnceEach(rows[src])
    BY DEF EditorIInv, GoodRows
  <2>2. CASE at[src] = Gone
    BY <1>2, <2>2
  <2>3. CASE at[src] # Gone /\ rows[src] = <<>>
    <3>1. new[src] = NewSource(src)
      BY <2>3
    <3>. QED
      BY <2>3, <3>1, NewSourceIs
  <2>4. CASE at[src] # Gone /\ rows[src] # <<>>
    <3>1. new[src] = Renumbered(rows[src])
      BY <2>4
    <3>. QED
      BY <2>1, <2>4, <3>1, RenumberedIs
  <2>. QED
    BY <2>2, <2>3, <2>4
<1>4. new \in [Sources -> Seq(Instance)]
  BY <1>3
<1>. QED
  BY <1>1, <1>3, <1>4 DEF GoodRows

\* A conversion keeps the invariant, and so does a reset.
LEMMA ConvertKeeps == ASSUME EditorAssumption, EditorIInv, NEW at \in Catalogs, Convert(at) PROVE EditorIInv'
<1>1. /\ home' = at
      /\ rows' = [src \in Sources |->
                    IF at[src] = Gone THEN <<>>
                    ELSE IF rows[src] = <<>> THEN NewSource(src) ELSE Renumbered(rows[src])]
      /\ members' = [s \in Servers |-> IF members[s] = Off \/ s \notin ServersOf(at) THEN Off ELSE Merged(s, at)]
      /\ drafts' = [s \in Servers |-> IF s \in ServersOf(at) THEN drafts[s] ELSE Off]
  BY DEF Convert
<1>2. GoodRows(at, rows')
  BY <1>1, ConvertedRows
<1>3. ASSUME NEW s \in Servers
      PROVE  /\ members'[s] \in {Off} \cup Seq(Member) /\ drafts'[s] \in {Off} \cup Seq(Member)
             /\ members'[s] # Off => GoodGroup(members'[s], s, at, rows')
             /\ drafts'[s] # Off => GoodDraft(drafts'[s])
             /\ members'[s] = Off \/ drafts'[s] = Off
             /\ s \notin ServersOf(at) => members'[s] = Off /\ drafts'[s] = Off
  <2>1. /\ drafts[s] \in {Off} \cup Seq(Member) /\ (drafts[s] # Off => GoodDraft(drafts[s]))
        /\ members[s] = Off \/ drafts[s] = Off
    BY DEF EditorIInv, GoodLists
  <2>2. drafts'[s] = drafts[s] \/ drafts'[s] = Off
    BY <1>1
  <2>3. CASE members[s] = Off \/ s \notin ServersOf(at)
    <3>1. members'[s] = Off /\ (s \notin ServersOf(at) => drafts'[s] = Off)
      BY <1>1, <2>3
    <3>. QED
      BY <2>1, <2>2, <3>1
  <2>4. CASE members[s] # Off /\ s \in ServersOf(at)
    <3>1. members'[s] = Merged(s, at) /\ drafts'[s] = Off
      BY <1>1, <2>1, <2>4
    <3>2. GoodGroup(members'[s], s, at, rows')
      BY <2>4, <3>1, MergedGood
    <3>. QED
      BY <2>4, <3>1, <3>2 DEF GoodGroup
  <2>. QED
    BY <2>3, <2>4
<1>4. members' \in [Servers -> {Off} \cup Seq(Member)] /\ drafts' \in [Servers -> {Off} \cup Seq(Member)]
  <2>1. members' = [s \in Servers |-> members'[s]] /\ drafts' = [s \in Servers |-> drafts'[s]]
    BY <1>1
  <2>. QED
    BY <1>3, <2>1
<1>5. GoodLists(at, rows', members', drafts')
  BY <1>3, <1>4 DEF GoodLists
<1>. QED
  BY <1>1, <1>2, <1>5 DEF EditorIInv

LEMMA ResetKeeps == ASSUME EditorAssumption, EditorIInv, NEW at \in Catalogs, Reset(at) PROVE EditorIInv'
<1>1. GoodRows(home', rows')
  <2>1. at \in [Sources -> Servers \cup {Gone}]
    BY DEF EditorAssumption
  <2>2. ASSUME NEW src \in Sources
        PROVE  rows'[src] \in Seq(Instance) /\ OnceEach(rows'[src]) /\ (rows'[src] = <<>> <=> at[src] = Gone)
    <3>1. CASE at[src] = Gone
      <4>1. rows'[src] = <<>>
        BY <3>1 DEF Reset
      <4>2. <<>> \in Seq(Instance) /\ OnceEach(<<>>)
        BY DEF OnceEach
      <4>. QED
        BY <3>1, <4>1, <4>2
    <3>2. CASE at[src] # Gone
      <4>1. rows'[src] = NewSource(src)
        BY <3>2 DEF Reset
      <4>. QED
        BY <3>2, <4>1, NewSourceIs
    <3>. QED
      BY <3>1, <3>2
  <2>3. rows' \in [Sources -> Seq(Instance)]
    <3>1. rows' = [src \in Sources |-> rows'[src]]
      BY DEF Reset
    <3>. QED
      BY <2>2, <3>1
  <2>. QED
    BY <2>1, <2>2, <2>3 DEF Reset, GoodRows
<1>2. GoodLists(home', rows', members', drafts')
  BY DEF Reset, GoodLists
<1>. QED
  BY <1>1, <1>2 DEF EditorIInv

\* What a group leads to once its members have new numbers is what it led to.
LEMMA GroupFollows ==
  ASSUME EditorAssumption, EditorIInv, NEW s, NEW at, NEW list \in Seq(Member), Leads(list, s, at, rows'),
         members'[s] \in Seq(Member), Follows(members'[s], list)
  PROVE  Group(s)' = [i \in DOMAIN list |-> Resolved(list[i])] /\ Len(members'[s]) = Len(Group(s)')
<1>. DEFINE new == members'[s]
            known == {i \in DOMAIN new : \E k \in DOMAIN rows'[new[i].source] : rows'[new[i].source][k].ord = new[i].ord}
            what(m) == [source |-> m.source,
                        who |-> rows'[m.source][CHOOSE k \in DOMAIN rows'[m.source] : rows'[m.source][k].ord = m.ord].who]
<1>1. Group(s)' = [i \in DOMAIN Picked(new, known) |-> what(Picked(new, known)[i])]
  BY DEF Group, Those, Resolves, Resolved
<1>2. /\ DOMAIN new = DOMAIN list
      /\ \A i \in DOMAIN list : list[i] \in Member
      /\ \A i \in DOMAIN list : /\ new[i].source = list[i].source
                                /\ new[i].ord \in DOMAIN rows[list[i].source]
                                /\ rows[list[i].source][new[i].ord].ord = list[i].ord
                                /\ rows'[list[i].source] = Renumbered(rows[list[i].source])
  BY LenProperties, ElementOfSeq DEF Follows, Leads
<1>3. ASSUME NEW i \in DOMAIN list
      PROVE  what(new[i]) = Resolved(list[i]) /\ i \in known
  <2>. DEFINE old == rows[list[i].source]
              now == rows'[list[i].source]
              n   == new[i].ord
  <2>1. old \in Seq(Instance) /\ OnceEach(old)
    BY <1>2 DEF EditorIInv, GoodRows, Member
  <2>2. n \in DOMAIN old /\ old[n].ord = list[i].ord /\ now = Renumbered(old) /\ new[i].source = list[i].source
    BY <1>2
  <2>. HIDE DEF old, now
  <2>3. DOMAIN now = DOMAIN old /\ now[n].ord = n /\ now[n].who = old[n].who /\ OnceEach(now)
    BY <2>1, <2>2, RenumberedIs
  <2>4. (CHOOSE k \in DOMAIN now : now[k].ord = n) = n
    BY <2>2, <2>3 DEF OnceEach
  <2>5. (CHOOSE k \in DOMAIN old : old[k].ord = list[i].ord) = n
    BY <2>1, <2>2 DEF OnceEach
  <2>6. what(new[i]) = [source |-> list[i].source, who |-> old[n].who]
    BY <2>2, <2>3, <2>4 DEF now
  <2>7. Resolved(list[i]) = [source |-> list[i].source, who |-> old[n].who]
    BY <2>5 DEF Resolved, old
  <2>8. i \in known
    BY <1>2, <2>2, <2>3 DEF now
  <2>. QED
    BY <2>6, <2>7, <2>8
<1>4. Picked(new, known) = new
  BY <1>2, <1>3, AllChosen
<1>. HIDE DEF known, what
<1>5. Group(s)' = [i \in DOMAIN list |-> Resolved(list[i])]
  BY <1>1, <1>2, <1>3, <1>4
<1>6. Len(members'[s]) = Len(Group(s)')
  <2>1. DOMAIN list = 1 .. Len(list) /\ Len(list) \in Nat
    BY LenProperties
  <2>2. Len([i \in 1 .. Len(list) |-> Resolved(list[i])]) = Len(list)
    BY <2>1
  <2>3. Len(members'[s]) = Len(list)
    <3>1. DOMAIN members'[s] = 1 .. Len(members'[s]) /\ Len(members'[s]) \in Nat
      BY LenProperties
    <3>. QED
      BY <1>2, <2>1, <3>1
  <2>. QED
    BY <1>5, <2>1, <2>2, <2>3
<1>. QED
  BY <1>5, <1>6

\* What a group leads to, member by member.
LEMMA GroupIs ==
  ASSUME EditorAssumption, EditorIInv, NEW s \in Servers, members[s] # Off
  PROVE  /\ Group(s) = [i \in DOMAIN Sent(s) |-> Resolved(Sent(s)[i])]
         /\ Sent(s) \in Seq(Member) /\ Distinct(Sent(s))
         /\ \A i \in DOMAIN Sent(s) :
              /\ Sent(s)[i] \in Member /\ Resolves(Sent(s)[i])
              /\ \E j \in DOMAIN members[s] : Sent(s)[i] = members[s][j]
<1>. DEFINE list   == members[s]
            places == {i \in DOMAIN list : Resolves(list[i])}
<1>1. Sent(s) = Picked(list, places)
  BY DEF Sent, Those
<1>2. Group(s) = [i \in DOMAIN Sent(s) |-> Resolved(Sent(s)[i])]
  BY DEF Group, Sent
<1>3. list \in Seq(Member) /\ Distinct(list)
  BY DEF EditorIInv, GoodLists, GoodGroup
<1>4. places \in SUBSET DOMAIN list /\ \A i \in places : i \in DOMAIN list /\ Resolves(list[i])
  OBVIOUS
<1>. HIDE DEF places
<1>5. /\ Sent(s) \in Seq(Member) /\ Distinct(Sent(s))
      /\ \A k \in DOMAIN Sent(s) : \E i \in places : Sent(s)[k] = list[i]
  BY <1>1, <1>3, <1>4, Chosen, ChosenDistinct
<1>6. \A i \in DOMAIN list : list[i] \in Member
  BY <1>3, LenProperties, ElementOfSeq
<1>. QED
  BY <1>2, <1>4, <1>5, <1>6

\* A conversion leaves a group the instances that are still on its server.
LEMMA ConvertKeepsGroups ==
  ASSUME EditorAssumption, EditorIInv, NEW at \in Catalogs, Convert(at),
         NEW s \in Servers, members[s] # Off, s \in ServersOf(home')
  PROVE  /\ Group(s)' = Those(Group(s), LAMBDA g : home'[g.source] = s)
         /\ Len(members'[s]) = Len(Group(s)')
<1>1. home' = at /\ members'[s] = Merged(s, at)
  BY DEF Convert
<1>2. /\ GoodGroup(Merged(s, at), s, at, rows') /\ Follows(Merged(s, at), Survivors(s, at))
      /\ Leads(Survivors(s, at), s, at, rows')
  BY MergedGood
<1>3. Survivors(s, at) \in Seq(Member)
  BY SurvivorsAre
<1>4. Group(s)' = [i \in DOMAIN Survivors(s, at) |-> Resolved(Survivors(s, at)[i])] /\ Len(members'[s]) = Len(Group(s)')
  BY <1>1, <1>2, <1>3, GroupFollows DEF GoodGroup
<1>. DEFINE known == Sent(s)
            shown == Group(s)
            here  == {m \in Member : at[m.source] = s}
            some  == {k \in DOMAIN known : known[k] \in here}
<1>5. /\ shown = [i \in DOMAIN known |-> Resolved(known[i])] /\ known \in Seq(Member)
      /\ \A i \in DOMAIN known : known[i] \in Member
  BY GroupIs
<1>6. Survivors(s, at) = Picked(known, some)
  <2>. DEFINE list   == members[s]
              places == {i \in DOMAIN list : Resolves(list[i])}
  <2>1. known = Picked(list, places)
    BY DEF Sent, Those
  <2>2. list \in Seq(Member)
    BY DEF EditorIInv, GoodLists, GoodGroup
  <2>3. {i \in places : list[i] \in here} = {i \in DOMAIN list : at[list[i].source] = s /\ Resolves(list[i])}
    <3>1. \A i \in DOMAIN list : list[i] \in Member
      BY <2>2, LenProperties, ElementOfSeq
    <3>. QED
      BY <3>1
  <2>4. places \in SUBSET DOMAIN list
    OBVIOUS
  <2>. DEFINE passing == {i \in places : list[i] \in here}
  <2>5. Narrows(list, places, here, known, some, passing)
    <3>. HIDE DEF places, known, here
    <3>. QED
      BY <2>1, <2>4 DEF Narrows
  <2>6. Survivors(s, at) = Picked(list, passing)
    BY <2>3 DEF Survivors
  <2>. HIDE DEF some, passing, list, places, known, here
  <2>7. Picked(known, some) = Picked(list, passing)
    BY <2>2, <2>5, ChosenTwice
  <2>. QED
    BY <2>6, <2>7
<1>7. Those(Group(s), LAMBDA g : home'[g.source] = s) = Picked(shown, some)
  <2>1. Those(Group(s), LAMBDA g : home'[g.source] = s) = Picked(shown, {i \in DOMAIN shown : at[shown[i].source] = s})
    BY <1>1 DEF Those
  <2>2. \A i \in DOMAIN known : shown[i].source = known[i].source
    BY <1>5 DEF Resolved
  <2>3. {i \in DOMAIN shown : at[shown[i].source] = s} = some
    <3>1. DOMAIN shown = DOMAIN known
      BY <1>5
    <3>. HIDE DEF shown, known
    <3>. QED
      BY <1>5, <2>2, <3>1
  <2>. QED
    BY <2>1, <2>3
<1>8. shown \in Seq({Resolved(m) : m \in Member}) /\ Len(shown) = Len(known) /\ some \in SUBSET DOMAIN known
  <2>1. DOMAIN known = 1 .. Len(known) /\ Len(known) \in Nat
    BY <1>5, LenProperties
  <2>. HIDE DEF known, shown
  <2>2. shown \in Seq({Resolved(m) : m \in Member}) /\ Len(shown) = Len(known)
    BY <1>5, <2>1
  <2>3. some \in SUBSET DOMAIN known
    OBVIOUS
  <2>. QED
    BY <2>2, <2>3
<1>. HIDE DEF shown, known, some
<1>9. Alike(Picked(known, some), Picked(shown, some), known, shown, some)
  <2>. DEFINE all == {Resolved(m) : m \in Member}
  <2>1. shown \in Seq(all)
    BY <1>8
  <2>. HIDE DEF all
  <2>. QED
    BY <1>5, <1>8, <2>1, ChosenAlike
<1>10. /\ Picked(shown, some) \in Seq({Resolved(m) : m \in Member})
       /\ Picked(known, some) \in Seq(Member)
  <2>1. DOMAIN shown = DOMAIN known
    BY <1>5
  <2>. QED
    BY <1>5, <1>8, <2>1, Chosen
<1>11. \A k \in 1 .. Len(Picked(known, some)) : Picked(shown, some)[k] = Resolved(Picked(known, some)[k])
  <2>1. \A i \in some : shown[i] = Resolved(known[i])
    BY <1>5, <1>8
  <2>. QED
    BY <1>9, <2>1 DEF Alike
<1>12. Picked(shown, some) = [k \in DOMAIN Picked(known, some) |-> Resolved(Picked(known, some)[k])]
  <2>. DEFINE p == Picked(shown, some)
              q == Picked(known, some)
  <2>1. /\ DOMAIN p = 1 .. Len(p) /\ DOMAIN q = 1 .. Len(q) /\ Len(p) = Len(q)
        /\ p = [k \in DOMAIN p |-> p[k]]
    BY <1>9, <1>10, LenProperties DEF Alike
  <2>2. \A k \in DOMAIN q : p[k] = Resolved(q[k])
    BY <1>11, <2>1
  <2>. HIDE DEF p, q
  <2>3. p = [k \in DOMAIN q |-> Resolved(q[k])]
    BY <2>1, <2>2
  <2>. QED
    BY <2>3 DEF p, q
<1>. QED
  BY <1>4, <1>6, <1>7, <1>12

-----------------------------------------------------------------------------
(* A restore *)

\* The members that are sent, in the order in which they come back.
SentBack(s, fallback) ==
  IF s \in fallback THEN Sent(s)
  ELSE Picked(RowsOf(s), {k \in DOMAIN RowsOf(s) : HasId(Sent(s), RowsOf(s)[k])})

\* The members that the page has for them.
Back(s, fallback) ==
  [i \in DOMAIN SentBack(s, fallback) |->
     members[s][CHOOSE j \in DOMAIN members[s] : SameId(members[s][j], SentBack(s, fallback)[i])]]

\* What comes back is what was sent, in whichever order.
LEMMA SentBackIs ==
  ASSUME EditorAssumption, EditorIInv, Accepted, NEW fallback, NEW s \in Servers, members[s] # Off
  PROVE  /\ SentBack(s, fallback) \in Seq(Member) /\ Distinct(SentBack(s, fallback))
         /\ \A i \in DOMAIN SentBack(s, fallback) : HasId(Sent(s), SentBack(s, fallback)[i])
         /\ \A i \in DOMAIN Sent(s) : HasId(SentBack(s, fallback), Sent(s)[i])
<1>. DEFINE sent == Sent(s)
            own  == RowsOf(s)
            some == {k \in DOMAIN own : HasId(sent, own[k])}
<1>1. /\ sent \in Seq(Member) /\ Distinct(sent)
      /\ \A i \in DOMAIN sent : sent[i] \in Member /\ Resolves(sent[i])
  BY GroupIs
<1>2. \A i \in DOMAIN sent : home[sent[i].source] = s
  BY DEF Accepted, ToSet
<1>. HIDE DEF sent
<1>3. \A i \in DOMAIN sent : HasId(sent, sent[i])
  BY DEF HasId, SameId
<1>4. CASE s \in fallback
  <2>1. SentBack(s, fallback) = sent
    BY <1>4 DEF SentBack, sent
  <2>. QED
    BY <1>1, <1>3, <2>1 DEF sent
<1>5. CASE s \notin fallback
  <2>1. SentBack(s, fallback) = Picked(own, some)
    BY <1>5 DEF SentBack, sent
  <2>2. /\ own \in Seq(Member) /\ Distinct(own)
        /\ \A src \in Sources : home[src] = s => \A i \in DOMAIN rows[src] :
             \E k \in DOMAIN own : own[k] = [source |-> src, ord |-> rows[src][i].ord, who |-> rows[src][i].who]
    BY RowsAre DEF EditorIInv
  <2>. HIDE DEF own
  <2>3. some \in SUBSET DOMAIN own /\ \A k \in some : k \in DOMAIN own /\ HasId(sent, own[k])
    OBVIOUS
  <2>4. ASSUME NEW i \in DOMAIN sent PROVE \E k \in some : SameId(own[k], sent[i])
    <3>1. sent[i].source \in Sources /\ home[sent[i].source] = s
      BY <1>1, <1>2 DEF Member
    <3>2. PICK j \in DOMAIN rows[sent[i].source] : rows[sent[i].source][j].ord = sent[i].ord
      BY <1>1 DEF Resolves
    <3>3. PICK k \in DOMAIN own :
            own[k] = [source |-> sent[i].source, ord |-> rows[sent[i].source][j].ord, who |-> rows[sent[i].source][j].who]
      BY <2>2, <3>1, <3>2
    <3>4. SameId(own[k], sent[i]) /\ SameId(sent[i], own[k])
      BY <3>2, <3>3 DEF SameId
    <3>. QED
      BY <3>4 DEF HasId
  <2>. HIDE DEF some
  <2>5. /\ Picked(own, some) \in Seq(Member) /\ Distinct(Picked(own, some))
        /\ \A k \in DOMAIN Picked(own, some) : \E i \in some : Picked(own, some)[k] = own[i]
        /\ \A i \in some : \E k \in DOMAIN Picked(own, some) : Picked(own, some)[k] = own[i]
    BY <2>2, <2>3, Chosen, ChosenDistinct
  <2>6. \A k \in DOMAIN Picked(own, some) : HasId(sent, Picked(own, some)[k])
    BY <2>3, <2>5
  <2>7. ASSUME NEW i \in DOMAIN sent PROVE HasId(Picked(own, some), sent[i])
    <3>1. PICK n \in some : SameId(own[n], sent[i])
      BY <2>4
    <3>2. PICK k \in DOMAIN Picked(own, some) : Picked(own, some)[k] = own[n]
      BY <2>5
    <3>. QED
      BY <3>1, <3>2 DEF HasId
  <2>. QED
    BY <2>1, <2>5, <2>6, <2>7 DEF sent
<1>. QED
  BY <1>4, <1>5

\* The page has a member for each of them, and gives it its new number.
LEMMA BackIs ==
  ASSUME EditorAssumption, EditorIInv, Accepted, NEW fallback, NEW s \in Servers, members[s] # Off,
         rows' = [src \in Sources |-> Renumbered(rows[src])]
  PROVE  /\ Back(s, fallback) \in Seq(Member) /\ Distinct(Back(s, fallback))
         /\ DOMAIN Back(s, fallback) = DOMAIN SentBack(s, fallback)
         /\ \A i \in DOMAIN SentBack(s, fallback) : SameId(Back(s, fallback)[i], SentBack(s, fallback)[i])
         /\ Leads(Back(s, fallback), s, home, rows')
         /\ Restored(s, fallback) = Renamed(Back(s, fallback))
<1>. DEFINE sent == SentBack(s, fallback)
            list == members[s]
            back == Back(s, fallback)
            nth(i) == CHOOSE j \in DOMAIN list : SameId(list[j], sent[i])
<1>1. /\ sent \in Seq(Member) /\ Distinct(sent)
      /\ \A i \in DOMAIN sent : HasId(Sent(s), sent[i])
  BY SentBackIs
<1>2. /\ list \in Seq(Member) /\ \A j \in DOMAIN list : Stands(list[j], s, home, rows)
  BY DEF EditorIInv, GoodLists, GoodGroup
<1>3. back = [i \in DOMAIN sent |-> list[nth(i)]]
  BY DEF Back
<1>4. Restored(s, fallback) = [i \in DOMAIN sent |-> [list[nth(i)] EXCEPT !.ord = NewId(sent[i])]]
  BY DEF Restored, SentBack, Those
<1>. HIDE DEF back, sent
<1>5. ASSUME NEW i \in DOMAIN sent
      PROVE  /\ nth(i) \in DOMAIN list /\ SameId(list[nth(i)], sent[i])
             /\ Resolves(sent[i])
  <2>1. PICK k \in DOMAIN Sent(s) : SameId(Sent(s)[k], sent[i])
    BY <1>1 DEF HasId
  <2>2. Resolves(Sent(s)[k]) /\ \E j \in DOMAIN list : Sent(s)[k] = list[j]
    BY GroupIs
  <2>3. \E j \in DOMAIN list : SameId(list[j], sent[i])
    BY <2>1, <2>2
  <2>4. nth(i) \in DOMAIN list /\ SameId(list[nth(i)], sent[i])
    <3>. HIDE DEF list
    <3>. QED
      BY <2>3
  <2>5. Resolves(sent[i])
    BY <2>1, <2>2 DEF Resolves, SameId
  <2>. QED
    BY <2>4, <2>5
<1>. HIDE DEF list, nth
<1>6. ASSUME NEW i \in DOMAIN sent
      PROVE  /\ back[i] \in Member /\ SameId(back[i], sent[i]) /\ Resolves(back[i])
             /\ Stands(back[i], s, home, rows) /\ NewId(back[i]) = NewId(sent[i])
  <2>1. back[i] = list[nth(i)]
    BY <1>3
  <2>2. SameId(back[i], sent[i]) /\ back[i] \in Member /\ Stands(back[i], s, home, rows)
    BY <1>2, <1>5, <2>1, LenProperties, ElementOfSeq
  <2>3. Resolves(back[i])
    BY <1>5, <2>2 DEF Resolves, SameId
  <2>4. NewId(back[i]) = NewId(sent[i])
    BY <2>2 DEF NewId, SameId
  <2>. QED
    BY <2>2, <2>3, <2>4
<1>7. back \in Seq(Member) /\ DOMAIN back = DOMAIN sent
  <2>1. DOMAIN sent = 1 .. Len(sent) /\ Len(sent) \in Nat
    BY <1>1, LenProperties
  <2>2. \A i \in DOMAIN sent : list[nth(i)] \in Member
    BY <1>3, <1>6
  <2>. QED
    BY <1>3, <2>1, <2>2
<1>8. Distinct(back)
  BY <1>1, <1>6, <1>7 DEF Distinct, SameId
<1>9. Leads(back, s, home, rows')
  BY <1>6, <1>7 DEF Leads, Stands, Member
<1>10. Restored(s, fallback) = Renamed(back)
  <2>1. \A i \in DOMAIN sent : list[nth(i)] = back[i] /\ NewId(sent[i]) = NewId(back[i])
    BY <1>3, <1>6
  <2>. QED
    BY <1>4, <1>7, <2>1 DEF Renamed
<1>. QED
  BY <1>6, <1>7, <1>8, <1>9, <1>10 DEF back, sent

\* A restore keeps the invariant,
LEMMA RestoreKeeps == ASSUME EditorAssumption, EditorIInv, NEW fallback, Restore(fallback) PROVE EditorIInv'
<1>1. /\ Accepted /\ UNCHANGED home
      /\ rows' = [src \in Sources |-> Renumbered(rows[src])]
      /\ members' = [s \in Servers |-> IF members[s] = Off THEN Off ELSE Restored(s, fallback)]
      /\ drafts' = [s \in Servers |-> Off]
  BY DEF Restore
<1>2. GoodRows(home, rows')
  <2>1. ASSUME NEW src \in Sources
        PROVE  /\ rows'[src] \in Seq(Instance) /\ OnceEach(rows'[src])
               /\ rows'[src] = <<>> <=> home[src] = Gone
    <3>1. rows[src] \in Seq(Instance) /\ OnceEach(rows[src]) /\ (rows[src] = <<>> <=> home[src] = Gone)
      BY DEF EditorIInv, GoodRows
    <3>2. rows'[src] = Renumbered(rows[src])
      BY <1>1
    <3>. QED
      BY <3>1, <3>2, RenumberedIs
  <2>2. rows' \in [Sources -> Seq(Instance)]
    BY <1>1, <2>1
  <2>. QED
    BY <2>1, <2>2 DEF EditorIInv, GoodRows
<1>3. ASSUME NEW s \in Servers
      PROVE  /\ members'[s] \in {Off} \cup Seq(Member)
             /\ members'[s] # Off => GoodGroup(members'[s], s, home, rows')
             /\ s \notin ServersOf(home) => members'[s] = Off
  <2>1. CASE members[s] = Off
    BY <1>1, <2>1
  <2>2. CASE members[s] # Off
    <3>1. members'[s] = Renamed(Back(s, fallback))
      BY <1>1, <2>2, BackIs
    <3>2. GoodGroup(Renamed(Back(s, fallback)), s, home, rows')
      BY <1>1, <2>2, BackIs, RenamedGood
    <3>3. s \in ServersOf(home)
      BY <2>2 DEF EditorIInv, GoodLists
    <3>. QED
      BY <3>1, <3>2, <3>3 DEF GoodGroup
  <2>. QED
    BY <2>1, <2>2
<1>4. members' \in [Servers -> {Off} \cup Seq(Member)]
  <2>1. members' = [s \in Servers |-> members'[s]]
    BY <1>1
  <2>. QED
    BY <1>3, <2>1
<1>5. GoodLists(home, rows', members', drafts')
  BY <1>1, <1>3, <1>4 DEF GoodLists
<1>. QED
  BY <1>1, <1>2, <1>5 DEF EditorIInv

\* leaves every group the instances it had,
LEMMA RestoreKeepsGroups ==
  ASSUME EditorAssumption, EditorIInv, NEW fallback, Restore(fallback), NEW s \in Servers, members[s] # Off
  PROVE  ToSet(Group(s)') = ToSet(Group(s))
<1>. DEFINE back == Back(s, fallback)
            sent == SentBack(s, fallback)
<1>1. /\ Accepted /\ rows' = [src \in Sources |-> Renumbered(rows[src])]
      /\ members'[s] = Restored(s, fallback)
  BY DEF Restore
<1>2. /\ back \in Seq(Member) /\ Distinct(back) /\ DOMAIN back = DOMAIN sent
      /\ \A i \in DOMAIN sent : SameId(back[i], sent[i])
      /\ Leads(back, s, home, rows')
      /\ members'[s] = Renamed(back)
  BY <1>1, BackIs
<1>3. GoodGroup(Renamed(back), s, home, rows') /\ Follows(Renamed(back), back)
  BY <1>2, RenamedGood
<1>4. Group(s)' = [i \in DOMAIN back |-> Resolved(back[i])]
  BY <1>2, <1>3, GroupFollows DEF GoodGroup
<1>5. Group(s) = [i \in DOMAIN Sent(s) |-> Resolved(Sent(s)[i])]
  BY GroupIs
<1>6. /\ \A i \in DOMAIN sent : HasId(Sent(s), sent[i])
      /\ \A i \in DOMAIN Sent(s) : HasId(sent, Sent(s)[i])
  BY <1>1, SentBackIs
<1>. HIDE DEF back, sent
<1>7. \A m, n : SameId(m, n) => Resolved(m) = Resolved(n)
  BY DEF SameId, Resolved
<1>8. ASSUME NEW i \in DOMAIN back PROVE \E j \in DOMAIN Sent(s) : Resolved(back[i]) = Resolved(Sent(s)[j])
  <2>1. PICK j \in DOMAIN Sent(s) : SameId(Sent(s)[j], sent[i])
    BY <1>2, <1>6 DEF HasId
  <2>2. SameId(back[i], Sent(s)[j])
    BY <1>2, <2>1 DEF SameId
  <2>. QED
    BY <1>7, <2>2
<1>9. ASSUME NEW j \in DOMAIN Sent(s) PROVE \E i \in DOMAIN back : Resolved(Sent(s)[j]) = Resolved(back[i])
  <2>1. PICK i \in DOMAIN sent : SameId(sent[i], Sent(s)[j])
    BY <1>6 DEF HasId
  <2>2. SameId(back[i], Sent(s)[j]) /\ i \in DOMAIN back
    BY <1>2, <2>1 DEF SameId
  <2>. QED
    BY <1>7, <2>2
<1>10. ToSet(Group(s)') = {Resolved(back[i]) : i \in DOMAIN back}
  BY <1>4 DEF ToSet
<1>11. ToSet(Group(s)) = {Resolved(Sent(s)[j]) : j \in DOMAIN Sent(s)}
  BY <1>5 DEF ToSet
<1>. QED
  BY <1>8, <1>9, <1>10, <1>11

\* and every source its instances, in their order.
LEMMA RestoreKeepsRows ==
  ASSUME EditorAssumption, EditorIInv, NEW fallback, Restore(fallback), NEW src \in Sources
  PROVE  [i \in DOMAIN rows'[src] |-> rows'[src][i].who] = [i \in DOMAIN rows[src] |-> rows[src][i].who]
<1>1. rows'[src] = Renumbered(rows[src]) /\ rows[src] \in Seq(Instance) /\ OnceEach(rows[src])
  BY DEF Restore, EditorIInv, GoodRows
<1>. QED
  BY <1>1, RenumberedIs

-----------------------------------------------------------------------------
(* The precheck *)

\* The page's precheck lets through only what the server takes.
LEMMA PrecheckIs == ASSUME EditorAssumption, EditorIInv PROVE PrecheckSuffices
<1>. SUFFICES ASSUME PrecheckPasses, NEW s \in Servers, members[s] # Off,
                     \A n \in Servers : members[n] # Off => \A m \in ToSet(members[n]) : m.who # Forgotten
              PROVE  (\A m \in ToSet(Sent(s)) : home[m.source] = s) /\ Len(Sent(s)) >= 2
  BY DEF PrecheckSuffices, Accepted
<1>1. \A m \in ToSet(members[s]) : Fits(s, m)
  BY EditorIInvMeans DEF OnlyDraftsStray
<1>2. \A i \in DOMAIN members[s] : Resolves(members[s][i])
  BY <1>1 DEF Fits, ToSet
<1>3. Sent(s) = members[s]
  BY <1>2, AllChosen DEF Sent, Those
<1>. QED
  BY <1>1, <1>3 DEF Fits, PrecheckPasses

\* Every step of the editor keeps the invariant.
LEMMA EditorNextIInv == ASSUME EditorAssumption, EditorIInv, [EditorNext]_editorVars PROVE EditorIInv'
<1>1. ASSUME NEW src \in Sources, Clone(src) PROVE EditorIInv'
  BY <1>1, CloneKeeps
<1>2. ASSUME NEW src \in Sources, NEW i \in DOMAIN rows[src], Delete(src, i) PROVE EditorIInv'
  BY <1>2, DeleteKeeps
<1>3. ASSUME NEW node \in Tree, ServerRow(node) \/ MemberBoxes(node) PROVE EditorIInv'
  <2>1. PICK s \in ServersOf(home) : node = [server |-> s, anchor |-> RowsOf(s)[1], rows |-> ToSet(RowsOf(s))]
    BY DEF Tree
  <2>2. s \in Servers /\ node.server = s /\ node.rows = ToSet(RowsOf(s))
    BY <2>1 DEF ServersOf, EditorIInv, GoodRows
  <2>3. CASE Enable(node.server)
    BY <2>2, <2>3, EnableKeeps
  <2>4. CASE Disable({node.server})
    BY <2>2, <2>4, DisableKeeps
  <2>5. CASE ChangeStrategy(node.server, node.anchor)
    BY <2>2, <2>5, ChangeStrategyKeeps
  <2>6. CASE OrderMenu(node.server)
    BY <2>2, <2>6, OrderMenuKeeps
  <2>7. CASE MemberBoxes(node)
    BY <2>2, <2>7, CheckKeeps DEF MemberBoxes
  <2>. QED
    BY <1>3, <2>3, <2>4, <2>5, <2>6, <2>7 DEF ServerRow
<1>4. CASE LeaveTree
  <2>1. Grouped \in SUBSET Servers
    BY DEF Grouped
  <2>. QED
    BY <1>4, <2>1, DisableKeeps DEF LeaveTree
<1>5. ASSUME NEW at \in Catalogs, Convert(at) PROVE EditorIInv'
  BY <1>5, ConvertKeeps
<1>6. ASSUME NEW at \in Catalogs, Reset(at) PROVE EditorIInv'
  BY <1>6, ResetKeeps
<1>7. ASSUME NEW fallback, Restore(fallback) PROVE EditorIInv'
  BY <1>7, RestoreKeeps
<1>8. CASE UNCHANGED editorVars
  BY <1>8 DEF editorVars, EditorIInv
<1>. QED
  BY <1>1, <1>2, <1>3, <1>4, <1>5, <1>6, <1>7, <1>8 DEF EditorNext, Edit

-----------------------------------------------------------------------------
(* What is proved of the snapshot while it is edited *)

\* However rows are copied, deleted, converted and restored, the numbers of a
\* source's instances differ, lists name nothing twice, and a member that was
\* in no draft is the instance that was meant.
THEOREM EditorInductive == ASSUME EditorAssumption PROVE EditorSpec => []EditorIInv
  BY EditorInitIInv, EditorNextIInv, PTL DEF EditorSpec

\* Every variable of the snapshot stays within its type, a source that is there
\* has an instance, and only a server that is there has a group or a draft
\* (deleteInstance, mergeSnapshotAfterConvert).
THEOREM EditorTyping == ASSUME EditorAssumption PROVE EditorSpec => []EditorTypeOK
<1>1. EditorIInv => EditorTypeOK
  BY EditorIInvMeans
<1>2. QED
  BY <1>1, EditorInductive, PTL

\* No id is given to two instances, and no group or draft lists one twice
\* (nextOrdinalForSource, hydrateInstanceIds, handleServerAggregationEnable).
THEOREM Once == ASSUME EditorAssumption PROVE EditorSpec => []NothingTwice
<1>1. EditorIInv => NothingTwice
  BY EditorIInvMeans
<1>2. QED
  BY <1>1, EditorInductive, PTL

\* A member leads to the instance it was chosen for, whatever ids were given
\* out again since; only what has been in a draft may lead elsewhere
\* (updateServerAggregationGroupState, setServerAggregationEnabledState).
THEOREM Strays == ASSUME EditorAssumption PROVE EditorSpec => []OnlyDraftsStray
<1>1. EditorIInv => OnlyDraftsStray
  BY EditorIInvMeans
<1>2. QED
  BY <1>1, EditorInductive, PTL

\* What the page's precheck lets through, the server takes
\* (collectGeneratePrecheckBlockingErrors, validateServerAggregations).
THEOREM Precheck == ASSUME EditorAssumption PROVE EditorSpec => []PrecheckSuffices
<1>1. EditorIInv => PrecheckSuffices
  BY PrecheckIs
<1>2. QED
  BY <1>1, EditorInductive, PTL

\* A conversion leaves each group with the instances it had on its server, in
\* their order (mergeSnapshotAfterConvert).
THEOREM MergeKeeps == ASSUME EditorAssumption PROVE EditorSpec => MergeKeepsGroups
<1>. DEFINE Keeps ==
       (\E at \in Catalogs : Convert(at)) =>
         \A s \in Servers : members[s] # Off /\ s \in ServersOf(home') =>
           /\ Group(s)' = Those(Group(s), LAMBDA g : home'[g.source] = s)
           /\ Len(members'[s]) = Len(Group(s)')
<1>1. EditorIInv => Keeps
  BY ConvertKeepsGroups
<1>2. EditorIInv /\ [EditorNext]_editorVars => [Keeps]_editorVars
  BY <1>1
<1>3. QED
  BY <1>2, EditorInductive, PTL DEF EditorSpec, MergeKeepsGroups

\* A link brings back the rows in their order and every group with the same
\* instances (buildRestorePatch, hydrateServerAggregation).
THEOREM RestoreKeepsSnapshot == ASSUME EditorAssumption PROVE EditorSpec => RestoreBringsBack
<1>. DEFINE BringsBack ==
       (\E fallback \in SUBSET Grouped : Restore(fallback)) =>
         /\ \A src \in Sources : [i \in DOMAIN rows'[src] |-> rows'[src][i].who]
                                   = [i \in DOMAIN rows[src] |-> rows[src][i].who]
         /\ \A s \in Servers : members[s] # Off => ToSet(Group(s)') = ToSet(Group(s))
<1>1. EditorIInv => BringsBack
  BY RestoreKeepsGroups, RestoreKeepsRows
<1>2. EditorIInv /\ [EditorNext]_editorVars => [BringsBack]_editorVars
  BY <1>1
<1>3. QED
  BY <1>2, EditorInductive, PTL DEF EditorSpec, RestoreBringsBack

-----------------------------------------------------------------------------
(* The dialogs: Stage1Dialogs *)

\* What the variables of the relay dialog hold.
Types ==
  /\ scheme \in Schemes
  /\ relays \in Seq(Relays)
  /\ draft \in Seq(Texts) \cup {NoDraft}
  /\ typed \in Seq(Texts)
  /\ dialog = "relays" => draft # NoDraft

\* A draft of b1 is what the page will have.
B1Draft ==
  scheme = "b1" /\ draft # NoDraft =>
    /\ draft \in Seq(Relays) /\ IsInjective(draft)
    /\ late \/ Range(relays) \subseteq Range(draft) \cup dropped

DialogsIInv == Types /\ RelaysDistinct /\ B1Draft

-----------------------------------------------------------------------------
(* Lists *)

\* What can be appended leaves a list of distinct relays that begins with the
\* old one (appendForwardRelayItems).
LEMMA Appends ==
  ASSUME DialogsAssumption,
         NEW list \in Seq(Relays), IsInjective(list),
         NEW texts \in Seq(Texts), CanAppend(list, texts)
  PROVE  /\ Appended(list, texts) \in Seq(Relays)
         /\ IsInjective(Appended(list, texts))
         /\ Range(list) \subseteq Range(Appended(list, texts))
         /\ IsPrefix(list, Appended(list, texts))
<1>. DEFINE new == Normal(texts)
            all == list \o new
<1>1. DOMAIN texts = 1 .. Len(texts) /\ Len(texts) \in Nat /\ \A k \in 1 .. Len(texts) : texts[k] \in Texts
  BY LenProperties, ElementOfSeq
<1>2. \A k \in 1 .. Len(texts) : Norm[texts[k]] \in Relays
  BY <1>1 DEF CanAppend, DialogsAssumption
<1>3. new \in Seq(Relays) /\ Len(new) = Len(texts)
  <2>1. new = [k \in 1 .. Len(texts) |-> Norm[texts[k]]]
    BY <1>1 DEF Normal
  <2>2. QED
    BY <1>1, <1>2, <2>1
<1>4. \A k \in 1 .. Len(new) : new[k] = Norm[texts[k]]
  BY <1>1, <1>3 DEF Normal
<1>5. /\ all \in Seq(Relays) /\ Len(all) = Len(list) + Len(new)
      /\ \A k \in 1 .. Len(list) + Len(new) :
           all[k] = IF k <= Len(list) THEN list[k] ELSE new[k - Len(list)]
  BY <1>3, ConcatProperties
<1>6. Len(list) \in Nat /\ Len(new) \in Nat /\ DOMAIN list = 1 .. Len(list)
      /\ DOMAIN new = 1 .. Len(new) /\ DOMAIN all = 1 .. Len(all)
  BY <1>3, <1>5, LenProperties
<1>. HIDE DEF new, all
<1>7. \A i \in 1 .. Len(list), j \in 1 .. Len(new) : list[i] # new[j]
  <2>. SUFFICES ASSUME NEW i \in 1 .. Len(list), NEW j \in 1 .. Len(new) PROVE list[i] # new[j]
    OBVIOUS
  <2>1. list[i] \in Range(list)
    BY <1>6 DEF Range
  <2>2. j \in DOMAIN texts /\ new[j] = Norm[texts[j]]
    BY <1>1, <1>3, <1>4
  <2>3. QED
    BY <2>1, <2>2 DEF CanAppend
<1>8. \A i, j \in 1 .. Len(new) : new[i] = new[j] => i = j
  BY <1>6 DEF CanAppend, IsInjective, new
<1>9. IsInjective(all)
  <2>. SUFFICES ASSUME NEW i \in 1 .. Len(all), NEW j \in 1 .. Len(all), all[i] = all[j]
                PROVE  i = j
    BY <1>6 DEF IsInjective
  <2>1. CASE i <= Len(list) /\ j <= Len(list)
    BY <2>1, <1>5, <1>6 DEF IsInjective
  <2>2. CASE i <= Len(list) /\ j > Len(list)
    <3>1. j - Len(list) \in 1 .. Len(new) /\ i \in 1 .. Len(list)
      BY <2>2, <1>5, <1>6
    <3>2. QED
      BY <2>2, <3>1, <1>5, <1>6, <1>7
  <2>3. CASE i > Len(list) /\ j <= Len(list)
    <3>1. i - Len(list) \in 1 .. Len(new) /\ j \in 1 .. Len(list)
      BY <2>3, <1>5, <1>6
    <3>2. QED
      BY <2>3, <3>1, <1>5, <1>6, <1>7
  <2>4. CASE i > Len(list) /\ j > Len(list)
    <3>1. i - Len(list) \in 1 .. Len(new) /\ j - Len(list) \in 1 .. Len(new)
      BY <2>4, <1>5, <1>6
    <3>2. i - Len(list) = j - Len(list)
      BY <2>4, <3>1, <1>5, <1>6, <1>8
    <3>3. QED
      BY <3>2, <1>5, <1>6
  <2>5. QED
    BY <1>5, <1>6, <2>1, <2>2, <2>3, <2>4
<1>10. \A i \in 1 .. Len(list) : i \in 1 .. Len(all) /\ all[i] = list[i]
  BY <1>5, <1>6
<1>11. Range(list) \subseteq Range(all)
  BY <1>6, <1>10 DEF Range
<1>12. IsPrefix(list, all)
  <2>1. \A i \in 1 .. Len(list) : list[i] \in Relays /\ all[i] \in Relays
    BY <1>6, <1>10, ElementOfSeq
  <2>2. /\ SubSeq(list, 1, Len(list)) \in Seq(Relays) /\ Len(SubSeq(list, 1, Len(list))) = Len(list)
        /\ \A i \in 1 .. Len(list) : SubSeq(list, 1, Len(list))[i] = list[i]
    BY <1>6, <2>1, SubSeqProperties
  <2>3. /\ SubSeq(all, 1, Len(list)) \in Seq(Relays) /\ Len(SubSeq(all, 1, Len(list))) = Len(list)
        /\ \A i \in 1 .. Len(list) : SubSeq(all, 1, Len(list))[i] = all[i]
    BY <1>6, <2>1, SubSeqProperties
  <2>4. SubSeq(list, 1, Len(list)) = SubSeq(all, 1, Len(list))
    BY <1>6, <1>10, <2>2, <2>3, SeqEqual
  <2>5. QED
    BY <1>5, <1>6, <2>4 DEF IsPrefix
<1>13. QED
  BY <1>5, <1>9, <1>11, <1>12 DEF all, new, Appended

\* Taking one entry out of a list.
LEMMA Removes ==
  ASSUME NEW S, NEW seq \in Seq(S), NEW k \in DOMAIN seq
  PROVE  /\ RemoveAt(seq, k) \in Seq(S)
         /\ IsInjective(seq) => IsInjective(RemoveAt(seq, k))
         /\ Range(seq) \subseteq Range(RemoveAt(seq, k)) \cup {seq[k]}
<1>. DEFINE new == RemoveAt(seq, k)
<1>1. Len(seq) \in Nat /\ DOMAIN seq = 1 .. Len(seq) /\ \A i \in 1 .. Len(seq) : seq[i] \in S
  BY LenProperties, ElementOfSeq
<1>2. /\ SubSeq(seq, 1, k - 1) \in Seq(S) /\ Len(SubSeq(seq, 1, k - 1)) = k - 1
      /\ \A i \in 1 .. k - 1 : SubSeq(seq, 1, k - 1)[i] = seq[i]
  <2>1. k \in Int /\ k >= 1 /\ k - 1 \in Int /\ \A i \in 1 .. k - 1 : seq[i] \in S
    BY <1>1
  <2>2. QED
    BY <2>1, SubSeqProperties
<1>3. /\ SubSeq(seq, k + 1, Len(seq)) \in Seq(S) /\ Len(SubSeq(seq, k + 1, Len(seq))) = Len(seq) - k
      /\ \A i \in 1 .. Len(seq) - k : SubSeq(seq, k + 1, Len(seq))[i] = seq[k + i]
  <2>1. k + 1 \in Int /\ \A i \in k + 1 .. Len(seq) : seq[i] \in S
    BY <1>1
  <2>2. QED
    BY <1>1, <2>1, SubSeqProperties
<1>4. /\ new \in Seq(S) /\ Len(new) = Len(seq) - 1 /\ DOMAIN new = 1 .. Len(seq) - 1
      /\ \A i \in 1 .. Len(seq) - 1 : new[i] = seq[IF i < k THEN i ELSE i + 1]
  <2>. DEFINE left == SubSeq(seq, 1, k - 1)
              right == SubSeq(seq, k + 1, Len(seq))
  <2>1. /\ new \in Seq(S) /\ Len(new) = Len(left) + Len(right)
        /\ \A i \in 1 .. Len(left) + Len(right) :
             new[i] = IF i <= Len(left) THEN left[i] ELSE right[i - Len(left)]
    BY <1>2, <1>3, ConcatProperties DEF RemoveAt
  <2>2. k \in Int /\ k >= 1 /\ k <= Len(seq) /\ Len(left) = k - 1 /\ Len(right) = Len(seq) - k
    BY <1>1, <1>2, <1>3
  <2>3. (\A i \in 1 .. k - 1 : left[i] = seq[i]) /\ \A i \in 1 .. Len(seq) - k : right[i] = seq[k + i]
    BY <1>2, <1>3
  <2>. HIDE DEF new, left, right
  <2>4. Len(new) = Len(seq) - 1
    BY <1>1, <2>1, <2>2
  <2>5. ASSUME NEW i \in 1 .. Len(seq) - 1 PROVE new[i] = seq[IF i < k THEN i ELSE i + 1]
    <3>1. new[i] = IF i <= k - 1 THEN left[i] ELSE right[i - (k - 1)]
      BY <1>1, <2>1, <2>2
    <3>2. CASE i < k
      <4>1. i \in 1 .. k - 1 /\ i <= k - 1
        BY <3>2, <1>1, <2>2
      <4>2. QED
        BY <3>1, <3>2, <4>1, <2>3
    <3>3. CASE ~(i < k)
      <4>1. i - (k - 1) \in 1 .. Len(seq) - k /\ k + (i - (k - 1)) = i + 1 /\ ~(i <= k - 1)
        BY <3>3, <1>1, <2>2
      <4>2. right[i - (k - 1)] = seq[k + (i - (k - 1))]
        BY <4>1, <2>3
      <4>3. QED
        BY <3>1, <3>3, <4>1, <4>2
    <3>4. QED
      BY <3>2, <3>3
  <2>6. DOMAIN new = 1 .. Len(seq) - 1
    BY <2>1, <2>4, LenProperties
  <2>7. QED
    BY <2>1, <2>4, <2>5, <2>6
<1>. HIDE DEF new
<1>5. IsInjective(seq) => IsInjective(new)
  <2>. SUFFICES ASSUME IsInjective(seq), NEW i \in 1 .. Len(seq) - 1, NEW j \in 1 .. Len(seq) - 1,
                       new[i] = new[j]
                PROVE  i = j
    BY <1>4 DEF IsInjective
  <2>. DEFINE at(n) == IF n < k THEN n ELSE n + 1
  <2>1. at(i) \in DOMAIN seq /\ at(j) \in DOMAIN seq
    BY <1>1
  <2>2. seq[at(i)] = seq[at(j)]
    BY <1>4
  <2>3. at(i) = at(j)
    BY <2>1, <2>2 DEF IsInjective
  <2>4. QED
    BY <2>3, <1>1
<1>6. \A j \in 1 .. Len(seq) : j # k => seq[j] \in Range(new)
  <2>. SUFFICES ASSUME NEW j \in 1 .. Len(seq), j # k PROVE seq[j] \in Range(new)
    OBVIOUS
  <2>1. CASE j < k
    <3>1. j \in 1 .. Len(seq) - 1 /\ new[j] = seq[j]
      BY <2>1, <1>1, <1>4
    <3>2. QED
      BY <3>1, <1>4 DEF Range
  <2>2. CASE j > k
    <3>1. j - 1 \in 1 .. Len(seq) - 1 /\ new[j - 1] = seq[j]
      BY <2>2, <1>1, <1>4
    <3>2. QED
      BY <3>1, <1>4 DEF Range
  <2>3. QED
    BY <2>1, <2>2, <1>1
<1>7. Range(seq) \subseteq Range(new) \cup {seq[k]}
  BY <1>1, <1>6 DEF Range
<1>8. QED
  BY <1>4, <1>5, <1>7 DEF new

\* What a restore may bring.
LEMMA RestoredLists ==
  ASSUME NEW list \in RelayLists
  PROVE  list \in Seq(Relays) /\ IsInjective(list)
<1>1. PICK n \in Nat : list \in [1 .. n -> Relays]
  BY DEF RelayLists, BoundedSeq, SeqOf
<1>2. QED
  BY <1>1 DEF RelayLists

-----------------------------------------------------------------------------
(* The invariant *)

\* A fresh page has no relays and no draft.
LEMMA DialogsInitIInv == ASSUME DialogsAssumption, DialogsInit PROVE DialogsIInv
  BY EmptySeq DEF DialogsInit, DialogsIInv, Types, RelaysDistinct, IsInjective, B1Draft

\* The operations that no scheme changes: typing, taking a tag out of the
\* draft, the SOCKS5 dialog, and a page that is gone.
LEMMA TypeKeeps ==
  ASSUME DialogsIInv, UNCHANGED scheme, NEW inputs, inputs \subseteq Seq(Texts), Type(inputs)
  PROVE  DialogsIInv'
  BY DEF Type, page, DialogsIInv, Types, RelaysDistinct, B1Draft

LEMMA DropTagKeeps ==
  ASSUME DialogsAssumption, DialogsIInv, UNCHANGED scheme, NEW k \in 1 .. MaxTags, DropTag(k)
  PROVE  DialogsIInv'
<1>1. draft \in Seq(Texts) /\ k \in DOMAIN draft /\ draft' = RemoveAt(draft, k)
  BY DEF DropTag, DialogsIInv, Types
<1>2. draft' \in Seq(Texts)
  BY <1>1, Removes
<1>3. Types' /\ RelaysDistinct'
  BY <1>2 DEF DropTag, page, DialogsIInv, Types, RelaysDistinct, DialogsAssumption
<1>4. ASSUME scheme = "b1"
      PROVE  /\ draft' \in Seq(Relays) /\ IsInjective(draft')
             /\ late' \/ Range(relays') \subseteq Range(draft') \cup dropped'
  <2>1. draft # NoDraft /\ dropped' = dropped \cup {draft[k]} /\ UNCHANGED <<relays, late>>
    BY <1>4 DEF DropTag, page, DialogsIInv, Types
  <2>2. draft \in Seq(Relays) /\ IsInjective(draft)
        /\ (late \/ Range(relays) \subseteq Range(draft) \cup dropped)
    BY <1>4, <2>1 DEF DialogsIInv, B1Draft
  <2>3. draft' \in Seq(Relays) /\ IsInjective(draft')
    BY <1>1, <2>2, Removes
  <2>4. Range(draft) \subseteq Range(draft') \cup {draft[k]}
    BY <1>1, Removes
  <2>5. QED
    BY <2>1, <2>2, <2>3, <2>4
<1>5. QED
  BY <1>3, <1>4 DEF DialogsIInv, B1Draft

LEMMA SocksKeeps ==
  ASSUME DialogsIInv, UNCHANGED scheme, SocksDialog
  PROVE  DialogsIInv'
<1>1. UNCHANGED <<relays, entry>> /\ (dialog' = "relays" => dialog = "relays")
  BY DEF SocksDialog, DefaultSocksDialog, B1SocksDialog, B2SocksDialog, C1SocksDialog,
         C2SocksDialog, SubmitInUpdater, SubmitSocks, CloseSocks, FillForm, Crash, page
<1>2. QED
  BY <1>1 DEF entry, DialogsIInv, Types, RelaysDistinct, B1Draft

LEMMA CrashKeeps ==
  ASSUME DialogsIInv, UNCHANGED scheme, Crash
  PROVE  DialogsIInv'
  BY DEF Crash, page, entry, DialogsIInv, Types, RelaysDistinct, B1Draft

\* What is typed is a list of texts.
LEMMA TextsTyped == Single \subseteq Seq(Texts) /\ Several \subseteq Seq(Texts)
<1>1. <<>> \in Seq(Texts)
  BY EmptySeq
<1>2. \A t \in Texts : <<t>> \in Seq(Texts)
  OBVIOUS
<1>3. \A t, u \in Texts : <<t, u>> \in Seq(Texts)
  OBVIOUS
<1>4. Single \subseteq Seq(Texts)
  BY <1>1, <1>2 DEF Single
<1>5. \A list \in Several : list \in Seq(Texts)
  <2>. SUFFICES ASSUME NEW list \in Several, list \notin Single PROVE list \in Seq(Texts)
    BY <1>4
  <2>1. PICK t \in Texts, u \in Texts : list = <<t, u>>
    BY DEF Several
  <2>2. QED
    BY <2>1, <1>3
<1>6. QED
  BY <1>4, <1>5

\* The relay dialogs of the schemes that append.
LEMMA DefaultKeeps ==
  ASSUME DialogsAssumption, DialogsIInv, UNCHANGED scheme, DefaultRelayDialog
  PROVE  DialogsIInv'
<1>. USE DEF DialogsIInv
<1>1. scheme # "b1" /\ draft \in Seq(Texts) \cup {NoDraft} /\ typed \in Seq(Texts)
      /\ relays \in Seq(Relays) /\ IsInjective(relays)
  BY DEF DefaultRelayDialog, Types, RelaysDistinct
<1>2. CASE Type(Several)
  BY <1>2, TextsTyped, TypeKeeps
<1>3. ASSUME draft # NoDraft, CanAppend(draft \o relays, typed)
      PROVE  draft \o Normal(typed) \in Seq(Texts)
  <2>1. Normal(typed) \in Seq(Relays)
    <3>1. typed \in [1 .. Len(typed) -> Texts] /\ Len(typed) \in Nat
      BY <1>1, LenProperties
    <3>2. \A k \in 1 .. Len(typed) : Norm[typed[k]] \in Relays
      BY <1>3, <3>1 DEF CanAppend, DialogsAssumption
    <3>3. QED
      BY <3>1, <3>2 DEF Normal
  <2>2. Normal(typed) \in Seq(Texts)
    BY <2>1, SeqMonotonic DEF DialogsAssumption
  <2>3. QED
    BY <1>1, <1>3, <2>2, ConcatProperties
<1>4. CASE AddDefault
  <2>1. dialog = "relays" /\ draft # NoDraft
    BY <1>4 DEF AddDefault, AddTyped, Types
  <2>2. draft' \in Seq(Texts) /\ typed' \in Seq(Texts) /\ UNCHANGED <<relays, dialog>>
    BY <1>1, <1>3, <1>4, <2>1, EmptySeq DEF AddDefault, AddTyped, page
  <2>3. QED
    BY <1>1, <2>2, DialogsAssumption DEF Types, RelaysDistinct, B1Draft, DialogsAssumption
<1>5. CASE \E k \in 1 .. MaxTags : DropTag(k)
  BY <1>5, DropTagKeeps
<1>6. CASE CloseRelays(draft, <<>>)
  BY <1>1, <1>6, EmptySeq DEF CloseRelays, page, Types, RelaysDistinct, B1Draft
<1>7. CASE ConfirmDefault
  <2>. DEFINE joined == IF CanAppend(draft \o relays, typed) THEN draft \o Normal(typed) ELSE draft
  <2>1. draft \in Seq(Texts) /\ draft # NoDraft /\ typed' = <<>> /\ typed' \in Seq(Texts)
    BY <1>1, <1>7, EmptySeq DEF ConfirmDefault, Types
  <2>2. joined \in Seq(Texts)
    BY <1>1, <1>3, <2>1
  <2>. HIDE DEF joined
  <2>3. \/ CanAppend(relays, joined) /\ Confirmed(Appended(relays, joined))
        \/ draft' = joined /\ UNCHANGED <<relays, dialog>>
    BY <1>7 DEF ConfirmDefault, page, joined
  <2>4. CASE CanAppend(relays, joined) /\ Confirmed(Appended(relays, joined))
    <3>1. relays' \in Seq(Relays) /\ IsInjective(relays')
      BY <1>1, <2>2, <2>4, Appends DEF Confirmed
    <3>2. QED
      BY <1>1, <2>1, <2>4, <3>1 DEF Confirmed, Types, RelaysDistinct, B1Draft
  <2>5. CASE draft' = joined /\ UNCHANGED <<relays, dialog>>
    BY <1>1, <2>1, <2>2, <2>5 DEF Types, RelaysDistinct, B1Draft, DialogsAssumption
  <2>6. QED
    BY <2>3, <2>4, <2>5
<1>8. QED
  BY <1>2, <1>4, <1>5, <1>6, <1>7 DEF DefaultRelayDialog

\* b1's draft stays a list of distinct relays, and takes the page's place.
LEMMA B1Keeps ==
  ASSUME DialogsAssumption, DialogsIInv, UNCHANGED scheme, B1RelayDialog
  PROVE  DialogsIInv'
<1>. USE DEF DialogsIInv
<1>1. scheme = "b1" /\ typed \in Seq(Texts) /\ relays \in Seq(Relays) /\ IsInjective(relays)
  BY DEF B1RelayDialog, Types, RelaysDistinct
<1>2. \A list \in Seq(Relays) : list \in Seq(Texts)
  BY SeqMonotonic DEF DialogsAssumption
<1>3. NoDraft \notin Seq(Texts)
  BY DEF DialogsAssumption
<1>4. ASSUME draft # NoDraft
      PROVE  /\ draft \in Seq(Relays) /\ IsInjective(draft)
             /\ late \/ Range(relays) \subseteq Range(draft) \cup dropped
  BY <1>1, <1>4 DEF B1Draft
<1>5. CASE Type(Single)
  BY <1>5, TextsTyped, TypeKeeps
<1>6. CASE AddTyped(CanAppend(draft, typed), Normal(typed), typed)
  <2>1. draft # NoDraft /\ UNCHANGED <<relays, dialog, late, dropped>> /\ typed' \in Seq(Texts)
    BY <1>1, <1>6, EmptySeq DEF AddTyped, page, Types
  <2>2. CASE CanAppend(draft, typed)
    <3>1. draft' = Appended(draft, typed)
      BY <1>6, <2>2 DEF AddTyped, Appended
    <3>2. draft' \in Seq(Relays) /\ IsInjective(draft') /\ Range(draft) \subseteq Range(draft')
      BY <1>1, <1>4, <2>1, <2>2, <3>1, Appends
    <3>3. QED
      BY <1>1, <1>2, <1>3, <1>4, <2>1, <3>2 DEF Types, RelaysDistinct, B1Draft
  <2>3. CASE ~CanAppend(draft, typed)
    <3>1. draft' = draft
      BY <1>6, <2>3 DEF AddTyped
    <3>2. QED
      BY <1>1, <2>1, <3>1 DEF Types, RelaysDistinct, B1Draft
  <2>4. QED
    BY <2>2, <2>3
<1>7. CASE \E k \in 1 .. MaxTags : DropTag(k)
  BY <1>7, DropTagKeeps
<1>8. CASE CloseRelays(draft, typed)
  BY <1>1, <1>8 DEF CloseRelays, page, Types, RelaysDistinct, B1Draft
<1>9. CASE ConfirmB1
  <2>1. draft \in Seq(Relays) /\ IsInjective(draft)
    BY <1>4, <1>9 DEF ConfirmB1, Types
  <2>2. QED
    BY <1>1, <1>9, <2>1 DEF ConfirmB1, Confirmed, Types, RelaysDistinct, B1Draft
<1>10. QED
  BY <1>5, <1>6, <1>7, <1>8, <1>9 DEF B1RelayDialog

\* b2 and c2 keep texts as they were typed.
LEMMA AsTypedKeeps ==
  ASSUME DialogsAssumption, DialogsIInv, UNCHANGED scheme, scheme # "b1", AddAsTyped
  PROVE  DialogsIInv'
<1>. USE DEF DialogsIInv
<1>1. draft \in Seq(Texts) /\ typed \in Seq(Texts)
  BY DEF AddAsTyped, AddTyped, Types
<1>2. draft' \in Seq(Texts) /\ typed' \in Seq(Texts) /\ UNCHANGED <<relays, dialog>>
  BY <1>1, EmptySeq, ConcatProperties DEF AddAsTyped, AddTyped, page
<1>3. QED
  BY <1>2 DEF Types, RelaysDistinct, B1Draft, DialogsAssumption

\* Appending what can be appended is safe whatever the draft holds.
LEMMA ConfirmedKeeps ==
  ASSUME DialogsAssumption, DialogsIInv, UNCHANGED scheme, scheme # "b1",
         \E texts \in Seq(Texts) : CanAppend(relays, texts) /\ Confirmed(Appended(relays, texts)),
         typed' = <<>>
  PROVE  DialogsIInv'
<1>. USE DEF DialogsIInv
<1>1. relays \in Seq(Relays) /\ IsInjective(relays)
  BY DEF Types, RelaysDistinct
<1>2. relays' \in Seq(Relays) /\ IsInjective(relays')
  BY <1>1, Appends DEF Confirmed
<1>3. QED
  BY <1>2, EmptySeq DEF Confirmed, Types, RelaysDistinct, B1Draft

LEMMA B2Keeps ==
  ASSUME DialogsAssumption, DialogsIInv, UNCHANGED scheme, B2RelayDialog
  PROVE  DialogsIInv'
<1>1. scheme # "b1"
  BY DEF B2RelayDialog
<1>2. CASE Type(Single)
  BY <1>2, TextsTyped, TypeKeeps
<1>3. CASE AddAsTyped
  BY <1>1, <1>3, AsTypedKeeps
<1>4. CASE \E k \in 1 .. MaxTags : DropTag(k)
  BY <1>4, DropTagKeeps
<1>5. CASE CloseRelays(NoDraft, <<>>)
  BY <1>1, <1>5, EmptySeq DEF CloseRelays, page, DialogsIInv, Types, RelaysDistinct, B1Draft
<1>6. CASE ConfirmB2
  <2>1. CASE CanAppend(relays, draft)
    <3>1. draft \in Seq(Texts)
      BY <1>6 DEF ConfirmB2, DialogsIInv, Types
    <3>2. Confirmed(Appended(relays, draft)) /\ typed' = <<>>
      BY <1>6, <2>1 DEF ConfirmB2
    <3>3. QED
      BY <1>1, <2>1, <3>1, <3>2, ConfirmedKeeps
  <2>2. CASE ~CanAppend(relays, draft)
    BY <1>6, <2>2, CrashKeeps DEF ConfirmB2
  <2>3. QED
    BY <2>1, <2>2
<1>7. QED
  BY <1>2, <1>3, <1>4, <1>5, <1>6 DEF B2RelayDialog

LEMMA C1Keeps ==
  ASSUME DialogsAssumption, DialogsIInv, UNCHANGED scheme, C1RelayDialog
  PROVE  DialogsIInv'
<1>1. scheme # "b1"
  BY DEF C1RelayDialog
<1>2. CASE Type(Single)
  BY <1>2, TextsTyped, TypeKeeps
<1>3. CASE CloseRelays(NoDraft, typed)
  BY <1>1, <1>3 DEF CloseRelays, page, DialogsIInv, Types, RelaysDistinct, B1Draft
<1>4. CASE ConfirmC1
  <2>1. typed \in Seq(Texts)
    BY DEF DialogsIInv, Types
  <2>2. QED
    BY <1>1, <1>4, <2>1, ConfirmedKeeps DEF ConfirmC1
<1>5. QED
  BY <1>2, <1>3, <1>4 DEF C1RelayDialog

LEMMA C2Keeps ==
  ASSUME DialogsAssumption, DialogsIInv, UNCHANGED scheme, C2RelayDialog
  PROVE  DialogsIInv'
<1>1. scheme # "b1"
  BY DEF C2RelayDialog
<1>2. CASE Type(Single)
  BY <1>2, TextsTyped, TypeKeeps
<1>3. CASE AddAsTyped
  BY <1>1, <1>3, AsTypedKeeps
<1>4. CASE \E k \in 1 .. MaxTags : DropTag(k)
  BY <1>4, DropTagKeeps
<1>5. CASE CloseRelays(draft, typed)
  BY <1>1, <1>5 DEF CloseRelays, page, DialogsIInv, Types, RelaysDistinct, B1Draft
<1>6. CASE ConfirmC2
  <2>1. draft \in Seq(Texts)
    BY <1>6 DEF ConfirmC2, DialogsIInv, Types
  <2>2. QED
    BY <1>1, <1>6, <2>1, ConfirmedKeeps DEF ConfirmC2
<1>7. QED
  BY <1>2, <1>3, <1>4, <1>5, <1>6 DEF C2RelayDialog

LEMMA DialogKeeps ==
  ASSUME DialogsAssumption, DialogsIInv, UNCHANGED scheme, RelayDialog
  PROVE  DialogsIInv'
  BY DefaultKeeps, B1Keeps, B2Keeps, C1Keeps, C2Keeps DEF RelayDialog

-----------------------------------------------------------------------------
(* The page around the dialogs *)

\* A dialog opens with the draft that was kept, or with a new one.
LEMMA OpenKeeps ==
  ASSUME DialogsAssumption, DialogsIInv, UNCHANGED scheme,
         \/ scheme # "b1" /\ (OpenRelays(<<>>) \/ OpenRelays(Kept(<<>>)))
         \/ OpenRelays(Kept(relays))
  PROVE  DialogsIInv'
<1>. USE DEF DialogsIInv
<1>1. relays \in Seq(Relays) /\ IsInjective(relays) /\ UNCHANGED <<relays, typed, late>>
  BY DEF OpenRelays, page, Types, RelaysDistinct
<1>2. relays \in Seq(Texts) /\ <<>> \in Seq(Texts) /\ NoDraft \notin Seq(Texts)
  BY <1>1, SeqMonotonic, EmptySeq DEF DialogsAssumption
<1>3. draft' \in Seq(Texts)
  BY <1>2 DEF OpenRelays, Kept, Types
<1>4. ASSUME scheme = "b1"
      PROVE  /\ draft' \in Seq(Relays) /\ IsInjective(draft')
             /\ late' \/ Range(relays') \subseteq Range(draft') \cup dropped'
  BY <1>1, <1>4 DEF OpenRelays, Kept, B1Draft
<1>5. QED
  BY <1>1, <1>2, <1>3, <1>4 DEF Types, RelaysDistinct, B1Draft

\* A relay that is taken from the page takes b1's draft with it.
LEMMA RemovalKeeps ==
  ASSUME DialogsIInv, UNCHANGED scheme, (scheme # "b1" /\ AnyRemoval) \/ AnyRemovalB1
  PROVE  DialogsIInv'
<1>. USE DEF DialogsIInv
<1>1. relays \in Seq(Relays) /\ IsInjective(relays)
  BY DEF Types, RelaysDistinct
<1>2. PICK k \in DOMAIN relays : RemoveRelay(k)
  BY DEF AnyRemoval, AnyRemovalB1, RemoveRelay
<1>3. relays' \in Seq(Relays) /\ IsInjective(relays')
  BY <1>1, <1>2, Removes DEF RemoveRelay
<1>4. UNCHANGED <<typed, dialog>> /\ dialog = "none"
  BY <1>2 DEF RemoveRelay
<1>5. QED
  BY <1>3, <1>4 DEF AnyRemoval, AnyRemovalB1, Types, RelaysDistinct, B1Draft

LEMMA InputsKeep ==
  ASSUME DialogsAssumption, DialogsIInv, UNCHANGED scheme, Inputs
  PROVE  DialogsIInv'
<1>1. CASE EditLanding
  BY <1>1 DEF EditLanding, entry, DialogsIInv, Types, RelaysDistinct, B1Draft
<1>2. CASE OpenSocks
  BY <1>2 DEF OpenSocks, page, entry, DialogsIInv, Types, RelaysDistinct, B1Draft
<1>3. CASE \/ scheme # "b1" /\ (OpenRelays(<<>>) \/ OpenRelays(Kept(<<>>)))
           \/ OpenRelays(Kept(relays))
  BY <1>3, OpenKeeps
<1>4. CASE (scheme # "b1" /\ AnyRemoval) \/ AnyRemovalB1
  BY <1>4, RemovalKeeps
<1>5. QED
  BY <1>1, <1>2, <1>3, <1>4
     DEF Inputs, DefaultInputs, B1Inputs, B2Inputs, C1Inputs, C2Inputs

\* A reset, a restore and a reload.
LEMMA PageKeeps ==
  ASSUME DialogsAssumption, DialogsIInv, UNCHANGED scheme, ResetStage1 \/ Answers \/ Reload
  PROVE  DialogsIInv'
<1>. USE DEF DialogsIInv
<1>1. <<>> \in Seq(Relays) /\ <<>> \in Seq(Texts) /\ IsInjective(<<>>)
  BY EmptySeq DEF IsInjective
<1>2. CASE ResetStage1
  BY <1>1, <1>2 DEF ResetStage1, entry, Types, RelaysDistinct, B1Draft
<1>3. CASE StartRestore \/ RestoreFails
  BY <1>3 DEF StartRestore, RestoreFails, page, entry, Types, RelaysDistinct, B1Draft
<1>4. CASE RestoreArrives
  <2>1. relays' \in Seq(Relays) /\ IsInjective(relays')
    BY <1>4, RestoredLists DEF RestoreArrives
  <2>2. QED
    BY <1>4, <2>1 DEF RestoreArrives, Types, RelaysDistinct, B1Draft
<1>5. CASE Reload
  BY <1>1, <1>5 DEF Reload, Types, RelaysDistinct, B1Draft
<1>6. QED
  BY <1>2, <1>3, <1>4, <1>5 DEF Answers

LEMMA DialogsNextIInv ==
  ASSUME DialogsAssumption, DialogsIInv, [DialogsNext]_dialogsVars
  PROVE  DialogsIInv'
<1>1. CASE DialogsNext
  BY <1>1, DialogKeeps, SocksKeeps, InputsKeep, PageKeeps DEF DialogsNext
<1>2. CASE UNCHANGED dialogsVars
  BY <1>2 DEF dialogsVars, page, entry, DialogsIInv, Types, RelaysDistinct, B1Draft
<1>3. QED
  BY <1>1, <1>2

-----------------------------------------------------------------------------
(* Theorems *)

\* The page and b1's draft hold each relay once, and the draft has all of the
\* page's but for those that were taken out of it or came later.
THEOREM DialogsInductive == ASSUME DialogsAssumption PROVE DialogsSpec => []DialogsIInv
  BY DialogsInitIInv, DialogsNextIInv, PTL DEF DialogsSpec

\* The page has each relay once, in every scheme (appendForwardRelayItems and
\* b1's dialog, which replaces the list).
THEOREM RelaysStayDistinct == ASSUME DialogsAssumption PROVE DialogsSpec => []RelaysDistinct
<1>1. DialogsIInv => RelaysDistinct
  BY DEF DialogsIInv
<1>2. QED
  BY <1>1, DialogsInductive, PTL

\* Three of the ten dialogs can take the page down, whatever is typed into
\* them: only those submit inside an updater (handleForwardRelaySubmit of b2,
\* the SOCKS5 dialogs of c1 and c2).
THEOREM Crashes == DialogsSpec => []OnlyUpdatersCrash
<1>1. DialogsInit => OnlyUpdatersCrash
  BY DEF DialogsInit, OnlyUpdatersCrash
<1>2. ASSUME OnlyUpdatersCrash, [DialogsNext]_dialogsVars PROVE OnlyUpdatersCrash'
  <2>1. CASE UNCHANGED dialogsVars
    BY <1>2, <2>1 DEF dialogsVars, OnlyUpdatersCrash
  <2>2. CASE crashed /\ Reload
    BY <2>2 DEF Reload, OnlyUpdatersCrash
  <2>3. CASE ~crashed /\ UNCHANGED scheme /\ RelayDialog
    <3>1. CASE ConfirmB2 /\ scheme = "b2"
      BY <2>3, <3>1 DEF ConfirmB2, Confirmed, Crash, OnlyUpdatersCrash
    <3>2. CASE crashed' = crashed
      BY <2>3, <3>2 DEF OnlyUpdatersCrash
    <3>3. crashed' = crashed \/ (ConfirmB2 /\ scheme = "b2")
      BY <2>3 DEF RelayDialog, DefaultRelayDialog, B1RelayDialog, B2RelayDialog, C1RelayDialog,
                  C2RelayDialog, Type, AddDefault, AddAsTyped, AddTyped, DropTag, CloseRelays,
                  ConfirmDefault, ConfirmB1, ConfirmC1, ConfirmC2, Confirmed
    <3>4. QED
      BY <3>1, <3>2, <3>3
  <2>4. CASE ~crashed /\ UNCHANGED scheme /\ SocksDialog
    <3>1. CASE dialog = "socks" /\ Crash /\ scheme \in {"c1", "c2"}
      BY <2>4, <3>1 DEF Crash, OnlyUpdatersCrash
    <3>2. CASE crashed' = crashed
      BY <2>4, <3>2 DEF OnlyUpdatersCrash
    <3>3. crashed' = crashed \/ (dialog = "socks" /\ Crash /\ scheme \in {"c1", "c2"})
      BY <2>4 DEF SocksDialog, DefaultSocksDialog, B1SocksDialog, B2SocksDialog, C1SocksDialog,
                  C2SocksDialog, SubmitInUpdater, SubmitSocks, CloseSocks, FillForm
    <3>4. QED
      BY <3>1, <3>2, <3>3
  <2>5. CASE ~crashed /\ UNCHANGED scheme /\ (Inputs \/ ResetStage1 \/ Answers)
    <3>1. crashed' = crashed
      BY <2>5 DEF Inputs, DefaultInputs, B1Inputs, B2Inputs, C1Inputs, C2Inputs, EditLanding,
                  OpenSocks, OpenRelays, AnyRemoval, AnyRemovalB1, RemoveRelay, ResetStage1,
                  Answers, StartRestore, RestoreArrives, RestoreFails
    <3>2. QED
      BY <2>5, <3>1 DEF OnlyUpdatersCrash
  <2>6. QED
    BY <1>2, <2>1, <2>2, <2>3, <2>4, <2>5 DEF DialogsNext
<1>3. QED
  BY <1>1, <1>2, PTL DEF DialogsSpec

\* A list begins with itself.
LEMMA OwnPrefix == ASSUME NEW S, NEW list \in Seq(S) PROVE IsPrefix(list, list)
<1>1. Len(list) \in Nat
  BY LenProperties
<1>2. QED
  BY <1>1 DEF IsPrefix

\* Confirming the relay dialog takes no relay from the page (b1 replaces the
\* list, the others append to it).
THEOREM LosesNothing == ASSUME DialogsAssumption PROVE DialogsSpec => ConfirmLosesNothing
<1>. DEFINE Kind ==
       IF scheme = "b1" THEN late \/ Range(relays) \subseteq Range(relays') \cup dropped
       ELSE IsPrefix(relays, relays')
<1>1. ASSUME DialogsIInv, DialogsNext, dialog = "relays", dialog' = "none", ~crashed PROVE Kind
  <2>1. relays \in Seq(Relays) /\ IsInjective(relays) /\ typed \in Seq(Texts)
        /\ draft \in Seq(Texts) /\ draft # NoDraft
    BY <1>1 DEF DialogsIInv, Types, RelaysDistinct
  <2>2. CASE relays' = relays
    <3>1. IsPrefix(relays, relays)
      BY <2>1, OwnPrefix
    <3>2. QED
      BY <2>2, <3>1
  <2>3. CASE scheme = "b1" /\ ConfirmB1
    BY <1>1, <2>1, <2>3 DEF ConfirmB1, Confirmed, DialogsIInv, B1Draft
  <2>4. CASE /\ scheme # "b1"
             /\ \E texts \in Seq(Texts) : CanAppend(relays, texts) /\ relays' = Appended(relays, texts)
    <3>1. PICK texts \in Seq(Texts) : CanAppend(relays, texts) /\ relays' = Appended(relays, texts)
      BY <2>4
    <3>2. IsPrefix(relays, Appended(relays, texts))
      BY <2>1, <3>1, Appends
    <3>3. QED
      BY <2>4, <3>1, <3>2
  <2>5. CASE DefaultRelayDialog
    <3>1. CASE ConfirmDefault
      <4>. DEFINE joined == IF CanAppend(draft \o relays, typed) THEN draft \o Normal(typed) ELSE draft
      <4>1. CanAppend(relays, joined) /\ relays' = Appended(relays, joined) /\ scheme # "b1"
        BY <1>1, <2>5, <3>1 DEF DefaultRelayDialog, ConfirmDefault, Confirmed
      <4>2. joined \in Seq(Texts)
        <5>1. CASE CanAppend(draft \o relays, typed)
          <6>1. typed \in [1 .. Len(typed) -> Texts] /\ Len(typed) \in Nat
            BY <2>1, LenProperties
          <6>2. \A k \in 1 .. Len(typed) : Norm[typed[k]] \in Relays
            BY <5>1, <6>1 DEF CanAppend, DialogsAssumption
          <6>3. Normal(typed) \in Seq(Relays)
            BY <6>1, <6>2 DEF Normal
          <6>4. Normal(typed) \in Seq(Texts)
            BY <6>3, SeqMonotonic DEF DialogsAssumption
          <6>5. QED
            BY <2>1, <5>1, <6>4, ConcatProperties
        <5>2. QED
          BY <2>1, <5>1
      <4>. HIDE DEF joined
      <4>3. QED
        BY <2>4, <4>1, <4>2
    <3>2. CASE ~ConfirmDefault
      BY <1>1, <2>2, <2>5, <3>2
         DEF DefaultRelayDialog, Type, AddDefault, AddTyped, DropTag, CloseRelays, page
    <3>3. QED
      BY <3>1, <3>2
  <2>6. CASE B1RelayDialog
    BY <2>2, <2>3, <2>6 DEF B1RelayDialog, Type, AddTyped, DropTag, CloseRelays, page
  <2>7. CASE B2RelayDialog
    BY <1>1, <2>1, <2>2, <2>4, <2>7
       DEF B2RelayDialog, Type, AddAsTyped, AddTyped, DropTag, CloseRelays, ConfirmB2, Confirmed, Crash, page
  <2>8. CASE C1RelayDialog
    BY <1>1, <2>1, <2>2, <2>4, <2>8 DEF C1RelayDialog, Type, CloseRelays, ConfirmC1, Confirmed, page
  <2>9. CASE C2RelayDialog
    BY <1>1, <2>1, <2>2, <2>4, <2>9
       DEF C2RelayDialog, Type, AddAsTyped, AddTyped, DropTag, CloseRelays, ConfirmC2, Confirmed, page
  <2>10. ~SocksDialog /\ ~ResetStage1 /\ ~StartRestore /\ ~Inputs
    BY <1>1 DEF SocksDialog, DefaultSocksDialog, B1SocksDialog, B2SocksDialog, C1SocksDialog,
         C2SocksDialog, SubmitInUpdater, SubmitSocks, CloseSocks, FillForm, ResetStage1, StartRestore,
         Inputs, DefaultInputs, B1Inputs, B2Inputs, C1Inputs, C2Inputs, EditLanding, OpenSocks,
         OpenRelays, AnyRemoval, AnyRemovalB1, RemoveRelay
  <2>11. ~RestoreArrives /\ ~RestoreFails
    BY <1>1 DEF RestoreArrives, RestoreFails
  <2>12. QED
    BY <1>1, <2>5, <2>6, <2>7, <2>8, <2>9, <2>10, <2>11 DEF DialogsNext, RelayDialog, Answers
<1>2. DialogsIInv /\ [DialogsNext]_dialogsVars => [dialog = "relays" /\ dialog' = "none" /\ ~crashed => Kind]_dialogsVars
  BY <1>1
<1>3. QED
  BY <1>2, DialogsInductive, PTL DEF DialogsSpec, ConfirmLosesNothing

\* What the other variables of the dialogs hold.
Rest ==
  /\ landing \in 0 .. MaxLines
  /\ dialog \in {"none", "relays", "socks"} /\ form \in {"valid", "invalid"}
  /\ dropped \subseteq Texts
  /\ {restoring, crashed, late} \subseteq BOOLEAN

\* What a relay dialog may do to them.
LEMMA RestInDialog ==
  ASSUME DialogsAssumption, DialogsIInv, Rest, UNCHANGED scheme, RelayDialog
  PROVE  Rest'
<1>1. draft \in Seq(Texts) \cup {NoDraft} /\ (dialog = "relays" => draft # NoDraft)
  BY DEF DialogsIInv, Types
<1>2. CASE \E k \in 1 .. MaxTags : DropTag(k)
  <2>1. PICK k \in 1 .. MaxTags : DropTag(k)
    BY <1>2
  <2>2. draft \in Seq(Texts) /\ k \in DOMAIN draft
    BY <1>1, <2>1 DEF DropTag
  <2>3. draft[k] \in Texts
    BY <2>2, LenProperties, ElementOfSeq
  <2>4. dropped' \subseteq Texts /\ UNCHANGED <<page, dialog, form, late, restoring, crashed>>
    BY <2>1, <2>3 DEF DropTag, Rest
  <2>. QED
    BY <2>4 DEF page, Rest
<1>3. CASE ~\E k \in 1 .. MaxTags : DropTag(k)
  <2>1. UNCHANGED <<landing, form, dropped, restoring>>
    BY <1>3 DEF RelayDialog, DefaultRelayDialog, B1RelayDialog, B2RelayDialog, C1RelayDialog,
         C2RelayDialog, Type, AddDefault, AddAsTyped, AddTyped, CloseRelays, ConfirmDefault,
         ConfirmB1, ConfirmB2, ConfirmC1, ConfirmC2, Confirmed, Crash, page, entry
  <2>2. dialog' \in {dialog, "none"} /\ late' \in {late, FALSE} /\ crashed' \in {crashed, TRUE}
    BY <1>3 DEF RelayDialog, DefaultRelayDialog, B1RelayDialog, B2RelayDialog, C1RelayDialog,
         C2RelayDialog, Type, AddDefault, AddAsTyped, AddTyped, CloseRelays, ConfirmDefault,
         ConfirmB1, ConfirmB2, ConfirmC1, ConfirmC2, Confirmed, Crash, page, entry
  <2>. QED
    BY <2>1, <2>2 DEF Rest
<1>. QED
  BY <1>2, <1>3

\* What anything else may do to them.
LEMMA RestOutside ==
  ASSUME DialogsAssumption, Rest, SocksDialog \/ Inputs \/ ResetStage1 \/ Answers \/ Reload
  PROVE  Rest'
<1>1. MaxLines \in Nat /\ 0 \in 0 .. MaxLines
  <2>1. MaxLines \in Nat
    BY DEF DialogsAssumption
  <2>. QED
    BY <2>1
<1>2. CASE SocksDialog
  <2>1. landing' \in 0 .. MaxLines
    BY <1>1, <1>2 DEF SocksDialog, DefaultSocksDialog, B1SocksDialog, B2SocksDialog, C1SocksDialog,
         C2SocksDialog, SubmitInUpdater, SubmitSocks, CloseSocks, FillForm, Crash, page, Rest
  <2>2. /\ dialog' \in {dialog, "none"} /\ form' \in {form, "valid", "invalid"} /\ crashed' \in {crashed, TRUE}
        /\ UNCHANGED <<dropped, restoring, late>>
    BY <1>2 DEF SocksDialog, DefaultSocksDialog, B1SocksDialog, B2SocksDialog, C1SocksDialog,
         C2SocksDialog, SubmitInUpdater, SubmitSocks, CloseSocks, FillForm, Crash, page, entry
  <2>. QED
    BY <2>1, <2>2 DEF Rest
<1>3. CASE Inputs
  <2>1. landing' \in 0 .. MaxLines
    BY <1>3 DEF Inputs, DefaultInputs, B1Inputs, B2Inputs, C1Inputs, C2Inputs, EditLanding, OpenSocks,
         OpenRelays, AnyRemoval, AnyRemovalB1, RemoveRelay, page, Rest
  <2>2. /\ dialog' \in {dialog, "relays", "socks"} /\ late' \in {late, FALSE} /\ dropped' \in {dropped, {}}
        /\ UNCHANGED <<form, restoring, crashed>>
    BY <1>3 DEF Inputs, DefaultInputs, B1Inputs, B2Inputs, C1Inputs, C2Inputs, EditLanding, OpenSocks,
         OpenRelays, AnyRemoval, AnyRemovalB1, RemoveRelay, page, entry
  <2>. QED
    BY <2>1, <2>2 DEF Rest
<1>4. CASE ResetStage1
  BY <1>1, <1>4 DEF ResetStage1, entry, Rest
<1>5. CASE StartRestore \/ RestoreFails
  BY <1>5 DEF StartRestore, RestoreFails, page, entry, Rest
<1>6. CASE RestoreArrives
  BY <1>6 DEF RestoreArrives, Rest
<1>7. CASE Reload
  BY <1>1, <1>7 DEF Reload, Rest
<1>. QED
  BY <1>2, <1>3, <1>4, <1>5, <1>6, <1>7 DEF Answers

\* The invariant and Rest are the types of the dialogs.
LEMMA DialogsTyped == ASSUME DialogsIInv, Rest PROVE DialogsTypeOK
  BY DEF DialogsIInv, Types, Rest, DialogsTypeOK

LEMMA DialogsInitRest == ASSUME DialogsAssumption, DialogsInit PROVE Rest
<1>1. MaxLines \in Nat
  BY DEF DialogsAssumption
<1>2. 0 \in 0 .. MaxLines
  BY <1>1
<1>. QED
  BY <1>2 DEF DialogsInit, Rest

LEMMA DialogsNextRest ==
  ASSUME DialogsAssumption, DialogsIInv, Rest, DialogsNext
  PROVE  Rest'
  BY RestInDialog, RestOutside DEF DialogsNext

-----------------------------------------------------------------------------
(* The options of stage 1 *)

LEMMA SamePicked == ASSUME NEW list, NEW places PROVE Template!Picked(list, places) = Picked(list, places)
  BY DEF Template!Picked, Picked

LEMMA TemplateInit == ASSUME Template!Init PROVE Template!TypeOK /\ FreshIsInitial
<1>1. tags \in Seq(Tags)
  BY EmptySeq DEF Template!Init
<1>. QED
  BY <1>1 DEF Template!Init, Template!TypeOK, Template!Templates, FreshIsInitial, Template!FreshIsInitial,
              Template!AtInitial, Template!Baseline

\* The tags stay a list of tags.
LEMMA TagsTyped ==
  ASSUME Template!TypeOK, Template!Next
  PROVE  tags' \in Seq(Tags)
<1>1. tags \in Seq(Tags)
  BY DEF Template!TypeOK
<1>2. CASE Template!AddTag
  <2>1. PICK t \in Tags : tags' = Append(tags, t)
    BY <1>2 DEF Template!AddTag, Template!SetTags
  <2>. QED
    BY <1>1, <2>1, AppendProperties
<1>3. CASE Template!RemoveTagAt
  <2>1. PICK k \in DOMAIN tags : tags' = RemoveAt(tags, k)
    BY <1>3 DEF Template!RemoveTagAt, Template!SetTags, Template!RemoveAt, RemoveAt
  <2>. QED
    BY <1>1, <2>1, Removes
<1>4. CASE Template!RemoveTag
  <2>1. PICK t \in Template!Range(tags) : tags' = Template!Those(tags, LAMBDA u : u # t)
    BY <1>4 DEF Template!RemoveTag, Template!SetTags
  <2>2. tags' = Picked(tags, {i \in DOMAIN tags : tags[i] # t})
    BY <2>1, SamePicked DEF Template!Those
  <2>. QED
    BY <1>1, <2>2, Chosen
<1>5. CASE Template!RestoreArrives
  <2>1. PICK n \in Nat : tags' \in [1 .. n -> Tags]
    BY <1>5 DEF Template!RestoreArrives, Template!TagLists, Template!BoundedSeq, Template!SeqOf
  <2>. QED
    BY <2>1
<1>6. CASE Template!ResetStage1
  BY <1>6, EmptySeq DEF Template!ResetStage1
<1>7. CASE UNCHANGED tags
  BY <1>1, <1>7
<1>. QED
  BY <1>2, <1>3, <1>4, <1>5, <1>6, <1>7
     DEF Template!Next, Template!TemplateRow, Template!DefaultTemplateRow, Template!B1TemplateRow,
         Template!B2TemplateRow, Template!C1TemplateRow, Template!C2TemplateRow, Template!SetTemplate,
         Template!RestoreTemplate, Template!Options, Template!DefaultOptions, Template!B1Options,
         Template!B2Options, Template!C1Options, Template!C2Options, Template!Toggle, Template!EditRest,
         Template!StartRestore, Template!Answers, Template!SettingsArrive, Template!SettingsFail,
         Template!RestoreFails, Template!options

\* A step changes the template by hand, or is about something else.
LEMMA TemplateSteps ==
  ASSUME Template!Next
  PROVE  \/ \E value \in Template!Templates : Template!SetTemplate(value)
         \/ untouched' = FALSE /\ box' \in {box, ~box} /\ empty' \in {empty, TRUE, FALSE}
            /\ UNCHANGED <<config, settings, restoring>>
         \/ Template!ResetStage1 \/ Template!StartRestore \/ Template!Answers
<1>1. CASE Template!TemplateRow
  BY <1>1 DEF Template!TemplateRow, Template!DefaultTemplateRow, Template!B1TemplateRow,
         Template!B2TemplateRow, Template!C1TemplateRow, Template!C2TemplateRow, Template!RestoreTemplate,
         Template!Templates, Template!Typed
<1>2. CASE Template!Options
  BY <1>2 DEF Template!Options, Template!DefaultOptions, Template!B1Options, Template!B2Options,
         Template!C1Options, Template!C2Options, Template!AddTag, Template!RemoveTagAt, Template!RemoveTag,
         Template!SetTags, Template!Toggle
<1>3. CASE Template!EditRest
  BY <1>3 DEF Template!EditRest, Template!options
<1>. QED
  BY <1>1, <1>2, <1>3 DEF Template!Next

LEMMA TemplateTyped == ASSUME Template!TypeOK, Template!Next PROVE Template!TypeOK'
<1>1. tags' \in Seq(Tags) /\ UNCHANGED scheme
  BY TagsTyped DEF Template!Next
<1>2. /\ config' \in Template!Templates /\ settings' \in {"awaited", "known", "unknown"}
      /\ {box', empty', restoring', untouched'} \subseteq BOOLEAN
  BY TemplateSteps DEF Template!TypeOK, Template!Templates, Template!SetTemplate, Template!ResetStage1,
     Template!Baseline, Template!StartRestore, Template!Answers, Template!SettingsArrive, Template!Applied,
     Template!SettingsFail, Template!RestoreArrives, Template!RestoreFails, Template!options
<1>. QED
  BY <1>1, <1>2 DEF Template!TypeOK

\* A page nobody has changed stays fresh when the settings arrive.
LEMMA StaysFresh == ASSUME FreshIsInitial, Template!Next PROVE FreshIsInitial'
<1>. USE DEF FreshIsInitial, Template!FreshIsInitial, Template!AtInitial, Template!Baseline
<1>1. CASE Template!ResetStage1
  BY <1>1 DEF Template!ResetStage1
<1>2. CASE Template!SettingsArrive
  BY <1>2 DEF Template!SettingsArrive, Template!Applied
<1>3. CASE Template!SettingsFail \/ Template!StartRestore \/ Template!RestoreFails
  BY <1>3 DEF Template!SettingsFail, Template!StartRestore, Template!RestoreFails, Template!options
<1>4. CASE untouched' = FALSE
  BY <1>4
<1>. QED
  BY <1>1, <1>2, <1>3, <1>4, TemplateSteps DEF Template!SetTemplate, Template!Answers, Template!RestoreArrives

-----------------------------------------------------------------------------
(* The rows of stage 2: what Stage2RowsProofs says of them, of both tables *)

ForwardsFacts == INSTANCE Stage2RowsProofs WITH
  Typed <- Renames, MaxRows <- RowBounds, Chains <- {}, Relays <- Services, rows <- lines

ChainedFacts == INSTANCE Stage2RowsProofs WITH
  Typed <- ChainRenames, MaxRows <- RowBounds, Chains <- Targets, Relays <- {}, Offers <- ChainOffers,
  Links <- ChainLinks, rows <- lines

\* The module of the proofs speaks of the same rows.
LEMMA ForwardsSame ==
  /\ ForwardsFacts!RowsAssumption = Forwards!RowsAssumption
  /\ ForwardsFacts!Init = Forwards!Init
  /\ ForwardsFacts!Next = Forwards!Next
  /\ ForwardsFacts!TypeOK = Forwards!TypeOK
  /\ ForwardsFacts!MarksStayInPlace = Forwards!MarksStayInPlace
  /\ ForwardsFacts!SharedByCopy = Forwards!SharedByCopy
  /\ ForwardsFacts!HasNamesake = Forwards!HasNamesake
  /\ ForwardsFacts!OthersSpared = Forwards!OthersSpared
  BY ZenonT(60) DEF Forwards!Sources, Forwards!RowsOf, Forwards!AllRows, Forwards!ModeOptions,
       Forwards!Selected, Forwards!RelayChoices, Forwards!Selectable, Forwards!NextTarget,
       Forwards!Operations, Forwards!OpenMenus, Forwards!Hits, Forwards!Cleared,
       Forwards!Lasting, Forwards!Places, Forwards!Namesakes, Forwards!Duplicates,
       Forwards!Unknown, Forwards!Place, Forwards!Doubted, Forwards!Forgotten, Forwards!Rename,
       Forwards!Blur, Forwards!Update, Forwards!ChangeMode, Forwards!ChangeTarget,
       Forwards!DerivedName, Forwards!Clone, Forwards!Delete, Forwards!Refusal, Forwards!At,
       Forwards!IndexOf, Forwards!Taken, Forwards!Listed, Forwards!Wrong, Forwards!Refusals,
       Forwards!Generate, Forwards!Answered, Forwards!Answer, Forwards!Failure,
       Forwards!Convert, Forwards!Request, Forwards!Reset, Forwards!Restored,
       Forwards!RestoreReplayable, Forwards!RestoreConflicted, Forwards!EditInput,
       Forwards!Choose, Forwards!Perform, Forwards!Edit, Forwards!Next, Forwards!When,
       Forwards!Unset, Forwards!ToMode, Forwards!ToTarget, Forwards!FromMenu, Forwards!Shown,
       Forwards!CopyFirst, Forwards!DefaultRowName, Forwards!DefaultRowMode,
       Forwards!DefaultRowTarget, Forwards!B1Row, Forwards!B1Picker, Forwards!B2Row,
       Forwards!C1Row, Forwards!C1Target, Forwards!C2Row, Forwards!C2Target, Forwards!RowOf,
       Forwards!ToSet, Forwards!RemoveAt, Forwards!Cardinality, Forwards!IsFiniteSet,
       Forwards!RowsAssumption, Forwards!Init, Forwards!Default, Forwards!Defaults,
       Forwards!Linked, Forwards!Schemes, Forwards!Modes, Forwards!Row, Forwards!Mark,
       Forwards!TypeOK, Forwards!MarksStayInPlace, Forwards!vars, Forwards!SharedByCopy,
       Forwards!Users, Forwards!HasNamesake, Forwards!OthersSpared, Forwards!IsInjective,
       ForwardsFacts!Sources, ForwardsFacts!RowsOf, ForwardsFacts!AllRows,
       ForwardsFacts!ModeOptions, ForwardsFacts!Selected, ForwardsFacts!RelayChoices,
       ForwardsFacts!Selectable, ForwardsFacts!NextTarget, ForwardsFacts!Operations,
       ForwardsFacts!OpenMenus, ForwardsFacts!Hits, ForwardsFacts!Cleared,
       ForwardsFacts!Lasting, ForwardsFacts!Places, ForwardsFacts!Namesakes,
       ForwardsFacts!Duplicates, ForwardsFacts!Unknown, ForwardsFacts!Place,
       ForwardsFacts!Doubted, ForwardsFacts!Forgotten, ForwardsFacts!Rename,
       ForwardsFacts!Blur, ForwardsFacts!Update, ForwardsFacts!ChangeMode,
       ForwardsFacts!ChangeTarget, ForwardsFacts!DerivedName, ForwardsFacts!Clone,
       ForwardsFacts!Delete, ForwardsFacts!Refusal, ForwardsFacts!At, ForwardsFacts!IndexOf,
       ForwardsFacts!Taken, ForwardsFacts!Listed, ForwardsFacts!Wrong, ForwardsFacts!Refusals,
       ForwardsFacts!Generate, ForwardsFacts!Answered, ForwardsFacts!Answer,
       ForwardsFacts!Failure, ForwardsFacts!Convert, ForwardsFacts!Request,
       ForwardsFacts!Reset, ForwardsFacts!Restored, ForwardsFacts!RestoreReplayable,
       ForwardsFacts!RestoreConflicted, ForwardsFacts!EditInput, ForwardsFacts!Choose,
       ForwardsFacts!Perform, ForwardsFacts!Edit, ForwardsFacts!Next, ForwardsFacts!When,
       ForwardsFacts!Unset, ForwardsFacts!ToMode, ForwardsFacts!ToTarget,
       ForwardsFacts!FromMenu, ForwardsFacts!Shown, ForwardsFacts!CopyFirst,
       ForwardsFacts!DefaultRowName, ForwardsFacts!DefaultRowMode,
       ForwardsFacts!DefaultRowTarget, ForwardsFacts!B1Row, ForwardsFacts!B1Picker,
       ForwardsFacts!B2Row, ForwardsFacts!C1Row, ForwardsFacts!C1Target, ForwardsFacts!C2Row,
       ForwardsFacts!C2Target, ForwardsFacts!RowOf, ForwardsFacts!ToSet,
       ForwardsFacts!RemoveAt, ForwardsFacts!Cardinality, ForwardsFacts!IsFiniteSet,
       ForwardsFacts!RowsAssumption, ForwardsFacts!Init, ForwardsFacts!Default,
       ForwardsFacts!Defaults, ForwardsFacts!Linked, ForwardsFacts!Schemes,
       ForwardsFacts!Modes, ForwardsFacts!Row, ForwardsFacts!Mark, ForwardsFacts!TypeOK,
       ForwardsFacts!MarksStayInPlace, ForwardsFacts!vars, ForwardsFacts!SharedByCopy,
       ForwardsFacts!Users, ForwardsFacts!HasNamesake, ForwardsFacts!OthersSpared,
       ForwardsFacts!IsInjective

\* The module of the proofs speaks of the same rows.
LEMMA ChainedSame ==
  /\ ChainedFacts!RowsAssumption = Chained!RowsAssumption
  /\ ChainedFacts!Init = Chained!Init
  /\ ChainedFacts!Next = Chained!Next
  /\ ChainedFacts!TypeOK = Chained!TypeOK
  /\ ChainedFacts!MarksStayInPlace = Chained!MarksStayInPlace
  /\ ChainedFacts!SharedByCopy = Chained!SharedByCopy
  /\ ChainedFacts!HasNamesake = Chained!HasNamesake
  /\ ChainedFacts!OthersSpared = Chained!OthersSpared
  BY ZenonT(60) DEF Chained!Sources, Chained!RowsOf, Chained!AllRows, Chained!ModeOptions, Chained!Selected,
       Chained!RelayChoices, Chained!Selectable, Chained!NextTarget, Chained!Operations,
       Chained!OpenMenus, Chained!Hits, Chained!Cleared, Chained!Lasting, Chained!Places,
       Chained!Namesakes, Chained!Duplicates, Chained!Unknown, Chained!Place, Chained!Doubted,
       Chained!Forgotten, Chained!Rename, Chained!Blur, Chained!Update, Chained!ChangeMode,
       Chained!ChangeTarget, Chained!DerivedName, Chained!Clone, Chained!Delete,
       Chained!Refusal, Chained!At, Chained!IndexOf, Chained!Taken, Chained!Listed,
       Chained!Wrong, Chained!Refusals, Chained!Generate, Chained!Answered, Chained!Answer,
       Chained!Failure, Chained!Convert, Chained!Request, Chained!Reset, Chained!Restored,
       Chained!RestoreReplayable, Chained!RestoreConflicted, Chained!EditInput, Chained!Choose,
       Chained!Perform, Chained!Edit, Chained!Next, Chained!When, Chained!Unset,
       Chained!ToMode, Chained!ToTarget, Chained!FromMenu, Chained!Shown, Chained!CopyFirst,
       Chained!DefaultRowName, Chained!DefaultRowMode, Chained!DefaultRowTarget, Chained!B1Row,
       Chained!B1Picker, Chained!B2Row, Chained!C1Row, Chained!C1Target, Chained!C2Row,
       Chained!C2Target, Chained!RowOf, Chained!ToSet, Chained!RemoveAt, Chained!Cardinality,
       Chained!IsFiniteSet, Chained!RowsAssumption, Chained!Init, Chained!Default,
       Chained!Defaults, Chained!Linked, Chained!Schemes, Chained!Modes, Chained!Row,
       Chained!Mark, Chained!TypeOK, Chained!MarksStayInPlace, Chained!vars,
       Chained!SharedByCopy, Chained!Users, Chained!HasNamesake, Chained!OthersSpared,
       Chained!IsInjective, ChainedFacts!Sources, ChainedFacts!RowsOf, ChainedFacts!AllRows,
       ChainedFacts!ModeOptions, ChainedFacts!Selected, ChainedFacts!RelayChoices,
       ChainedFacts!Selectable, ChainedFacts!NextTarget, ChainedFacts!Operations,
       ChainedFacts!OpenMenus, ChainedFacts!Hits, ChainedFacts!Cleared, ChainedFacts!Lasting,
       ChainedFacts!Places, ChainedFacts!Namesakes, ChainedFacts!Duplicates,
       ChainedFacts!Unknown, ChainedFacts!Place, ChainedFacts!Doubted, ChainedFacts!Forgotten,
       ChainedFacts!Rename, ChainedFacts!Blur, ChainedFacts!Update, ChainedFacts!ChangeMode,
       ChainedFacts!ChangeTarget, ChainedFacts!DerivedName, ChainedFacts!Clone,
       ChainedFacts!Delete, ChainedFacts!Refusal, ChainedFacts!At, ChainedFacts!IndexOf,
       ChainedFacts!Taken, ChainedFacts!Listed, ChainedFacts!Wrong, ChainedFacts!Refusals,
       ChainedFacts!Generate, ChainedFacts!Answered, ChainedFacts!Answer, ChainedFacts!Failure,
       ChainedFacts!Convert, ChainedFacts!Request, ChainedFacts!Reset, ChainedFacts!Restored,
       ChainedFacts!RestoreReplayable, ChainedFacts!RestoreConflicted, ChainedFacts!EditInput,
       ChainedFacts!Choose, ChainedFacts!Perform, ChainedFacts!Edit, ChainedFacts!Next,
       ChainedFacts!When, ChainedFacts!Unset, ChainedFacts!ToMode, ChainedFacts!ToTarget,
       ChainedFacts!FromMenu, ChainedFacts!Shown, ChainedFacts!CopyFirst,
       ChainedFacts!DefaultRowName, ChainedFacts!DefaultRowMode, ChainedFacts!DefaultRowTarget,
       ChainedFacts!B1Row, ChainedFacts!B1Picker, ChainedFacts!B2Row, ChainedFacts!C1Row,
       ChainedFacts!C1Target, ChainedFacts!C2Row, ChainedFacts!C2Target, ChainedFacts!RowOf,
       ChainedFacts!ToSet, ChainedFacts!RemoveAt, ChainedFacts!Cardinality,
       ChainedFacts!IsFiniteSet, ChainedFacts!RowsAssumption, ChainedFacts!Init,
       ChainedFacts!Default, ChainedFacts!Defaults, ChainedFacts!Linked, ChainedFacts!Schemes,
       ChainedFacts!Modes, ChainedFacts!Row, ChainedFacts!Mark, ChainedFacts!TypeOK,
       ChainedFacts!MarksStayInPlace, ChainedFacts!vars, ChainedFacts!SharedByCopy,
       ChainedFacts!Users, ChainedFacts!HasNamesake, ChainedFacts!OthersSpared,
       ChainedFacts!IsInjective

\* What is known of the rows of a table (IInv and AllNamed of Stage2RowsProofs).
ForwardsInv == ForwardsFacts!IInv /\ ForwardsFacts!AllNamed
ChainedInv == ChainedFacts!IInv /\ ChainedFacts!AllNamed

LEMMA ForwardsFirst == ASSUME Forwards!RowsAssumption, Forwards!Init PROVE ForwardsInv
<1>1. ForwardsFacts!RowsAssumption /\ ForwardsFacts!Init
  BY ForwardsSame
<1>2. ForwardsFacts!IInv
  BY <1>1, ForwardsFacts!InitIInv
<1>3. ForwardsFacts!AllNamed
  BY <1>1 DEF ForwardsFacts!Init, ForwardsFacts!AllNamed
<1>. QED
  BY <1>2, <1>3 DEF ForwardsInv

LEMMA ForwardsKept ==
  ASSUME Forwards!RowsAssumption, ForwardsInv, Forwards!Next \/ UNCHANGED <<scheme, table>>
  PROVE  ForwardsInv'
<1>1. ForwardsFacts!RowsAssumption
  BY ForwardsSame
<1>2. [ForwardsFacts!Next]_(ForwardsFacts!vars)
  BY ForwardsSame DEF ForwardsFacts!vars, table
<1>3. ForwardsFacts!IInv'
  BY <1>1, <1>2, ForwardsFacts!NextIInv DEF ForwardsInv
<1>4. ForwardsFacts!AllNamed'
  BY <1>1, <1>2, ForwardsFacts!NamedKeeps DEF ForwardsInv
<1>. QED
  BY <1>3, <1>4 DEF ForwardsInv

LEMMA ForwardsMeans == ASSUME ForwardsInv PROVE Forwards!TypeOK /\ Forwards!MarksStayInPlace
<1>1. ForwardsFacts!TypeOK
  BY DEF ForwardsInv, ForwardsFacts!IInv, ForwardsFacts!Shape, ForwardsFacts!TypeOK
<1>2. ForwardsFacts!MarksStayInPlace
  BY DEF ForwardsInv, ForwardsFacts!IInv, ForwardsFacts!Shape, ForwardsFacts!AllHeld, ForwardsFacts!Held,
         ForwardsFacts!MarksStayInPlace, ForwardsFacts!Hits
<1>. QED
  BY <1>1, <1>2, ForwardsSame

LEMMA ForwardsSteps ==
  ASSUME Forwards!RowsAssumption, ForwardsInv, Forwards!Next
  PROVE  Forwards!SharedByCopy /\ Forwards!HasNamesake /\ Forwards!OthersSpared
<1>1. ForwardsFacts!RowsAssumption /\ [ForwardsFacts!Next]_(ForwardsFacts!vars)
  BY ForwardsSame
<1>2. ForwardsInv'
  BY ForwardsKept
<1>3. ForwardsFacts!Shape
  BY DEF ForwardsInv, ForwardsFacts!IInv
<1>4. ForwardsFacts!SharedByCopy /\ ForwardsFacts!OthersSpared
  BY <1>1, <1>3, ForwardsFacts!SharingIsCopied, ForwardsFacts!OthersAreSpared
<1>5. ForwardsFacts!HasNamesake
  BY <1>1, <1>2, ForwardsFacts!NamesakeLasts DEF ForwardsInv
<1>. QED
  BY <1>4, <1>5, ForwardsSame

LEMMA ChainedFirst == ASSUME Chained!RowsAssumption, Chained!Init PROVE ChainedInv
<1>1. ChainedFacts!RowsAssumption /\ ChainedFacts!Init
  BY ChainedSame
<1>2. ChainedFacts!IInv
  BY <1>1, ChainedFacts!InitIInv
<1>3. ChainedFacts!AllNamed
  BY <1>1 DEF ChainedFacts!Init, ChainedFacts!AllNamed
<1>. QED
  BY <1>2, <1>3 DEF ChainedInv

LEMMA ChainedKept ==
  ASSUME Chained!RowsAssumption, ChainedInv, Chained!Next \/ UNCHANGED <<scheme, table>>
  PROVE  ChainedInv'
<1>1. ChainedFacts!RowsAssumption
  BY ChainedSame
<1>2. [ChainedFacts!Next]_(ChainedFacts!vars)
  BY ChainedSame DEF ChainedFacts!vars, table
<1>3. ChainedFacts!IInv'
  BY <1>1, <1>2, ChainedFacts!NextIInv DEF ChainedInv
<1>4. ChainedFacts!AllNamed'
  BY <1>1, <1>2, ChainedFacts!NamedKeeps DEF ChainedInv
<1>. QED
  BY <1>3, <1>4 DEF ChainedInv

LEMMA ChainedMeans == ASSUME ChainedInv PROVE Chained!TypeOK /\ Chained!MarksStayInPlace
<1>1. ChainedFacts!TypeOK
  BY DEF ChainedInv, ChainedFacts!IInv, ChainedFacts!Shape, ChainedFacts!TypeOK
<1>2. ChainedFacts!MarksStayInPlace
  BY DEF ChainedInv, ChainedFacts!IInv, ChainedFacts!Shape, ChainedFacts!AllHeld, ChainedFacts!Held,
         ChainedFacts!MarksStayInPlace, ChainedFacts!Hits
<1>. QED
  BY <1>1, <1>2, ChainedSame

LEMMA ChainedSteps ==
  ASSUME Chained!RowsAssumption, ChainedInv, Chained!Next
  PROVE  Chained!SharedByCopy /\ Chained!HasNamesake /\ Chained!OthersSpared
<1>1. ChainedFacts!RowsAssumption /\ [ChainedFacts!Next]_(ChainedFacts!vars)
  BY ChainedSame
<1>2. ChainedInv'
  BY ChainedKept
<1>3. ChainedFacts!Shape
  BY DEF ChainedInv, ChainedFacts!IInv
<1>4. ChainedFacts!SharedByCopy /\ ChainedFacts!OthersSpared
  BY <1>1, <1>3, ChainedFacts!SharingIsCopied, ChainedFacts!OthersAreSpared
<1>5. ChainedFacts!HasNamesake
  BY <1>1, <1>2, ChainedFacts!NamesakeLasts DEF ChainedInv
<1>. QED
  BY <1>4, <1>5, ChainedSame

-----------------------------------------------------------------------------
(* The page *)

\* One table or the other is there.
TableInv == IF part = "chains" THEN ChainedInv ELSE ForwardsInv

PageInv ==
  EditorIInv /\ DialogsIInv /\ Rest /\ Template!TypeOK /\ FreshIsInitial /\ TableInv

pageVars == <<part, editorVars, scheme, restoring, dialogs, template, table>>

\* Every part begins as its own module says.
LEMMA PageStarts == ASSUME PageAssumption, Start PROVE PageInv
<1>1. EditorIInv
  BY EditorInitIInv DEF PageAssumption, Start
<1>2. DialogsIInv /\ Rest
  BY DialogsInitIInv, DialogsInitRest DEF PageAssumption, Start
<1>3. Template!TypeOK /\ FreshIsInitial
  BY TemplateInit DEF Start
<1>4. TableInv
  BY ForwardsFirst, ChainedFirst DEF PageAssumption, Start, TableInv
<1>. QED
  BY <1>1, <1>2, <1>3, <1>4 DEF PageInv

\* What a step leaves alone stays as it is: a scheme never changes, and
\* whether a restore is in flight matters to the types only.
LEMMA EditorRests == ASSUME EditorAssumption, EditorIInv, UNCHANGED editorVars PROVE EditorIInv'
  BY EditorNextIInv

LEMMA DialogsRest ==
  ASSUME DialogsIInv, Rest, UNCHANGED <<scheme, dialogs>>, restoring' \in BOOLEAN
  PROVE  DialogsIInv' /\ Rest'
<1>1. UNCHANGED <<relays, draft, typed, dialog, late, dropped, landing, form, crashed>>
  BY DEF dialogs
<1>2. DialogsIInv'
  BY <1>1 DEF DialogsIInv, Types, RelaysDistinct, B1Draft
<1>3. Rest'
  BY <1>1 DEF Rest
<1>. QED
  BY <1>2, <1>3

LEMMA TemplateRests ==
  ASSUME Template!TypeOK, FreshIsInitial, UNCHANGED <<scheme, template>>, restoring' \in BOOLEAN
  PROVE  Template!TypeOK' /\ FreshIsInitial'
  BY DEF template, Template!TypeOK, FreshIsInitial, Template!FreshIsInitial, Template!AtInitial,
         Template!Baseline

LEMMA TableRests ==
  ASSUME PageAssumption, TableInv, UNCHANGED <<part, scheme, table>>
  PROVE  TableInv'
<1>1. UNCHANGED <<scheme, table>>
  OBVIOUS
<1>2. CASE part = "chains"
  BY <1>1, <1>2, ChainedKept DEF PageAssumption, TableInv
<1>3. CASE part # "chains"
  BY <1>1, <1>3, ForwardsKept DEF PageAssumption, TableInv
<1>. QED
  BY <1>2, <1>3

\* A step is one of the part's own; no step changes the scheme.
LEMMA PageStays == ASSUME PageAssumption, PageInv, [Step]_pageVars PROVE PageInv'
<1>. USE DEF PageInv
<1>1. EditorAssumption /\ DialogsAssumption /\ Forwards!RowsAssumption /\ Chained!RowsAssumption
  BY DEF PageAssumption
<1>2. restoring \in BOOLEAN
  BY DEF Rest
<1>3. CASE part = "groups" /\ EditorNext /\ UNCHANGED <<part, scheme, restoring, dialogs, template, table>>
  <2>1. EditorIInv'
    BY <1>1, <1>3, EditorNextIInv
  <2>. QED
    BY <1>2, <1>3, <2>1, DialogsRest, TemplateRests, TableRests
<1>4. CASE part = "relays" /\ DialogsNext /\ UNCHANGED <<part, editorVars, template, table>>
  <2>1. DialogsIInv' /\ Rest' /\ UNCHANGED scheme
    BY <1>1, <1>4, DialogsNextIInv, DialogsNextRest DEF DialogsNext
  <2>2. restoring' \in BOOLEAN
    BY <2>1 DEF Rest
  <2>. QED
    BY <1>1, <1>4, <2>1, <2>2, EditorRests, TemplateRests, TableRests
<1>5. CASE part = "template" /\ Template!Next /\ UNCHANGED <<part, editorVars, dialogs, table>>
  <2>1. Template!TypeOK' /\ FreshIsInitial' /\ UNCHANGED scheme
    BY <1>5, TemplateTyped, StaysFresh DEF Template!Next
  <2>2. restoring' \in BOOLEAN
    BY <2>1 DEF Template!TypeOK
  <2>. QED
    BY <1>1, <1>5, <2>1, <2>2, EditorRests, DialogsRest, TableRests
<1>6. CASE part = "forwards" /\ Forwards!Next /\ UNCHANGED <<part, editorVars, restoring, dialogs, template>>
  <2>1. ForwardsInv' /\ UNCHANGED scheme
    BY <1>1, <1>6, ForwardsKept DEF TableInv, Forwards!Next
  <2>. QED
    BY <1>1, <1>2, <1>6, <2>1, EditorRests, DialogsRest, TemplateRests DEF TableInv
<1>7. CASE part = "chains" /\ Chained!Next /\ UNCHANGED <<part, editorVars, restoring, dialogs, template>>
  <2>1. ChainedInv' /\ UNCHANGED scheme
    BY <1>1, <1>7, ChainedKept DEF TableInv, Chained!Next
  <2>. QED
    BY <1>1, <1>2, <1>7, <2>1, EditorRests, DialogsRest, TemplateRests DEF TableInv
<1>8. CASE UNCHANGED pageVars
  BY <1>1, <1>2, <1>8, EditorRests, DialogsRest, TemplateRests, TableRests DEF pageVars
<1>. QED
  BY <1>3, <1>4, <1>5, <1>6, <1>7, <1>8 DEF Step

-----------------------------------------------------------------------------
(* What is proved of the page *)

\* The parts' invariants hold side by side: the scheme and the flag of a
\* restore, which they share, carry nothing from one to another.
THEOREM PageInductive == ASSUME PageAssumption PROVE Page => []PageInv
<1>1. Start => PageInv
  BY PageStarts
<1>2. PageInv /\ [Step]_pageVars => PageInv'
  BY PageStays
<1>3. Page => Start /\ [][Step]_pageVars
  BY DEF Page, pageVars
<1>. QED
  BY <1>1, <1>2, <1>3, PTL

\* Every part keeps its variables within their types.
THEOREM PageTyping == ASSUME PageAssumption PROVE Page => []PageTypeOK
<1>1. ASSUME PageInv PROVE PageTypeOK
  <2>1. EditorTypeOK /\ DialogsTypeOK /\ Template!TypeOK
    BY <1>1, EditorIInvMeans, DialogsTyped DEF PageInv, PageAssumption
  <2>. QED
    BY <1>1, <2>1, ForwardsMeans, ChainedMeans DEF PageInv, TableInv, PageTypeOK
<1>. QED
  BY <1>1, PageInductive, PTL

\* Whenever the deployment's settings arrive, a page nobody has changed is the
\* one a reset makes (applyDefaultTemplateURL, buildStage1BaselineInput).
THEOREM PageFresh == ASSUME PageAssumption PROVE Page => []FreshIsInitial
<1>1. PageInv => FreshIsInitial
  BY DEF PageInv
<1>. QED
  BY <1>1, PageInductive, PTL

\* A mark of the server's is in the row it was found in, as that row was, in
\* both tables, whatever was edited, copied, converted or reset meanwhile
\* (matchesStage2RowError).  It says nothing of a mark whose row was edited or
\* deleted while the answer was on its way, nor of one that comes after the
\* answer to a restore, or to a conversion without its source: such a mark is
\* left on any row of that source and name.
THEOREM MarksInPlace == ASSUME PageAssumption PROVE Page => []MarksStayInPlace
<1>1. ASSUME PageInv PROVE MarksStayInPlace
  <2>1. Forwards!MarksStayInPlace <=> Chained!MarksStayInPlace
    BY DEF Forwards!MarksStayInPlace, Forwards!RowsOf, Forwards!Sources, Forwards!Unknown, Forwards!Hits,
           Forwards!ToSet, Forwards!Unset, Chained!MarksStayInPlace, Chained!RowsOf, Chained!Sources,
           Chained!Unknown, Chained!Hits, Chained!ToSet, Chained!Unset
  <2>. QED
    BY <1>1, <2>1, ForwardsMeans, ChainedMeans DEF PageInv, TableInv, MarksStayInPlace
<1>. QED
  BY <1>1, PageInductive, PTL

\* What a step of a table may do; no other step changes one.
LEMMA TableSteps ==
  ASSUME PageAssumption, PageInv, [Step]_pageVars
  PROVE  \/ UNCHANGED <<scheme, table>>
         \/ part = "forwards" /\ Forwards!SharedByCopy /\ Forwards!HasNamesake /\ Forwards!OthersSpared
         \/ part = "chains" /\ Chained!HasNamesake /\ Chained!OthersSpared
<1>1. CASE part = "forwards" /\ Forwards!Next
  BY <1>1, ForwardsSteps DEF PageAssumption, PageInv, TableInv
<1>2. CASE part = "chains" /\ Chained!Next
  BY <1>2, ChainedSteps DEF PageAssumption, PageInv, TableInv
<1>3. \/ part = "forwards" /\ Forwards!Next
      \/ part = "chains" /\ Chained!Next
      \/ UNCHANGED <<scheme, table>>
  BY DEF Step, pageVars, DialogsNext, Template!Next
<1>. QED
  BY <1>1, <1>2, <1>3

\* The page's menus let no two rows have one service unless a row is copied
\* (getForwardRelayChoices, pickNextTarget, cloneStage2RowState).
THEOREM PageCopies == ASSUME PageAssumption PROVE Page => OnlyCopiesShare
<1>1. PageInv /\ [Step]_pageVars => [part = "forwards" => Forwards!SharedByCopy]_<<scheme, table>>
  BY TableSteps
<1>2. Page => [][Step]_pageVars
  BY DEF Page, pageVars
<1>. QED
  BY <1>1, <1>2, PageInductive, PTL DEF OnlyCopiesShare

\* Duplicates stay marked for as long as they are ones, and an edit takes no
\* other row's mark (clearDuplicateProxyNameErrors, updateStage2RowState).
THEOREM PageMarks == ASSUME PageAssumption PROVE Page => MarksKeepUp
<1>. DEFINE KeepUp ==
       /\ part = "forwards" => Forwards!HasNamesake /\ Forwards!OthersSpared
       /\ part = "chains" => Chained!HasNamesake /\ Chained!OthersSpared
<1>1. PageInv /\ [Step]_pageVars => [KeepUp]_<<scheme, table>>
  BY TableSteps
<1>2. Page => [][Step]_pageVars
  BY DEF Page, pageVars
<1>. QED
  BY <1>1, <1>2, PageInductive, PTL DEF MarksKeepUp

\* The page does nothing to a snapshot but what Stage2Editor says, so that what
\* is proved of EditorSpec holds of the page (updates of useAppWorkflow.state.ts).
THEOREM PageEdits == Page => EditorSpec
<1>1. Start => EditorInit
  BY DEF Start
<1>2. [Step]_pageVars => [EditorNext]_editorVars
  BY DEF Step, pageVars
<1>3. Page => Start /\ [][Step]_pageVars
  BY DEF Page, pageVars
<1>. QED
  BY <1>1, <1>2, <1>3, PTL DEF EditorSpec

\* No dialog is open where another part is looked at.
Closed == part # "relays" => dialog = "none" /\ ~crashed

\* The same for the dialogs: a restore that is started elsewhere on the page is
\* one that is started, and fails, while they are closed.
THEOREM PageDialogs == Page => DialogsSpec
<1>1. Start => DialogsInit /\ Closed
  BY DEF Start, DialogsInit, Closed
<1>2. ASSUME Closed, [Step]_pageVars PROVE Closed'
  <2>1. CASE part = "relays"
    BY <1>2, <2>1 DEF Step, pageVars, Closed
  <2>2. CASE part # "relays"
    BY <1>2, <2>2 DEF Step, pageVars, dialogs, Closed
  <2>. QED
    BY <2>1, <2>2
<1>3. ASSUME Closed, [Step]_pageVars PROVE [DialogsNext]_dialogsVars
  <2>1. CASE part = "relays" /\ DialogsNext
    BY <2>1
  <2>2. CASE Template!Next /\ part = "template" /\ UNCHANGED dialogs
    <3>1. ~crashed /\ dialog = "none"
      BY <1>3, <2>2 DEF Closed
    <3>2. UNCHANGED <<scheme, page, dialog, form, entry, crashed>>
      BY <2>2 DEF dialogs, page, entry, Template!Next
    <3>3. UNCHANGED restoring \/ (~restoring /\ restoring' = TRUE) \/ (restoring /\ restoring' = FALSE)
      BY <2>2, TemplateSteps DEF Template!SetTemplate, Template!ResetStage1, Template!StartRestore,
         Template!Answers, Template!SettingsArrive, Template!SettingsFail, Template!RestoreArrives,
         Template!RestoreFails
    <3>4. UNCHANGED dialogsVars \/ StartRestore \/ RestoreFails
      BY <3>1, <3>2, <3>3 DEF dialogsVars, StartRestore, RestoreFails
    <3>. QED
      BY <3>1, <3>2, <3>4 DEF DialogsNext, Answers
  <2>3. CASE UNCHANGED <<scheme, restoring, dialogs>>
    BY <2>3 DEF dialogs, dialogsVars, page, entry
  <2>4. \/ part = "relays" /\ DialogsNext
        \/ Template!Next /\ part = "template" /\ UNCHANGED dialogs
        \/ UNCHANGED <<scheme, restoring, dialogs>>
    BY <1>3 DEF Step, pageVars, Forwards!Next, Chained!Next
  <2>. QED
    BY <2>1, <2>2, <2>3, <2>4
<1>4. Page => Start /\ [][Step]_pageVars
  BY DEF Page, pageVars
<1>. QED
  BY <1>1, <1>2, <1>3, <1>4, PTL DEF DialogsSpec

=============================================================================
