--------------------------- MODULE HashMapProofs ---------------------------
(***************************************************************************)
(* What the operations of a PTRVEC do to the sequence of its items, for    *)
(* every size of the ring and every place of head and tail; and, put       *)
(* together with the nodes that the items of a MAP's buckets point to, for *)
(* any keys, hash and sizes: the buckets stay rings that have room to      *)
(* grow, every node that is allocated is in the bucket of its key, once,   *)
(* and the whole is a multimap to its callers: each key has a list of its  *)
(* own, read off the bucket's nodes in order, that the operations change   *)
(* as MultiMap says.                                                       *)
(***************************************************************************)
EXTENDS HashMap, SequenceTheorems, FiniteSetTheorems, WellFoundedInduction, TLAPS

---------------------------------------------------------------------------
(* Rings.                                                                  *)

\* A ring that holds elements of S.
IsRing(v, S) ==
  /\ v = [ptrArr |-> v.ptrArr, head |-> v.head, tail |-> v.tail,
          numItems |-> v.numItems, maxItems |-> v.maxItems]
  /\ v.ptrArr \in [0 .. v.maxItems - 1 -> S]
  /\ v.maxItems \in Nat
  /\ Valid(v)

\* The slot an index counts from is one of the ring.
LEMMA SlotInRing ==
  ASSUME NEW S, NEW v, IsRing(v, S), NEW k \in Nat, k < v.maxItems
  PROVE  SlotAt(v, k) \in 0 .. v.maxItems - 1
BY DEF IsRing, Valid, SlotAt, Wrap

\* Two places of a ring are two slots.
LEMMA SlotsDiffer ==
  ASSUME NEW S, NEW v, IsRing(v, S), NEW j \in Nat, NEW k \in Nat,
         j < v.maxItems, k < v.maxItems, j # k
  PROVE  SlotAt(v, j) # SlotAt(v, k)
BY DEF IsRing, Valid, SlotAt, Wrap

\* The items are a sequence as long as numItems says.
LEMMA ItemsType ==
  ASSUME NEW S, NEW v, IsRing(v, S)
  PROVE  /\ Items(v) \in Seq(S) /\ Len(Items(v)) = v.numItems
         /\ \A k \in 1 .. v.numItems : Items(v)[k] = v.ptrArr[SlotAt(v, k - 1)]
<1>1. v.numItems \in Nat /\ v.maxItems \in Nat /\ v.numItems <= v.maxItems
  BY DEF IsRing, Valid
<1>2. \A k \in 1 .. v.numItems : v.ptrArr[SlotAt(v, k - 1)] \in S
  <2> TAKE k \in 1 .. v.numItems
  <2> DEFINE j == k - 1
  <2>0. j \in Nat /\ j < v.maxItems
    BY <1>1
  <2>1. SlotAt(v, j) \in 0 .. v.maxItems - 1
    <3> HIDE DEF j
    <3>1. QED
      BY <2>0, SlotInRing
  <2>2. v.ptrArr \in [0 .. v.maxItems - 1 -> S]
    BY DEF IsRing
  <2>3. QED
    BY <2>1, <2>2
<1>3. QED
  BY <1>1, <1>2 DEF Items

\* PTRVEC_constructor() makes a ring without items.
LEMMA VectorRing ==
  ASSUME NEW S, Garbage \in S, NEW max \in Nat \ {0}
  PROVE  IsRing(Vector(max), S) /\ Items(Vector(max)) = <<>>
<1>1. IsRing(Vector(max), S)
  BY DEF IsRing, Vector, Valid
<1>2. Items(Vector(max)) = <<>>
  BY DEF Items, Vector
<1>3. QED
  BY <1>1, <1>2

\* PTRVEC_addTail() appends.
THEOREM PutTailAppends ==
  ASSUME NEW S, NEW v, IsRing(v, S), ~Full(v), NEW x \in S
  PROVE  IsRing(PutTail(v, x), S) /\ Items(PutTail(v, x)) = Append(Items(v), x)
<1> DEFINE w == PutTail(v, x)
           t == SlotAt(v, v.numItems)
<1>1. /\ v.maxItems \in Nat /\ v.numItems \in Nat /\ v.numItems < v.maxItems
      /\ v.head \in 0 .. v.maxItems - 1 /\ v.tail \in 0 .. v.maxItems - 1
  BY DEF IsRing, Valid, Full
<1>2. t \in 0 .. v.maxItems - 1
  BY <1>1, SlotInRing
<1>3. t = IF v.numItems > 0 THEN After(v, v.tail) ELSE v.tail
  BY <1>1 DEF IsRing, Valid, SlotAt, After, Wrap
<1>4. w = [v EXCEPT !.ptrArr[t] = x, !.tail = t, !.numItems = @ + 1]
  BY <1>3 DEF PutTail
<1>5. /\ w.ptrArr = [v.ptrArr EXCEPT ![t] = x] /\ w.tail = t /\ w.head = v.head
      /\ w.numItems = v.numItems + 1 /\ w.maxItems = v.maxItems
  BY <1>4 DEF IsRing
<1>6. \A k \in Nat : SlotAt(w, k) = SlotAt(v, k)
  BY <1>5 DEF SlotAt
<1>7. IsRing(w, S)
  <2>1. w = [ptrArr |-> w.ptrArr, head |-> w.head, tail |-> w.tail,
             numItems |-> w.numItems, maxItems |-> w.maxItems]
    BY <1>4 DEF IsRing
  <2>2. Valid(w)
    BY <1>1, <1>2, <1>5, <1>6 DEF Valid
  <2>3. QED
    BY <1>1, <1>2, <1>5, <2>1, <2>2 DEF IsRing
<1>8. Items(w) = Append(Items(v), x)
  <2>1. \A k \in 1 .. v.numItems : w.ptrArr[SlotAt(w, k - 1)] = v.ptrArr[SlotAt(v, k - 1)]
    <3> TAKE k \in 1 .. v.numItems
    <3>1. SlotAt(v, k - 1) # t /\ SlotAt(w, k - 1) = SlotAt(v, k - 1)
      BY <1>1, <1>6, SlotsDiffer
    <3>2. QED
      BY <1>5, <3>1, <1>1, SlotInRing DEF IsRing
  <2>2. w.ptrArr[SlotAt(w, v.numItems)] = x
    BY <1>1, <1>2, <1>5, <1>6 DEF IsRing
  <2> DEFINE old == Items(v)
             new == Items(w)
  <2>3. /\ old \in Seq(S) /\ new \in Seq(S)
        /\ Len(old) = v.numItems /\ Len(new) = v.numItems + 1
        /\ \A k \in 1 .. v.numItems : old[k] = v.ptrArr[SlotAt(v, k - 1)]
        /\ \A k \in 1 .. v.numItems + 1 : new[k] = w.ptrArr[SlotAt(w, k - 1)]
    BY <1>5, <1>7, ItemsType
  <2> HIDE DEF old, new, w, t
  <2>4. \A k \in 1 .. v.numItems : new[k] = old[k]
    <3> TAKE k \in 1 .. v.numItems
    <3>1. k \in 1 .. v.numItems + 1
      BY <1>1
    <3>2. QED
      BY <2>1, <2>3, <3>1
  <2>5. new[v.numItems + 1] = x
    <3>1. v.numItems + 1 \in 1 .. v.numItems + 1 /\ (v.numItems + 1) - 1 = v.numItems
      BY <1>1
    <3>2. QED
      BY <2>2, <2>3, <3>1
  <2>6. /\ Append(old, x) \in Seq(S) /\ Len(Append(old, x)) = v.numItems + 1
        /\ \A k \in 1 .. v.numItems : Append(old, x)[k] = old[k]
        /\ Append(old, x)[v.numItems + 1] = x
    BY <1>1, <2>3, AppendProperties
  <2>7. \A k \in 1 .. Len(new) : new[k] = Append(old, x)[k]
    BY <1>1, <2>3, <2>4, <2>5, <2>6
  <2>8. new = Append(old, x)
    BY <2>3, <2>6, <2>7, SeqEqual
  <2>9. QED
    BY <2>8 DEF old, new, w
<1>9. QED
  BY <1>7, <1>8

\* A vector whose slots from head on hold xs has xs for its items.
LEMMA ItemsAre ==
  ASSUME NEW S, NEW v, IsRing(v, S), NEW xs \in Seq(S), Len(xs) = v.numItems,
         \A k \in 1 .. v.numItems : v.ptrArr[SlotAt(v, k - 1)] = xs[k]
  PROVE  Items(v) = xs
<1> DEFINE is == Items(v)
<1>1. /\ is \in Seq(S) /\ Len(is) = v.numItems
      /\ \A k \in 1 .. v.numItems : is[k] = v.ptrArr[SlotAt(v, k - 1)]
  BY ItemsType
<1> HIDE DEF is
<1>2. \A k \in 1 .. Len(is) : is[k] = xs[k]
  BY <1>1
<1>3. is = xs
  BY <1>1, <1>2, SeqEqual
<1>4. QED
  BY <1>3 DEF is

\* PTRVEC_addHead() puts an item before all others.
THEOREM PutHeadPrepends ==
  ASSUME NEW S, NEW v, IsRing(v, S), ~Full(v), NEW x \in S
  PROVE  IsRing(PutHead(v, x), S) /\ Items(PutHead(v, x)) = <<x>> \o Items(v)
<1> DEFINE w == PutHead(v, x)
           h == IF v.numItems > 0 THEN Before(v, v.head) ELSE v.head
<1>1. /\ v.maxItems \in Nat /\ v.numItems \in Nat /\ v.numItems < v.maxItems
      /\ v.head \in 0 .. v.maxItems - 1 /\ v.tail \in 0 .. v.maxItems - 1
  BY DEF IsRing, Valid, Full
<1>2. h \in 0 .. v.maxItems - 1
  BY <1>1 DEF Before, Wrap
<1>3. w = [v EXCEPT !.ptrArr[h] = x, !.head = h, !.numItems = @ + 1]
  BY DEF PutHead
<1>5. /\ w.ptrArr = [v.ptrArr EXCEPT ![h] = x] /\ w.head = h /\ w.tail = v.tail
      /\ w.numItems = v.numItems + 1 /\ w.maxItems = v.maxItems
  BY <1>3 DEF IsRing
<1> HIDE DEF w
<1>6. SlotAt(w, 0) = h
  BY <1>1, <1>2, <1>5 DEF SlotAt, Wrap
<1>7. \A k \in 1 .. v.numItems : SlotAt(w, k) = SlotAt(v, k - 1) /\ SlotAt(w, k) # h
  BY <1>1, <1>2, <1>5 DEF SlotAt, Wrap, Before
<1>8. IsRing(w, S)
  <2>1. w = [ptrArr |-> w.ptrArr, head |-> w.head, tail |-> w.tail,
             numItems |-> w.numItems, maxItems |-> w.maxItems]
    BY <1>3 DEF IsRing
  <2>2. Valid(w)
    <3>1. v.numItems > 0 => w.tail = SlotAt(w, v.numItems)
      BY <1>1, <1>5, <1>7 DEF IsRing, Valid
    <3>2. v.numItems = 0 => w.tail = SlotAt(w, 0)
      BY <1>5, <1>6 DEF IsRing, Valid
    <3>3. QED
      BY <1>1, <1>2, <1>5, <3>1, <3>2 DEF Valid
  <2>3. QED
    BY <1>1, <1>2, <1>5, <2>1, <2>2 DEF IsRing
<1>9. Items(w) = <<x>> \o Items(v)
  <2> DEFINE old == Items(v)
  <2>1. /\ old \in Seq(S) /\ Len(old) = v.numItems
        /\ \A k \in 1 .. v.numItems : old[k] = v.ptrArr[SlotAt(v, k - 1)]
    BY ItemsType
  <2> HIDE DEF old
  <2> DEFINE xs == <<x>> \o old
  <2>2. /\ xs \in Seq(S) /\ Len(xs) = v.numItems + 1 /\ xs[1] = x
        /\ \A k \in 2 .. v.numItems + 1 : xs[k] = old[k - 1]
    BY <1>1, <2>1
  <2> HIDE DEF xs
  <2>3. \A k \in 1 .. w.numItems : w.ptrArr[SlotAt(w, k - 1)] = xs[k]
    <3> TAKE k \in 1 .. w.numItems
    <3>1. CASE k = 1
      BY <1>2, <1>5, <1>6, <2>2, <3>1 DEF IsRing
    <3>2. CASE k # 1
      <4> DEFINE j == k - 1
      <4>1. j \in 1 .. v.numItems /\ k \in 2 .. v.numItems + 1
        BY <1>1, <1>5, <3>2
      <4> HIDE DEF j
      <4>2. w.ptrArr[SlotAt(w, j)] = v.ptrArr[SlotAt(v, j - 1)]
        BY <1>5, <1>7, <4>1 DEF IsRing
      <4>3. xs[k] = v.ptrArr[SlotAt(v, j - 1)]
        BY <2>1, <2>2, <4>1 DEF j
      <4>4. QED
        BY <4>2, <4>3 DEF j
    <3>3. QED
      BY <3>1, <3>2
  <2>4. Items(w) = xs
    BY <1>5, <1>8, <2>2, <2>3, ItemsAre
  <2>5. QED
    BY <2>4 DEF xs, old
<1>10. QED
  BY <1>8, <1>9 DEF w

\* PTRVEC_remHead() removes the first item and no other.
THEOREM CutHeadIsTail ==
  ASSUME NEW S, Garbage \in S, NEW v, IsRing(v, S), v.numItems > 0
  PROVE  /\ IsRing(CutHead(v), S) /\ Items(CutHead(v)) = Tail(Items(v))
         /\ First(v) = Head(Items(v))
<1> DEFINE w == CutHead(v)
<1>1. /\ v.maxItems \in Nat /\ v.numItems \in Nat /\ v.numItems <= v.maxItems
      /\ v.head \in 0 .. v.maxItems - 1 /\ v.tail \in 0 .. v.maxItems - 1
  BY DEF IsRing, Valid
<1>2. /\ w.ptrArr = [v.ptrArr EXCEPT ![v.head] = Garbage] /\ w.tail = v.tail
      /\ w.head = IF v.numItems > 1 THEN After(v, v.head) ELSE v.head
      /\ w.numItems = v.numItems - 1 /\ w.maxItems = v.maxItems
  BY DEF IsRing, CutHead
<1>3. w = [ptrArr |-> w.ptrArr, head |-> w.head, tail |-> w.tail,
           numItems |-> w.numItems, maxItems |-> w.maxItems]
  <2> DEFINE h == IF v.numItems > 1 THEN After(v, v.head) ELSE v.head
  <2>1. w = [v EXCEPT !.ptrArr[v.head] = Garbage, !.numItems = @ - 1, !.head = h]
    BY DEF CutHead
  <2> HIDE DEF w, h
  <2>2. QED
    BY <2>1 DEF IsRing
<1> HIDE DEF w
<1>4. SlotAt(v, 0) = v.head
  BY <1>1 DEF SlotAt, Wrap
<1>5. \A k \in Nat : k + 1 < v.numItems =>
        SlotAt(w, k) = SlotAt(v, k + 1) /\ SlotAt(v, k + 1) # v.head
  BY <1>1, <1>2 DEF SlotAt, Wrap, After
<1>6. IsRing(w, S)
  <2>1. w.ptrArr \in [0 .. w.maxItems - 1 -> S]
    BY <1>1, <1>2 DEF IsRing
  <2>2. CASE v.numItems = 1
    <3>1. w.head = w.tail /\ w.numItems = 0
      BY <1>1, <1>2, <1>4, <2>2 DEF IsRing, Valid
    <3>2. QED
      BY <1>1, <1>2, <1>3, <2>1, <3>1 DEF IsRing, Valid
  <2>3. CASE v.numItems > 1
    <3>1. w.tail = SlotAt(w, w.numItems - 1)
      <4> DEFINE k == v.numItems - 2
      <4>1. k \in Nat /\ k + 1 = v.numItems - 1 /\ w.numItems - 1 = k /\ k + 1 < v.numItems
        BY <1>1, <1>2, <2>3
      <4> HIDE DEF k
      <4>2. SlotAt(w, k) = SlotAt(v, k + 1)
        BY <1>5, <4>1
      <4>3. QED
        BY <1>2, <4>1, <4>2 DEF IsRing, Valid
    <3>2. w.head \in 0 .. w.maxItems - 1
      BY <1>1, <1>2 DEF After, Wrap
    <3>3. QED
      BY <1>1, <1>2, <1>3, <2>1, <2>3, <3>1, <3>2 DEF IsRing, Valid
  <2>4. QED
    BY <1>1, <2>2, <2>3
<1> DEFINE old == Items(v)
<1>7. /\ old \in Seq(S) /\ Len(old) = v.numItems
      /\ \A k \in 1 .. v.numItems : old[k] = v.ptrArr[SlotAt(v, k - 1)]
  BY ItemsType
<1> HIDE DEF old
<1>8. First(v) = Head(old)
  <2>1. 1 \in 1 .. v.numItems /\ old # <<>>
    BY <1>1, <1>7
  <2>2. old[1] = v.ptrArr[SlotAt(v, 0)]
    BY <1>7, <2>1
  <2>3. Head(old) = old[1]
    BY <1>7, <2>1
  <2>4. QED
    BY <1>4, <2>2, <2>3 DEF First
<1> DEFINE xs == Tail(old)
<1>9. /\ xs \in Seq(S) /\ Len(xs) = v.numItems - 1
      /\ \A k \in 1 .. v.numItems - 1 : xs[k] = old[k + 1]
  BY <1>1, <1>7
<1> HIDE DEF xs
<1>10. \A k \in 1 .. w.numItems : w.ptrArr[SlotAt(w, k - 1)] = xs[k]
  <2> TAKE k \in 1 .. w.numItems
  <2> DEFINE j == k - 1
  <2>1. /\ j \in Nat /\ j + 1 < v.numItems /\ j + 1 = k
        /\ k + 1 \in 1 .. v.numItems /\ k \in 1 .. v.numItems - 1
    BY <1>1, <1>2
  <2> HIDE DEF j
  <2>2. SlotAt(v, k) \in 0 .. v.maxItems - 1
    BY <1>1, <2>1, SlotInRing
  <2>3. w.ptrArr[SlotAt(w, j)] = v.ptrArr[SlotAt(v, k)]
    BY <1>2, <1>5, <2>1, <2>2 DEF IsRing
  <2>4. xs[k] = old[k + 1] /\ old[k + 1] = v.ptrArr[SlotAt(v, (k + 1) - 1)]
    BY <1>7, <1>9, <2>1
  <2>5. (k + 1) - 1 = k
    BY <2>1
  <2>6. QED
    BY <2>3, <2>4, <2>5 DEF j
<1>11. Items(w) = xs
  BY <1>2, <1>6, <1>9, <1>10, ItemsAre
<1>12. QED
  BY <1>6, <1>8, <1>11 DEF w, xs, old

\* PTRVEC_remTail() removes the last item and no other.
THEOREM CutTailIsFront ==
  ASSUME NEW S, Garbage \in S, NEW v, IsRing(v, S), v.numItems > 0
  PROVE  /\ IsRing(CutTail(v), S)
         /\ Items(CutTail(v)) = SubSeq(Items(v), 1, v.numItems - 1)
         /\ Last(v) = Items(v)[v.numItems]
<1> DEFINE w == CutTail(v)
           t == IF v.numItems > 1 THEN Before(v, v.tail) ELSE v.tail
           n == v.numItems - 1
<1>1. /\ v.maxItems \in Nat /\ v.numItems \in Nat /\ v.numItems <= v.maxItems
      /\ v.head \in 0 .. v.maxItems - 1 /\ v.tail \in 0 .. v.maxItems - 1
  BY DEF IsRing, Valid
<1>2. w = [v EXCEPT !.ptrArr[v.tail] = Garbage, !.numItems = @ - 1, !.tail = t]
  BY DEF CutTail
<1>3. v.tail = SlotAt(v, n) /\ n \in Nat /\ n < v.maxItems
  BY <1>1 DEF IsRing, Valid
<1>4. v.numItems > 1 => t = SlotAt(v, n - 1)
  BY <1>1, <1>3 DEF SlotAt, Before, Wrap
<1>5. t \in 0 .. v.maxItems - 1
  BY <1>1 DEF Before, Wrap
<1>6. /\ w.ptrArr = [v.ptrArr EXCEPT ![v.tail] = Garbage] /\ w.tail = t
      /\ w.head = v.head /\ w.numItems = n /\ w.maxItems = v.maxItems
  <2> HIDE DEF w, t
  <2>1. QED
    BY <1>2 DEF IsRing
<1>7. w = [ptrArr |-> w.ptrArr, head |-> w.head, tail |-> w.tail,
           numItems |-> w.numItems, maxItems |-> w.maxItems]
  <2> HIDE DEF w, t
  <2>1. QED
    BY <1>2 DEF IsRing
<1>8. \A k \in Nat : SlotAt(w, k) = SlotAt(v, k)
  BY <1>6 DEF SlotAt
<1>9. IsRing(w, S)
  <2>1. w.ptrArr \in [0 .. w.maxItems - 1 -> S]
    BY <1>1, <1>6 DEF IsRing
  <2>2. w.numItems > 0 => w.tail = SlotAt(w, w.numItems - 1)
    <3> HAVE w.numItems > 0
    <3>1. v.numItems > 1 /\ n - 1 \in Nat
      BY <1>1, <1>6
    <3> HIDE DEF n, t, w
    <3>2. QED
      BY <1>4, <1>6, <1>8, <3>1
  <2>3. w.numItems = 0 => w.head = w.tail
    <3>1. SlotAt(v, 0) = v.head
      BY <1>1 DEF SlotAt, Wrap
    <3>2. QED
      BY <1>1, <1>3, <1>6, <3>1
  <2>4. w.numItems \in 0 .. w.maxItems
    BY <1>1, <1>6
  <2> HIDE DEF n, t, w
  <2>5. Valid(w)
    BY <1>1, <1>5, <1>6, <2>2, <2>3, <2>4 DEF Valid, IsRing
  <2>6. QED
    BY <1>1, <1>6, <1>7, <2>1, <2>5 DEF IsRing
<1> DEFINE old == Items(v)
<1>10. /\ old \in Seq(S) /\ Len(old) = v.numItems
       /\ \A k \in 1 .. v.numItems : old[k] = v.ptrArr[SlotAt(v, k - 1)]
  BY ItemsType
<1> HIDE DEF old
<1>11. Last(v) = old[v.numItems]
  BY <1>1, <1>3, <1>10 DEF Last
<1> DEFINE xs == SubSeq(old, 1, n)
<1>12. /\ xs \in Seq(S) /\ Len(xs) = n
       /\ \A k \in 1 .. n : xs[k] = old[k]
  BY <1>1, <1>3, <1>10
<1> HIDE DEF xs
<1>13. \A k \in 1 .. w.numItems : w.ptrArr[SlotAt(w, k - 1)] = xs[k]
  <2> TAKE k \in 1 .. w.numItems
  <2> DEFINE j == k - 1
  <2>1. /\ j \in Nat /\ j < v.maxItems /\ j # n
        /\ k \in 1 .. v.numItems /\ k \in 1 .. n
    BY <1>1, <1>6
  <2>2. xs[k] = v.ptrArr[SlotAt(v, j)]
    BY <1>10, <1>12, <2>1
  <2> HIDE DEF j, n, w, t
  <2>3. SlotAt(v, j) \in 0 .. v.maxItems - 1 /\ SlotAt(v, j) # v.tail
    BY <1>3, <2>1, SlotInRing, SlotsDiffer
  <2>4. w.ptrArr[SlotAt(w, j)] = v.ptrArr[SlotAt(v, j)]
    BY <1>6, <1>8, <2>1, <2>3 DEF IsRing
  <2>5. QED
    BY <2>2, <2>4 DEF j
<1>14. Items(w) = xs
  <2> HIDE DEF w, t, n
  <2>1. QED
    BY <1>6, <1>9, <1>12, <1>13, ItemsAre
<1>15. QED
  BY <1>9, <1>11, <1>14 DEF xs, old

\* PTRVEC_resize() to a larger ring keeps the items, wrapped around or not.
THEOREM ResizeKeepsItems ==
  ASSUME NEW S, Garbage \in S, NEW v, IsRing(v, S),
         NEW max \in Nat, max >= v.maxItems
  PROVE  IsRing(Resize(v, max), S) /\ Items(Resize(v, max)) = Items(v)
<1> DEFINE w == Resize(v, max)
           wraps == v.head > v.tail
           more == max - v.maxItems
<1>1. /\ v.maxItems \in Nat /\ v.maxItems > 0
      /\ v.numItems \in Nat /\ v.numItems <= v.maxItems
      /\ v.head \in 0 .. v.maxItems - 1 /\ v.tail \in 0 .. v.maxItems - 1
      /\ more \in Nat
  BY DEF IsRing, Valid
<1>2. /\ w.head = (IF wraps THEN v.head + more ELSE v.head)
      /\ w.tail = v.tail /\ w.numItems = v.numItems /\ w.maxItems = max
  BY DEF Resize
<1>3. w = [ptrArr |-> w.ptrArr, head |-> w.head, tail |-> w.tail,
           numItems |-> w.numItems, maxItems |-> w.maxItems]
  BY DEF Resize
<1>4. w.ptrArr = [s \in 0 .. max - 1 |->
                    IF wraps
                    THEN IF s <= v.tail THEN v.ptrArr[s]
                         ELSE IF s >= v.head + more THEN v.ptrArr[s - more]
                         ELSE Garbage
                    ELSE IF s < v.maxItems THEN v.ptrArr[s] ELSE Garbage]
  BY DEF Resize
<1>5. v.ptrArr \in [0 .. v.maxItems - 1 -> S]
  BY DEF IsRing
<1>6. /\ v.numItems > 0 => v.tail = SlotAt(v, v.numItems - 1)
      /\ v.numItems = 0 => v.head = v.tail
  BY DEF IsRing, Valid
<1> HIDE DEF w
<1>7. w.ptrArr \in [0 .. max - 1 -> S]
  <2> SUFFICES ASSUME NEW s \in 0 .. max - 1 PROVE w.ptrArr[s] \in S
    BY <1>4
  <2>1. CASE wraps /\ s <= v.tail
    <3>1. s \in 0 .. v.maxItems - 1
      BY <1>1, <2>1
    <3>2. w.ptrArr[s] = v.ptrArr[s]
      BY <1>4, <2>1
    <3>3. QED
      BY <1>5, <3>1, <3>2
  <2>2. CASE wraps /\ s > v.tail /\ s >= v.head + more
    <3>1. s - more \in 0 .. v.maxItems - 1
      BY <1>1, <2>2
    <3>2. w.ptrArr[s] = v.ptrArr[s - more]
      BY <1>1, <1>4, <2>2
    <3>3. QED
      BY <1>5, <3>1, <3>2
  <2>3. CASE wraps /\ s > v.tail /\ s < v.head + more
    BY <1>1, <1>4, <2>3
  <2>4. CASE ~wraps
    BY <1>1, <1>4, <1>5, <2>4
  <2>5. QED
    BY <1>1, <2>1, <2>2, <2>3, <2>4
<1>8. ASSUME NEW k \in 0 .. v.numItems - 1
      PROVE  /\ SlotAt(w, k) \in 0 .. max - 1
             /\ w.ptrArr[SlotAt(w, k)] = v.ptrArr[SlotAt(v, k)]
  <2>1. CASE wraps /\ v.head + k < v.maxItems
    <3>1. SlotAt(v, k) = v.head + k
      BY <1>1, <2>1 DEF SlotAt, Wrap
    <3>2. /\ SlotAt(w, k) = v.head + k + more /\ SlotAt(w, k) \in 0 .. max - 1
          /\ SlotAt(w, k) >= v.head + more /\ SlotAt(w, k) > v.tail
          /\ SlotAt(w, k) - more = v.head + k
      BY <1>1, <1>2, <2>1 DEF SlotAt, Wrap
    <3> DEFINE s == SlotAt(w, k)
    <3> HIDE DEF s
    <3>3. w.ptrArr[s] = v.ptrArr[s - more]
      <4>1. s \in 0 .. max - 1 /\ s >= v.head + more /\ ~ (s <= v.tail)
        BY <1>1, <3>2 DEF s
      <4> HIDE DEF more
      <4>2. QED
        BY <1>4, <2>1, <4>1
    <3>4. QED
      BY <3>1, <3>2, <3>3 DEF s
  <2>2. CASE wraps /\ v.head + k >= v.maxItems
    <3>1. SlotAt(v, k) = v.head + k - v.maxItems
      BY <1>1, <2>2 DEF SlotAt, Wrap
    <3>2. SlotAt(w, k) = SlotAt(v, k)
      BY <1>1, <1>2, <2>2, <3>1 DEF SlotAt, Wrap
    <3>3. SlotAt(v, k) <= v.tail
      BY <1>1, <1>6, <2>2, <3>1 DEF SlotAt, Wrap
    <3> DEFINE s == SlotAt(w, k)
    <3>4. s \in 0 .. max - 1 /\ s <= v.tail
      BY <1>1, <2>2, <3>1, <3>2, <3>3
    <3> HIDE DEF s
    <3>5. w.ptrArr[s] = v.ptrArr[s]
      BY <1>4, <2>2, <3>4
    <3>6. QED
      BY <3>2, <3>4, <3>5 DEF s
  <2>3. CASE ~wraps
    <3>1. v.head + k < v.maxItems
      BY <1>1, <1>6, <2>3 DEF SlotAt, Wrap
    <3>2. SlotAt(v, k) = v.head + k /\ SlotAt(w, k) = v.head + k
      BY <1>1, <1>2, <2>3, <3>1 DEF SlotAt, Wrap
    <3>3. QED
      BY <1>1, <1>4, <2>3, <3>1, <3>2
  <2>4. QED
    BY <1>1, <2>1, <2>2, <2>3
<1>9. IsRing(w, S)
  <2>1. v.numItems > 0 => v.tail = SlotAt(w, v.numItems - 1)
    BY <1>1, <1>2, <1>6 DEF SlotAt, Wrap
  <2>2. w.head \in 0 .. max - 1 /\ w.tail \in 0 .. max - 1
    BY <1>1, <1>2
  <2>3. v.numItems = 0 => w.head = w.tail
    BY <1>1, <1>2, <1>6
  <2>4. Valid(w)
    BY <1>1, <1>2, <2>1, <2>2, <2>3 DEF Valid
  <2>5. QED
    BY <1>1, <1>2, <1>3, <1>7, <2>4 DEF IsRing
<1>10. Items(w) = Items(v)
  <2> DEFINE old == Items(v)
  <2>1. /\ old \in Seq(S) /\ Len(old) = v.numItems
        /\ \A k \in 1 .. v.numItems : old[k] = v.ptrArr[SlotAt(v, k - 1)]
    BY ItemsType
  <2> HIDE DEF old
  <2>2. \A k \in 1 .. w.numItems : w.ptrArr[SlotAt(w, k - 1)] = old[k]
    <3> TAKE k \in 1 .. w.numItems
    <3> DEFINE j == k - 1
    <3>1. j \in 0 .. v.numItems - 1 /\ k \in 1 .. v.numItems
      BY <1>1, <1>2
    <3>2. old[k] = v.ptrArr[SlotAt(v, j)]
      BY <2>1, <3>1
    <3> HIDE DEF j
    <3>3. w.ptrArr[SlotAt(w, j)] = v.ptrArr[SlotAt(v, j)]
      BY <1>8, <3>1
    <3>4. QED
      BY <3>2, <3>3 DEF j
  <2>3. Items(w) = old
    BY <1>2, <1>9, <2>1, <2>2, ItemsAre
  <2>4. QED
    BY <2>3 DEF old
<1>11. QED
  BY <1>9, <1>10 DEF w

---------------------------------------------------------------------------
(* Removing in the middle.                                                 *)

\* w holds the items of v but the one k places after the first.
LosesPlace(v, w, k) ==
  /\ w.numItems = v.numItems - 1
  /\ \A j \in 0 .. v.numItems - 2 :
       w.ptrArr[SlotAt(w, j)] = v.ptrArr[SlotAt(v, IF j < k THEN j ELSE j + 1)]

\* Where the places of a ring of max slots are: n items from slot h to slot t,
\* the one k places after the first in slot s.
LEMMA PlacesBehind ==
  ASSUME NEW max \in Nat, NEW h \in 0 .. max - 1, NEW n \in 2 .. max,
         NEW k \in 0 .. n - 1,
         Wrap(h + k, max) # h, Wrap(h + k, max) < Wrap(h + (n - 1), max)
  PROVE  /\ \A j \in 0 .. n - 2 :
              /\ Wrap(h + j, max) \in 0 .. max - 1
              /\ Wrap(h + j, max) # Wrap(h + (n - 1), max)
              /\ j < k => ~(/\ Wrap(h + k, max) <= Wrap(h + j, max)
                           /\ Wrap(h + j, max) < Wrap(h + (n - 1), max))
              /\ j >= k => /\ Wrap(h + k, max) <= Wrap(h + j, max)
                           /\ Wrap(h + j, max) < Wrap(h + (n - 1), max)
                           /\ Wrap(h + (j + 1), max) = Wrap(h + j, max) + 1
         /\ Wrap(h + (n - 1), max) - 1 = Wrap(h + (n - 2), max)
         /\ k > 0
<1> SUFFICES ASSUME NEW j \in 0 .. n - 2
             PROVE  /\ Wrap(h + j, max) \in 0 .. max - 1
                    /\ Wrap(h + j, max) # Wrap(h + (n - 1), max)
                    /\ j < k => ~(/\ Wrap(h + k, max) <= Wrap(h + j, max)
                                 /\ Wrap(h + j, max) < Wrap(h + (n - 1), max))
                    /\ j >= k => /\ Wrap(h + k, max) <= Wrap(h + j, max)
                                 /\ Wrap(h + j, max) < Wrap(h + (n - 1), max)
                                 /\ Wrap(h + (j + 1), max) = Wrap(h + j, max) + 1
                    /\ Wrap(h + (n - 1), max) - 1 = Wrap(h + (n - 2), max)
                    /\ k > 0
  <2>1. 0 \in 0 .. n - 2
    OBVIOUS
  <2>2. QED
    BY <2>1
<1>1. QED
  BY DEF Wrap

\* The slot j places after the one behind h.
LEMMA PlaceAfter ==
  ASSUME NEW max \in Nat, NEW h \in 0 .. max - 1, NEW j \in 0 .. max - 1
  PROVE  Wrap(Wrap(h + 1, max) + j, max) = Wrap(h + (j + 1), max)
BY DEF Wrap

\* The same when the items before slot k are the ones to move.
LEMMA PlacesBefore ==
  ASSUME NEW max \in Nat, NEW h \in 0 .. max - 1, NEW n \in 2 .. max,
         NEW k \in 0 .. n - 1,
         Wrap(h + k, max) # h, Wrap(h + k, max) > Wrap(h + (n - 1), max)
  PROVE  /\ \A j \in 0 .. n - 2 :
              /\ Wrap(h + (j + 1), max) \in 0 .. max - 1
              /\ Wrap(h + (j + 1), max) # h
              /\ Wrap((h + 1) + j, max) = Wrap(h + (j + 1), max)
              /\ j < k => /\ h < Wrap(h + (j + 1), max)
                          /\ Wrap(h + (j + 1), max) <= Wrap(h + k, max)
                          /\ Wrap(h + j, max) = Wrap(h + (j + 1), max) - 1
              /\ j >= k => ~(/\ h < Wrap(h + (j + 1), max)
                            /\ Wrap(h + (j + 1), max) <= Wrap(h + k, max))
         /\ Wrap((h + 1) + (n - 2), max) = Wrap(h + (n - 1), max)
         /\ h + 1 < max /\ k > 0
<1>1. ASSUME NEW j \in 0 .. n - 2
      PROVE  /\ Wrap(h + (j + 1), max) \in 0 .. max - 1
             /\ Wrap(h + (j + 1), max) # h
             /\ Wrap((h + 1) + j, max) = Wrap(h + (j + 1), max)
             /\ j < k => /\ h < Wrap(h + (j + 1), max)
                         /\ Wrap(h + (j + 1), max) <= Wrap(h + k, max)
                         /\ Wrap(h + j, max) = Wrap(h + (j + 1), max) - 1
             /\ j >= k => ~(/\ h < Wrap(h + (j + 1), max)
                           /\ Wrap(h + (j + 1), max) <= Wrap(h + k, max))
  BY DEF Wrap
<1>2. /\ Wrap((h + 1) + (n - 2), max) = Wrap(h + (n - 1), max)
      /\ h + 1 < max /\ k > 0
  BY DEF Wrap
<1>3. QED
  BY <1>1, <1>2

\* The items behind slot s move down.
LEMMA CloseFromTailLoses ==
  ASSUME NEW S, Garbage \in S, NEW v, IsRing(v, S), v.numItems > 1,
         NEW k \in 0 .. v.numItems - 1, SlotAt(v, k) # v.head, SlotAt(v, k) < v.tail
  PROVE  /\ IsRing(CloseFromTail(v, SlotAt(v, k)), S)
         /\ LosesPlace(v, CloseFromTail(v, SlotAt(v, k)), k)
<1> DEFINE s == SlotAt(v, k)
           w == CloseFromTail(v, s)
<1>1. /\ v.maxItems \in Nat /\ v.maxItems > 0
      /\ v.numItems \in Nat /\ v.numItems <= v.maxItems
      /\ v.head \in 0 .. v.maxItems - 1 /\ v.tail \in 0 .. v.maxItems - 1
      /\ v.ptrArr \in [0 .. v.maxItems - 1 -> S]
      /\ v.tail = SlotAt(v, v.numItems - 1)
  BY DEF IsRing, Valid
<1> DEFINE Slot(j) == Wrap(v.head + j, v.maxItems)
<1>0. /\ \A j \in 0 .. v.numItems - 2 :
           /\ Slot(j) \in 0 .. v.maxItems - 1
           /\ Slot(j) # Slot(v.numItems - 1)
           /\ j < k => ~(Slot(k) <= Slot(j) /\ Slot(j) < Slot(v.numItems - 1))
           /\ j >= k => /\ Slot(k) <= Slot(j)
                        /\ Slot(j) < Slot(v.numItems - 1)
                        /\ Slot(j + 1) = Slot(j) + 1
      /\ Slot(v.numItems - 1) - 1 = Slot(v.numItems - 2)
      /\ k > 0
  <2>1. Slot(k) # v.head /\ Slot(k) < Slot(v.numItems - 1) /\ v.numItems \in 2 .. v.maxItems
    BY <1>1 DEF SlotAt
  <2>2. QED
    BY <1>1, <2>1, PlacesBehind, Zenon
<1>2. s \in 0 .. v.maxItems - 1 /\ s < v.tail /\ k > 0
  BY <1>0, <1>1, SlotInRing
<1>3. /\ w.head = v.head /\ w.tail = v.tail - 1
      /\ w.numItems = v.numItems - 1 /\ w.maxItems = v.maxItems
      /\ w.ptrArr = [i \in DOMAIN v.ptrArr |->
                       IF i = v.tail THEN Garbage
                       ELSE IF s <= i /\ i < v.tail THEN v.ptrArr[i + 1]
                       ELSE v.ptrArr[i]]
  <2> DEFINE arr == [i \in DOMAIN v.ptrArr |->
                       IF i = v.tail THEN Garbage
                       ELSE IF s <= i /\ i < v.tail THEN v.ptrArr[i + 1]
                       ELSE v.ptrArr[i]]
  <2>1. w = [v EXCEPT !.ptrArr = arr, !.tail = @ - 1, !.numItems = @ - 1]
    BY DEF CloseFromTail
  <2> HIDE DEF s, w, arr
  <2>2. /\ w.head = v.head /\ w.tail = v.tail - 1
        /\ w.numItems = v.numItems - 1 /\ w.maxItems = v.maxItems
        /\ w.ptrArr = arr
    BY <2>1 DEF IsRing
  <2>3. QED
    BY <2>2 DEF arr
<1>4. w = [ptrArr |-> w.ptrArr, head |-> w.head, tail |-> w.tail,
           numItems |-> w.numItems, maxItems |-> w.maxItems]
  <2> DEFINE arr == [i \in DOMAIN v.ptrArr |->
                       IF i = v.tail THEN Garbage
                       ELSE IF s <= i /\ i < v.tail THEN v.ptrArr[i + 1]
                       ELSE v.ptrArr[i]]
  <2>1. w = [v EXCEPT !.ptrArr = arr, !.tail = @ - 1, !.numItems = @ - 1]
    BY DEF CloseFromTail
  <2> HIDE DEF s, w, arr
  <2>2. QED
    BY <2>1 DEF IsRing
<1>5. DOMAIN v.ptrArr = 0 .. v.maxItems - 1
  BY <1>1
<1> HIDE DEF w
<1>6. w.ptrArr \in [0 .. v.maxItems - 1 -> S]
  <2> SUFFICES ASSUME NEW i \in 0 .. v.maxItems - 1 PROVE w.ptrArr[i] \in S
    BY <1>3, <1>5
  <2> HIDE DEF s
  <2>1. i < v.tail => i + 1 \in 0 .. v.maxItems - 1
    BY <1>1
  <2>2. QED
    BY <1>1, <1>3, <1>5, <2>1
<1>7. v.tail - 1 = SlotAt(w, v.numItems - 2)
  BY <1>0, <1>1, <1>3 DEF SlotAt
<1>8. IsRing(w, S)
  <2>1. Valid(w)
    BY <1>1, <1>2, <1>3, <1>7 DEF Valid
  <2>2. QED
    BY <1>1, <1>3, <1>4, <1>6, <2>1 DEF IsRing
<1>9. ASSUME NEW j \in 0 .. v.numItems - 2
      PROVE  w.ptrArr[SlotAt(w, j)] = v.ptrArr[SlotAt(v, IF j < k THEN j ELSE j + 1)]
  <2> DEFINE i == SlotAt(v, j)
  <2>1. SlotAt(w, j) = i /\ i \in 0 .. v.maxItems - 1 /\ i # v.tail
    BY <1>0, <1>1, <1>3 DEF SlotAt
  <2>2. CASE j < k
    <3>1. ~(s <= i /\ i < v.tail)
      BY <1>0, <1>1, <2>2 DEF SlotAt
    <3> HIDE DEF s, i
    <3>2. w.ptrArr[i] = v.ptrArr[i]
      BY <1>3, <1>5, <2>1, <3>1
    <3>3. QED
      BY <2>1, <2>2, <3>2 DEF i
  <2>3. CASE j >= k
    <3>1. s <= i /\ i < v.tail /\ SlotAt(v, j + 1) = i + 1
      BY <1>0, <1>1, <2>3 DEF SlotAt
    <3> HIDE DEF s, i
    <3>2. w.ptrArr[i] = v.ptrArr[i + 1]
      BY <1>3, <1>5, <2>1, <3>1
    <3>3. ~ (j < k)
      BY <2>3
    <3>4. QED
      BY <2>1, <3>1, <3>2, <3>3
  <2>4. QED
    BY <1>1, <2>2, <2>3
<1>10. LosesPlace(v, w, k)
  BY <1>3, <1>9 DEF LosesPlace
<1>11. QED
  BY <1>8, <1>10 DEF w

\* The items before slot s move up.
LEMMA CloseFromHeadLoses ==
  ASSUME NEW S, Garbage \in S, NEW v, IsRing(v, S), v.numItems > 1,
         NEW k \in 0 .. v.numItems - 1, SlotAt(v, k) # v.head, SlotAt(v, k) > v.tail
  PROVE  /\ IsRing(CloseFromHead(v, SlotAt(v, k)), S)
         /\ LosesPlace(v, CloseFromHead(v, SlotAt(v, k)), k)
<1> DEFINE s == SlotAt(v, k)
           w == CloseFromHead(v, s)
<1>1. /\ v.maxItems \in Nat /\ v.maxItems > 0
      /\ v.numItems \in Nat /\ v.numItems <= v.maxItems
      /\ v.head \in 0 .. v.maxItems - 1 /\ v.tail \in 0 .. v.maxItems - 1
      /\ v.ptrArr \in [0 .. v.maxItems - 1 -> S]
      /\ v.tail = SlotAt(v, v.numItems - 1)
  BY DEF IsRing, Valid
<1> DEFINE Slot(j) == Wrap(v.head + j, v.maxItems)
<1>0. /\ \A j \in 0 .. v.numItems - 2 :
           /\ Slot(j + 1) \in 0 .. v.maxItems - 1
           /\ Slot(j + 1) # v.head
           /\ Wrap((v.head + 1) + j, v.maxItems) = Slot(j + 1)
           /\ j < k => /\ v.head < Slot(j + 1)
                       /\ Slot(j + 1) <= Slot(k)
                       /\ Slot(j) = Slot(j + 1) - 1
           /\ j >= k => ~(v.head < Slot(j + 1) /\ Slot(j + 1) <= Slot(k))
      /\ Wrap((v.head + 1) + (v.numItems - 2), v.maxItems) = Slot(v.numItems - 1)
      /\ v.head + 1 < v.maxItems /\ k > 0
  <2>1. Slot(k) # v.head /\ Slot(k) > Slot(v.numItems - 1) /\ v.numItems \in 2 .. v.maxItems
    BY <1>1 DEF SlotAt
  <2>2. QED
    BY <1>1, <2>1, PlacesBefore, Zenon
<1>2. /\ s \in 0 .. v.maxItems - 1 /\ s > v.tail /\ k > 0
      /\ v.head + 1 < v.maxItems
  <2>1. 0 \in 0 .. v.numItems - 2
    BY <1>1
  <2>2. k > 0 /\ v.head + 1 < v.maxItems
    BY <1>0
  <2>3. k \in Nat /\ k < v.maxItems
    BY <1>1
  <2>4. SlotAt(v, k) \in 0 .. v.maxItems - 1
    BY <2>3, SlotInRing
  <2>5. QED
    BY <2>2, <2>4
<1>3. /\ w.head = v.head + 1 /\ w.tail = v.tail
      /\ w.numItems = v.numItems - 1 /\ w.maxItems = v.maxItems
      /\ w.ptrArr = [i \in DOMAIN v.ptrArr |->
                       IF i = v.head THEN Garbage
                       ELSE IF v.head < i /\ i <= s THEN v.ptrArr[i - 1]
                       ELSE v.ptrArr[i]]
  <2> DEFINE arr == [i \in DOMAIN v.ptrArr |->
                       IF i = v.head THEN Garbage
                       ELSE IF v.head < i /\ i <= s THEN v.ptrArr[i - 1]
                       ELSE v.ptrArr[i]]
  <2>1. w = [v EXCEPT !.ptrArr = arr, !.head = @ + 1, !.numItems = @ - 1]
    BY DEF CloseFromHead
  <2> HIDE DEF s, w, arr
  <2>2. /\ w.head = v.head + 1 /\ w.tail = v.tail
        /\ w.numItems = v.numItems - 1 /\ w.maxItems = v.maxItems
        /\ w.ptrArr = arr
    BY <2>1 DEF IsRing
  <2>3. QED
    BY <2>2 DEF arr
<1>4. w = [ptrArr |-> w.ptrArr, head |-> w.head, tail |-> w.tail,
           numItems |-> w.numItems, maxItems |-> w.maxItems]
  <2> DEFINE arr == [i \in DOMAIN v.ptrArr |->
                       IF i = v.head THEN Garbage
                       ELSE IF v.head < i /\ i <= s THEN v.ptrArr[i - 1]
                       ELSE v.ptrArr[i]]
  <2>1. w = [v EXCEPT !.ptrArr = arr, !.head = @ + 1, !.numItems = @ - 1]
    BY DEF CloseFromHead
  <2> HIDE DEF s, w, arr
  <2>2. QED
    BY <2>1 DEF IsRing
<1>5. DOMAIN v.ptrArr = 0 .. v.maxItems - 1
  BY <1>1
<1> HIDE DEF w
<1>6. w.ptrArr \in [0 .. v.maxItems - 1 -> S]
  <2> SUFFICES ASSUME NEW i \in 0 .. v.maxItems - 1 PROVE w.ptrArr[i] \in S
    BY <1>3, <1>5
  <2> HIDE DEF s
  <2>1. v.head < i => i - 1 \in 0 .. v.maxItems - 1
    BY <1>1
  <2>2. w.ptrArr[i] \in {Garbage, v.ptrArr[i]}
          \/ (v.head < i /\ w.ptrArr[i] = v.ptrArr[i - 1])
    BY <1>3, <1>5
  <2>3. v.ptrArr[i] \in S /\ (v.head < i => v.ptrArr[i - 1] \in S)
    BY <1>1, <2>1
  <2>4. QED
    BY <2>2, <2>3
<1>7. v.tail = SlotAt(w, v.numItems - 2)
  <2>1. 0 \in 0 .. v.numItems - 2
    BY <1>1
  <2>2. QED
    BY <1>0, <1>1, <1>3, <2>1 DEF SlotAt
<1>8. IsRing(w, S)
  <2>1. Valid(w)
    <3>1. /\ w.numItems \in 0 .. w.maxItems /\ w.numItems # 0
          /\ w.numItems - 1 = v.numItems - 2
      BY <1>1, <1>3
    <3>2. w.head \in 0 .. w.maxItems - 1
      BY <1>1, <1>2, <1>3
    <3> HIDE DEF s, Slot
    <3>3. QED
      BY <1>1, <1>3, <1>7, <3>1, <3>2 DEF Valid
  <2>2. QED
    BY <1>1, <1>3, <1>4, <1>6, <2>1 DEF IsRing
<1>9. ASSUME NEW j \in 0 .. v.numItems - 2
      PROVE  w.ptrArr[SlotAt(w, j)] = v.ptrArr[SlotAt(v, IF j < k THEN j ELSE j + 1)]
  <2> DEFINE i == SlotAt(v, j + 1)
  <2>1. SlotAt(w, j) = i /\ i \in 0 .. v.maxItems - 1 /\ i # v.head
    BY <1>0, <1>3 DEF SlotAt
  <2>2. CASE j < k
    <3>1. v.head < i /\ i <= s /\ SlotAt(v, j) = i - 1
      BY <1>0, <2>2 DEF SlotAt
    <3> HIDE DEF s, i
    <3>2. w.ptrArr[i] = v.ptrArr[i - 1]
      BY <1>3, <1>5, <2>1, <3>1
    <3>3. QED
      BY <2>1, <2>2, <3>1, <3>2
  <2>3. CASE j >= k
    <3>1. ~ (v.head < i /\ i <= s)
      BY <1>0, <2>3 DEF SlotAt
    <3> HIDE DEF s, i
    <3>2. w.ptrArr[i] = v.ptrArr[i]
      BY <1>3, <1>5, <2>1, <3>1
    <3>3. ~ (j < k)
      BY <2>3
    <3>4. QED
      BY <2>1, <3>2, <3>3 DEF i
  <2>4. QED
    BY <1>1, <2>2, <2>3
<1>10. LosesPlace(v, w, k)
  BY <1>3, <1>9 DEF LosesPlace
<1>11. QED
  BY <1>8, <1>10 DEF w

\* PTRVEC_remove() removes the item it finds and keeps the others in order.
THEOREM RemoveLosesOne ==
  ASSUME NEW S, Garbage \in S, NEW v, IsRing(v, S), NEW k \in 0 .. v.numItems - 1
  PROVE  /\ IsRing(CutSlot(v, SlotAt(v, k)), S)
         /\ LET old == Items(v)  new == Items(CutSlot(v, SlotAt(v, k))) IN
            /\ Len(new) = Len(old) - 1
            /\ \A j \in 1 .. Len(new) : new[j] = old[IF j <= k THEN j ELSE j + 1]
<1> DEFINE s == SlotAt(v, k)
           w == CutSlot(v, s)
<1>1. /\ v.maxItems \in Nat /\ v.maxItems > 0
      /\ v.numItems \in Nat /\ v.numItems <= v.maxItems /\ v.numItems > 0
      /\ v.head \in 0 .. v.maxItems - 1 /\ v.tail \in 0 .. v.maxItems - 1
      /\ v.ptrArr \in [0 .. v.maxItems - 1 -> S]
      /\ v.tail = SlotAt(v, v.numItems - 1)
  BY DEF IsRing, Valid
<1>2. s \in 0 .. v.maxItems - 1
  BY <1>1, SlotInRing
<1>3. IsRing(w, S) /\ LosesPlace(v, w, k)
  <2>1. CASE v.numItems = 1
    <3>1. w = [v EXCEPT !.ptrArr[s] = Garbage, !.head = 0, !.tail = 0, !.numItems = 0]
      BY <2>1 DEF CutSlot
    <3> HIDE DEF w, s
    <3>2. /\ w.ptrArr = [v.ptrArr EXCEPT ![s] = Garbage] /\ w.head = 0 /\ w.tail = 0
          /\ w.numItems = 0 /\ w.maxItems = v.maxItems
          /\ w = [ptrArr |-> w.ptrArr, head |-> w.head, tail |-> w.tail,
                  numItems |-> w.numItems, maxItems |-> w.maxItems]
      BY <3>1 DEF IsRing
    <3>3. QED
      BY <1>1, <1>2, <2>1, <3>2 DEF IsRing, Valid, LosesPlace
  <2>2. CASE v.numItems > 1 /\ s = v.head
    <3>1. w = CutHead(v) /\ k = 0
      BY <1>1, <2>2 DEF CutSlot, SlotAt, Wrap
    <3>2. IsRing(w, S)
      <4>1. IsRing(CutHead(v), S)
        BY <1>1, CutHeadIsTail
      <4> HIDE DEF w
      <4>2. QED
        BY <3>1, <4>1
    <3>3. /\ w.ptrArr = [v.ptrArr EXCEPT ![v.head] = Garbage]
          /\ w.head = After(v, v.head)
          /\ w.numItems = v.numItems - 1 /\ w.maxItems = v.maxItems
      <4> HIDE DEF w
      <4>1. QED
        BY <2>2, <3>1 DEF CutHead, IsRing
    <3> HIDE DEF w, s
    <3>4. ASSUME NEW j \in 0 .. v.numItems - 2
          PROVE  w.ptrArr[SlotAt(w, j)] = v.ptrArr[SlotAt(v, j + 1)]
      <4>1. /\ SlotAt(w, j) = SlotAt(v, j + 1) /\ SlotAt(v, j + 1) # v.head
            /\ SlotAt(v, j + 1) \in 0 .. v.maxItems - 1
        <5>1. /\ j + 1 \in 0 .. v.numItems - 1 /\ v.numItems > 1
              /\ j \in 0 .. v.maxItems - 1
          BY <1>1, <2>2
        <5>2. SlotAt(w, j) = SlotAt(v, j + 1)
          <6>1. SlotAt(w, j) = Wrap(Wrap(v.head + 1, v.maxItems) + j, v.maxItems)
            BY <3>3 DEF SlotAt, After
          <6>2. SlotAt(v, j + 1) = Wrap(v.head + (j + 1), v.maxItems)
            BY DEF SlotAt
          <6>3. QED
            BY <1>1, <5>1, <6>1, <6>2, PlaceAfter, Zenon
        <5>3. SlotAt(v, 0) = v.head
          BY <1>1 DEF SlotAt, Wrap
        <5>4. SlotAt(v, j + 1) # SlotAt(v, 0)
          BY <1>1, <5>1, SlotsDiffer
        <5>5. QED
          BY <1>1, <5>1, <5>2, <5>3, <5>4, SlotInRing
      <4>2. QED
        BY <1>1, <3>3, <4>1
    <3>5. QED
      BY <3>1, <3>2, <3>3, <3>4 DEF LosesPlace
  <2>3. CASE v.numItems > 1 /\ s # v.head /\ s = v.tail
    <3>1. w = CutTail(v) /\ k = v.numItems - 1
      BY <1>1, <2>3 DEF CutSlot, SlotAt, Wrap
    <3>2. IsRing(w, S)
      <4>1. IsRing(CutTail(v), S)
        BY <1>1, CutTailIsFront
      <4> HIDE DEF w
      <4>2. QED
        BY <3>1, <4>1
    <3>3. /\ w.ptrArr = [v.ptrArr EXCEPT ![v.tail] = Garbage] /\ w.head = v.head
          /\ w.numItems = v.numItems - 1 /\ w.maxItems = v.maxItems
      <4> HIDE DEF w
      <4>1. QED
        BY <2>3, <3>1 DEF CutTail, IsRing
    <3> HIDE DEF w, s
    <3>4. ASSUME NEW j \in 0 .. v.numItems - 2
          PROVE  w.ptrArr[SlotAt(w, j)] = v.ptrArr[SlotAt(v, j)] /\ j < k
      <4>1. /\ SlotAt(w, j) = SlotAt(v, j) /\ SlotAt(v, j) # v.tail
            /\ SlotAt(v, j) \in 0 .. v.maxItems - 1 /\ j < k
        <5>1. j < v.numItems - 1 /\ j < v.maxItems /\ v.numItems - 1 < v.maxItems
          BY <1>1
        <5>2. SlotAt(w, j) = SlotAt(v, j)
          BY <3>3 DEF SlotAt
        <5>3. SlotAt(v, j) # SlotAt(v, v.numItems - 1)
          BY <1>1, <5>1, SlotsDiffer
        <5>4. QED
          BY <1>1, <3>1, <5>1, <5>2, <5>3, SlotInRing
      <4>2. QED
        BY <1>1, <3>3, <4>1
    <3>5. QED
      BY <3>2, <3>3, <3>4 DEF LosesPlace
  <2>4. CASE v.numItems > 1 /\ s # v.head /\ s < v.tail
    <3>1. w = CloseFromTail(v, s)
      BY <1>1, <1>2, <2>4 DEF CutSlot
    <3>2. QED
      BY <2>4, <3>1, CloseFromTailLoses
  <2>5. CASE v.numItems > 1 /\ s # v.head /\ s > v.tail
    <3>1. w = CloseFromHead(v, s)
      BY <1>1, <1>2, <2>5 DEF CutSlot
    <3>2. QED
      BY <2>5, <3>1, CloseFromHeadLoses
  <2>6. QED
    BY <1>1, <1>2, <2>1, <2>2, <2>3, <2>4, <2>5
<1> DEFINE old == Items(v)
           new == Items(w)
<1>4. /\ Len(old) = v.numItems /\ Len(new) = v.numItems - 1
      /\ \A j \in 1 .. v.numItems : old[j] = v.ptrArr[SlotAt(v, j - 1)]
      /\ \A j \in 1 .. v.numItems - 1 : new[j] = w.ptrArr[SlotAt(w, j - 1)]
  <2> HIDE DEF w
  <2>1. w.numItems = v.numItems - 1
    BY <1>3 DEF LosesPlace
  <2>2. QED
    BY <1>3, <2>1, ItemsType
<1> HIDE DEF old, new, w
<1>5. ASSUME NEW j \in 1 .. v.numItems - 1
      PROVE  new[j] = old[IF j <= k THEN j ELSE j + 1]
  <2> DEFINE i == j - 1
             m == IF i < k THEN i ELSE i + 1
  <2>1. /\ i \in 0 .. v.numItems - 2 /\ m + 1 \in 1 .. v.numItems
        /\ (IF j <= k THEN j ELSE j + 1) = m + 1 /\ (m + 1) - 1 = m
    BY <1>1
  <2>2. new[j] = w.ptrArr[SlotAt(w, i)]
    BY <1>4
  <2> HIDE DEF i
  <2>3. w.ptrArr[SlotAt(w, i)] = v.ptrArr[SlotAt(v, m)]
    BY <1>3, <2>1 DEF LosesPlace
  <2> HIDE DEF m
  <2>4. old[m + 1] = v.ptrArr[SlotAt(v, m)]
    BY <1>4, <2>1
  <2>5. QED
    BY <2>1, <2>2, <2>3, <2>4
<1>6. QED
  BY <1>1, <1>3, <1>4, <1>5 DEF old, new, w

---------------------------------------------------------------------------
(* Buckets, and the nodes their items point to.                            *)

Buckets == 0 .. NumBuckets - 1
Slots == Addresses \cup {Garbage}
Nodes == [key : Keys, item : Values]
Places(v) == 1 .. v.numItems

\* A bucket is a ring that grows: a quarter of its size is more than nothing.
RingsInv ==
  /\ DOMAIN bucketArr = Buckets
  /\ \A b \in Buckets : IsRing(bucketArr[b], Slots) /\ bucketArr[b].maxItems >= 4
NodesInv == node \in [Addresses -> Nodes \cup {Garbage}]
TableInv == RingsInv /\ NodesInv /\ NodesInPlace

---------------------------------------------------------------------------
(* Helpers.                                                                *)

\* The addresses a ring holds.
Held(v) == {Items(v)[i] : i \in DOMAIN Items(v)}
Once(v) == \A i, j \in DOMAIN Items(v) : Items(v)[i] = Items(v)[j] => i = j

\* t is s without its i-th element.
Closed(t, s, i) ==
  /\ t \in Seq(Slots) /\ DOMAIN t = 1 .. Len(s) - 1
  /\ \A j \in DOMAIN t : t[j] = s[IF j < i THEN j ELSE j + 1]

LEMMA GarbageIs == Garbage \in Slots /\ Addresses \subseteq Slots
BY DEF Slots

\* The bucket of a key is one of the table.
LEMMA BucketIs ==
  ASSUME NEW k \in Keys
  PROVE  Bucket(k) \in Buckets
BY NumBucketsAssumption, HashAssumption DEF Bucket, Buckets

LEMMA ChainIs ==
  ASSUME NEW v, IsRing(v, Slots)
  PROVE  /\ Items(v) \in Seq(Slots) /\ DOMAIN Items(v) = 1 .. v.numItems
         /\ v.numItems \in Nat
         /\ \A i \in 1 .. v.numItems : Items(v)[i] = v.ptrArr[SlotAt(v, i - 1)]
<1>1. Items(v) \in Seq(Slots) /\ Len(Items(v)) = v.numItems
  BY ItemsType
<1>2. v.numItems \in Nat
  BY DEF IsRing, Valid
<1>3. QED
  BY <1>1, <1>2, LenProperties, ItemsType

\* NodesInPlace, of one bucket.
LEMMA InPlaceIs ==
  NodesInPlace <=>
    \A b \in DOMAIN bucketArr :
      /\ Held(bucketArr[b]) \subseteq Live
      /\ Once(bucketArr[b])
      /\ Held(bucketArr[b]) = {a \in Live : Bucket(node[a].key) = b}
BY DEF NodesInPlace, Held, Once, Chain

\* Every set of numbers that is not empty has a least one.
Less == {p \in Nat \X Nat : p[1] < p[2]}

LEMMA LessIsWellFounded == IsWellFoundedOn(Less, Nat)
BY NatLessThanWellFounded DEF OpToRel, Less

LEMMA FirstIs ==
  ASSUME NEW S \in SUBSET Nat, S # {}
  PROVE  FirstIn(S) \in S /\ \A k \in S : FirstIn(S) <= k
<1>1. PICK m \in S : \A k \in S : <<k, m>> \notin Less
  BY LessIsWellFounded, WFMin, Zenon
<1>2. \A k \in S : ~(k < m)
  BY <1>1 DEF Less
<1>3. \A k \in S : m <= k
  BY <1>2
<1>4. QED
  BY <1>3 DEF FirstIn

---------------------------------------------------------------------------
(* The operations on a bucket.                                             *)

\* There is room for one more item, and none is lost when the ring grows.
LEMMA RoomIs ==
  ASSUME NEW v, IsRing(v, Slots), v.maxItems >= 4, NEW w \in Room(v)
  PROVE  /\ IsRing(w, Slots) /\ ~Full(w) /\ w.maxItems >= 4
         /\ Items(w) = Items(v)
<1>1. v.maxItems \in Nat /\ v.numItems \in Nat /\ v.numItems <= v.maxItems
  BY DEF IsRing, Valid
<1>2. CASE ~Full(v)
  BY <1>2 DEF Room
<1>3. CASE Full(v)
  <2>1. PICK max \in GrowthSizes(v.maxItems) : w = Resize(v, max)
    BY <1>3 DEF Room
  <2>2. max \in Nat /\ max > v.maxItems
    BY <1>1, <2>1 DEF GrowthSizes
  <2>3. IsRing(w, Slots) /\ Items(w) = Items(v)
    <3>1. max >= v.maxItems
      BY <1>1, <2>2
    <3>2. IsRing(Resize(v, max), Slots) /\ Items(Resize(v, max)) = Items(v)
      BY <2>2, <3>1, GarbageIs, ResizeKeepsItems, Zenon
    <3>3. QED
      BY <2>1, <3>2
  <2>4. w.maxItems = max /\ w.numItems = v.numItems
    BY <2>1 DEF Resize
  <2>5. QED
    BY <1>1, <1>3, <2>2, <2>3, <2>4 DEF Full
<1>4. QED
  BY <1>2, <1>3

LEMMA AddedIs ==
  ASSUME NEW v, IsRing(v, Slots), v.maxItems >= 4, Once(v),
         NEW a \in Addresses, a \notin Held(v), NEW w \in Room(v)
  PROVE  /\ IsRing(PutTail(w, a), Slots) /\ PutTail(w, a).maxItems >= 4
         /\ Once(PutTail(w, a)) /\ Held(PutTail(w, a)) = Held(v) \cup {a}
         /\ Items(PutTail(w, a)) = Append(Items(v), a)
<1> DEFINE u == PutTail(w, a)
           s == Items(v)
           t == Items(u)
<1>1. IsRing(w, Slots) /\ ~Full(w) /\ w.maxItems >= 4 /\ Items(w) = s
  BY RoomIs
<1>2. IsRing(u, Slots) /\ t = Append(s, a)
  BY <1>1, PutTailAppends DEF Slots
<1>3. u.maxItems = w.maxItems
  <2>1. w = [ptrArr |-> w.ptrArr, head |-> w.head, tail |-> w.tail,
             numItems |-> w.numItems, maxItems |-> w.maxItems]
    BY <1>1 DEF IsRing
  <2>2. QED
    BY <2>1 DEF PutTail
<1>4. s \in Seq(Slots) /\ a \in Slots
  BY ChainIs DEF Slots
<1> HIDE DEF u, s, t
<1>5. /\ DOMAIN s = 1 .. Len(s) /\ Len(s) \in Nat /\ DOMAIN t = 1 .. Len(s) + 1
      /\ \A i \in 1 .. Len(s) : t[i] = s[i]
      /\ t[Len(s) + 1] = a
  BY <1>2, <1>4, AppendProperties, LenProperties
<1>6. \A i \in DOMAIN t : i = Len(s) + 1 \/ i \in DOMAIN s
  BY <1>5
<1>7. \A i \in DOMAIN s : i \in DOMAIN t /\ t[i] = s[i] /\ s[i] # a
  BY <1>5 DEF Held, s
<1>8. Once(u)
  BY <1>5, <1>6, <1>7 DEF Once, s, t
<1>9. Held(u) = Held(v) \cup {a}
  BY <1>5, <1>6, <1>7 DEF Held, s, t
<1>10. QED
  BY <1>1, <1>2, <1>3, <1>8, <1>9 DEF u, s, t

LEMMA RemovedIs ==
  ASSUME NEW v, IsRing(v, Slots), v.maxItems >= 4, Once(v), NEW i \in DOMAIN Items(v),
         NEW a, a = Items(v)[i]
  PROVE  /\ IsRing(Remove(v, a), Slots) /\ Remove(v, a).maxItems >= 4
         /\ Once(Remove(v, a)) /\ Held(Remove(v, a)) = Held(v) \ {a}
         /\ Closed(Items(Remove(v, a)), Items(v), i)
<1> DEFINE s == Items(v)
           k == i - 1
           w == CutSlot(v, SlotAt(v, k))
           t == Items(w)
           n == v.numItems
<1>1. /\ s \in Seq(Slots) /\ DOMAIN s = 1 .. n /\ n \in Nat
      /\ \A j \in 1 .. n : s[j] = v.ptrArr[SlotAt(v, j - 1)]
      /\ i \in 1 .. n /\ k \in 0 .. n - 1
  BY ChainIs
<1>2. Place(v, a) = k
  <2>1. v.ptrArr[SlotAt(v, k)] = a
    BY <1>1
  <2>2. ASSUME NEW j \in 0 .. n - 1, v.ptrArr[SlotAt(v, j)] = a PROVE j = k
    <3>1. j + 1 \in 1 .. n /\ (j + 1) - 1 = j
      BY <1>1
    <3>2. s[j + 1] = a
      BY <1>1, <2>2, <3>1
    <3>3. j + 1 = i
      BY <1>1, <3>1, <3>2 DEF Once
    <3>4. QED
      BY <1>1, <3>3
  <2>3. \A j \in 0 .. k - 1 : j \in 0 .. n - 1 /\ j # k
    BY <1>1
  <2> DEFINE IsPlace(m) == /\ v.ptrArr[SlotAt(v, m)] = a
                           /\ \A j \in 0 .. m - 1 : v.ptrArr[SlotAt(v, j)] # a
  <2>4. IsPlace(k)
    BY <2>1, <2>2, <2>3
  <2>5. \A m \in 0 .. n - 1 : IsPlace(m) => m = k
    BY <2>2
  <2>6. Place(v, a) = CHOOSE m \in 0 .. n - 1 : IsPlace(m)
    BY DEF Place
  <2> HIDE DEF IsPlace, n, k
  <2>7. k \in 0 .. n - 1
    BY <1>1
  <2>8. QED
    BY <2>4, <2>5, <2>6, <2>7
<1>3. Remove(v, a) = w
  BY <1>2 DEF Remove
<1>4. /\ IsRing(w, Slots) /\ Len(t) = Len(s) - 1
      /\ \A j \in 1 .. Len(t) : t[j] = s[IF j <= k THEN j ELSE j + 1]
  <2>1. k \in 0 .. v.numItems - 1
    BY <1>1
  <2> HIDE DEF k
  <2>2. QED
    BY <2>1, GarbageIs, RemoveLosesOne, Zenon
<1>5. w.maxItems = v.maxItems
  <2>1. v = [ptrArr |-> v.ptrArr, head |-> v.head, tail |-> v.tail,
             numItems |-> v.numItems, maxItems |-> v.maxItems]
    BY DEF IsRing
  <2>2. QED
    BY <2>1 DEF CutSlot, CutHead, CutTail, CloseFromTail, CloseFromHead
<1> HIDE DEF t, w
<1>6. Len(s) = n /\ DOMAIN t = 1 .. n - 1
  <2>1. Len(s) = n
    BY <1>1, LenProperties
  <2>2. t \in Seq(Slots)
    BY <1>4, ChainIs DEF t
  <2> HIDE DEF s, n
  <2>3. QED
    BY <1>4, <2>1, <2>2, LenProperties
<1> HIDE DEF s, n
<1>7. \A j \in DOMAIN t : \E m \in DOMAIN s : m # i /\ t[j] = s[m] /\ (m = j \/ m = j + 1)
                                            /\ (m = j <=> j < i)
  <2>1. SUFFICES ASSUME NEW j \in DOMAIN t
                 PROVE  \E m \in DOMAIN s : m # i /\ t[j] = s[m] /\ (m = j \/ m = j + 1)
                                            /\ (m = j <=> j < i)
    OBVIOUS
  <2>2. CASE j < i
    BY <1>1, <1>4, <1>6, <2>2
  <2>3. CASE ~(j < i)
    <3>1. j + 1 \in DOMAIN s /\ j + 1 # i /\ t[j] = s[j + 1] /\ j + 1 # j
      BY <1>1, <1>4, <1>6, <2>3
    <3>2. QED
      BY <2>3, <3>1
  <2>4. QED
    BY <2>2, <2>3
<1>8. \A j \in DOMAIN s : j = i \/ \E m \in DOMAIN t : t[m] = s[j]
  <2>1. SUFFICES ASSUME NEW j \in DOMAIN s, j # i
                 PROVE  \E m \in DOMAIN t : t[m] = s[j]
    OBVIOUS
  <2>2. CASE j < i
    <3>1. j \in DOMAIN t /\ t[j] = s[j]
      BY <1>1, <1>4, <1>6, <2>2
    <3>2. QED
      BY <3>1
  <2>3. CASE j > i
    <3>1. j - 1 \in DOMAIN t /\ t[j - 1] = s[j]
      BY <1>1, <1>4, <1>6, <2>3
    <3>2. QED
      BY <3>1
  <2>4. QED
    BY <1>1, <2>1, <2>2, <2>3
<1>9. Once(w)
  <2>1. ASSUME NEW j \in DOMAIN t, NEW m \in DOMAIN t, t[j] = t[m] PROVE j = m
    <3>1. PICK p \in DOMAIN s : p # i /\ t[j] = s[p] /\ (p = j \/ p = j + 1) /\ (p = j <=> j < i)
      BY <1>7
    <3>2. PICK q \in DOMAIN s : q # i /\ t[m] = s[q] /\ (q = m \/ q = m + 1) /\ (q = m <=> m < i)
      BY <1>7
    <3>3. p = q
      BY <2>1, <3>1, <3>2 DEF Once, s
    <3>4. QED
      BY <1>1, <1>6, <3>1, <3>2, <3>3
  <2>2. QED
    BY <2>1 DEF Once, t
<1>10. Held(w) = Held(v) \ {a}
  <2>1. \A j \in DOMAIN s : s[j] = a => j = i
    BY DEF Once, s
  <2>2. a = s[i]
    BY DEF s
  <2>3. QED
    BY <1>7, <1>8, <2>1, <2>2 DEF Held, s, t
<1>11. Closed(t, s, i)
  <2>1. \A j \in DOMAIN t : j <= k <=> j < i
    BY <1>1, <1>6
  <2>2. t \in Seq(Slots)
    BY <1>4, ChainIs DEF t
  <2> HIDE DEF k
  <2>3. QED
    BY <1>4, <1>6, <2>1, <2>2, LenProperties DEF Closed
<1>12. QED
  BY <1>3, <1>4, <1>5, <1>9, <1>10, <1>11 DEF s, t

LEMMA DrainedIs ==
  ASSUME NEW v, IsRing(v, Slots), v.maxItems >= 4
  PROVE  /\ IsRing(Drained(v), Slots) /\ Drained(v).maxItems >= 4
         /\ Once(Drained(v)) /\ Held(Drained(v)) = {} /\ DOMAIN Items(Drained(v)) = {}
<1> DEFINE w == Drained(v)
<1>1. /\ w.maxItems = v.maxItems /\ w.numItems = 0 /\ w.tail = v.tail
      /\ w.head = IF v.numItems > 0 THEN v.tail ELSE v.head
      /\ w.ptrArr = [s \in 0 .. v.maxItems - 1 |-> Garbage]
      /\ w = [ptrArr |-> w.ptrArr, head |-> w.head, tail |-> w.tail,
              numItems |-> w.numItems, maxItems |-> w.maxItems]
  <2>1. /\ v = [ptrArr |-> v.ptrArr, head |-> v.head, tail |-> v.tail,
                numItems |-> v.numItems, maxItems |-> v.maxItems]
        /\ DOMAIN v.ptrArr = 0 .. v.maxItems - 1
    BY DEF IsRing
  <2>2. w = [v EXCEPT !.ptrArr = [s \in DOMAIN v.ptrArr |-> Garbage], !.numItems = 0,
                      !.head = IF v.numItems > 0 THEN v.tail ELSE v.head]
    BY DEF Drained
  <2> HIDE DEF w
  <2>3. QED
    BY <2>1, <2>2
<1> HIDE DEF w
<1>2. IsRing(w, Slots)
  BY <1>1 DEF IsRing, Valid, Slots
<1>3. DOMAIN Items(w) = {}
  BY <1>1, <1>2, ChainIs
<1>4. QED
  BY <1>1, <1>2, <1>3 DEF Once, Held, w

---------------------------------------------------------------------------
(* The operations on the table.                                            *)

\* What is in place holds of each bucket.
LEMMA BucketHolds ==
  ASSUME TableInv, NEW b \in Buckets
  PROVE  /\ IsRing(bucketArr[b], Slots) /\ bucketArr[b].maxItems >= 4
         /\ Once(bucketArr[b]) /\ Held(bucketArr[b]) \subseteq Live
         /\ Held(bucketArr[b]) = {a \in Live : Bucket(node[a].key) = b}
BY InPlaceIs DEF TableInv, RingsInv

LEMMA TableIs ==
  ASSUME DOMAIN bucketArr = Buckets, node \in [Addresses -> Nodes \cup {Garbage}],
         \A b \in Buckets :
           /\ IsRing(bucketArr[b], Slots) /\ bucketArr[b].maxItems >= 4
           /\ Once(bucketArr[b])
           /\ Held(bucketArr[b]) = {a \in Live : Bucket(node[a].key) = b}
  PROVE  TableInv
<1>1. NodesInPlace
  BY InPlaceIs
<1>2. QED
  BY <1>1 DEF TableInv, RingsInv, NodesInv

\* The same of the next state.
LEMMA NextTableIs ==
  ASSUME DOMAIN bucketArr' = Buckets, node' \in [Addresses -> Nodes \cup {Garbage}],
         \A b \in Buckets :
           /\ IsRing(bucketArr'[b], Slots) /\ bucketArr'[b].maxItems >= 4
           /\ Once(bucketArr'[b])
           /\ Held(bucketArr'[b]) = {a \in Live' : Bucket(node'[a].key) = b}
  PROVE  TableInv'
<1>1. NodesInPlace'
  BY DEF NodesInPlace, Held, Once, Chain
<1>2. QED
  BY <1>1 DEF TableInv, RingsInv, NodesInv

LEMMA LiveNodes ==
  ASSUME TableInv
  PROVE  /\ \A a \in Live : a \in Addresses /\ node[a] \in Nodes
                            /\ node[a].key \in Keys /\ Bucket(node[a].key) \in Buckets
         /\ \A a \in Addresses : a \in Live \/ node[a] = Garbage
<1>1. \A a \in Live : a \in Addresses /\ node[a] \in Nodes
  BY DEF TableInv, NodesInv, Live
<1>2. \A a \in Live : node[a].key \in Keys
  BY <1>1 DEF Nodes
<1>3. QED
  BY <1>1, <1>2, BucketIs DEF Live

LEMMA InitHolds ==
  ASSUME Init
  PROVE  TableInv
<1>1. bucketArr = [b \in Buckets |-> Vector(SlotsPerBucket)]
      /\ node = [a \in Addresses |-> Garbage]
  BY DEF Init, Buckets
<1>2. IsRing(Vector(SlotsPerBucket), Slots) /\ Items(Vector(SlotsPerBucket)) = <<>>
  <2>1. SlotsPerBucket \in Nat \ {0}
    BY SlotsAssumption
  <2>2. QED
    BY <2>1, GarbageIs, VectorRing, Zenon
<1>3. Vector(SlotsPerBucket).maxItems >= 4
  BY SlotsAssumption DEF Vector
<1>4. Once(Vector(SlotsPerBucket)) /\ Held(Vector(SlotsPerBucket)) = {}
  BY <1>2 DEF Once, Held
<1>5. Live = {}
  BY <1>1 DEF Live
<1>6. QED
  BY <1>1, <1>2, <1>3, <1>4, <1>5, TableIs

LEMMA AddHolds ==
  ASSUME TableInv, NEW k \in Keys, NEW x \in Values, NEW a \in Addresses, AddKey(k, x, a)
  PROVE  TableInv'
<1> DEFINE c == Bucket(k)
<1>1. c \in Buckets
  BY BucketIs
<1>2. PICK v \in Room(bucketArr[c]) : bucketArr' = [bucketArr EXCEPT ![c] = PutTail(v, a)]
  BY DEF AddKey
<1>3. a \notin Live /\ node' = [node EXCEPT ![a] = Node(k, x)]
  BY DEF AddKey
<1>4. Node(k, x) \in Nodes /\ Node(k, x).key = k /\ Node(k, x) # Garbage
  BY AddressesAssumption DEF Node, Nodes
<1>5. DOMAIN bucketArr = Buckets /\ node \in [Addresses -> Nodes \cup {Garbage}]
  BY DEF TableInv, RingsInv, NodesInv
<1>6. /\ bucketArr'[c] = PutTail(v, a) /\ DOMAIN bucketArr' = Buckets
      /\ \A b \in Buckets : b # c => bucketArr'[b] = bucketArr[b]
      /\ node' \in [Addresses -> Nodes \cup {Garbage}] /\ node'[a] = Node(k, x)
      /\ \A o \in Addresses : o # a => node'[o] = node[o]
  BY <1>1, <1>2, <1>3, <1>4, <1>5
<1>7. Live' = Live \cup {a}
  BY <1>3, <1>4, <1>6 DEF Live
<1>8. \A o \in Live : o # a /\ node'[o] = node[o]
  BY <1>3, <1>6 DEF Live
<1> HIDE DEF c
<1>9. ASSUME NEW b \in Buckets
      PROVE  /\ IsRing(bucketArr'[b], Slots) /\ bucketArr'[b].maxItems >= 4
             /\ Once(bucketArr'[b])
             /\ Held(bucketArr'[b]) = {o \in Live' : Bucket(node'[o].key) = b}
  <2> DEFINE u == bucketArr'[b]
  <2>1. Bucket(node'[a].key) = c
    BY <1>4, <1>6 DEF c
  <2>2. /\ IsRing(bucketArr[b], Slots) /\ bucketArr[b].maxItems >= 4
        /\ Once(bucketArr[b]) /\ Held(bucketArr[b]) \subseteq Live
        /\ Held(bucketArr[b]) = {o \in Live : Bucket(node[o].key) = b}
    BY BucketHolds
  <2>3. /\ IsRing(u, Slots) /\ u.maxItems >= 4 /\ Once(u)
        /\ Held(u) = Held(bucketArr[b]) \cup (IF b = c THEN {a} ELSE {})
    <3>1. CASE b = c
      <4>1. a \notin Held(bucketArr[b])
        BY <1>3, <2>2
      <4>2. u = PutTail(v, a) /\ v \in Room(bucketArr[b])
        BY <1>6, <3>1
      <4> HIDE DEF u
      <4>3. QED
        BY <2>2, <3>1, <4>1, <4>2, AddedIs
    <3>2. CASE b # c
      BY <1>6, <2>2, <3>2
    <3>3. QED
      BY <3>1, <3>2
  <2> HIDE DEF u
  <2>4. Held(u) = {o \in Live' : Bucket(node'[o].key) = b}
    BY <1>7, <1>8, <2>1, <2>2, <2>3
  <2>5. QED
    BY <2>3, <2>4 DEF u
<1>10. QED
  BY <1>6, <1>9, NextTableIs

LEMMA RemoveHolds ==
  ASSUME TableInv, NEW call, NEW k \in Keys, NEW i \in Matches(k), RemoveNode(call, k, i)
  PROVE  TableInv'
<1> DEFINE c == Bucket(k)
           a == Chain(c)[i]
<1>1. c \in Buckets
  BY BucketIs
<1>2. i \in DOMAIN Items(bucketArr[c]) /\ a = Items(bucketArr[c])[i] /\ node[a].key = k
  BY DEF Matches, HasKey, Chain
<1>3. a \in Live
  BY <1>1, <1>2, BucketHolds DEF Held
<1>4. /\ bucketArr' = [bucketArr EXCEPT ![c] = Remove(bucketArr[c], a)]
      /\ node' = [node EXCEPT ![a] = Garbage]
  BY DEF RemoveNode
<1>5. DOMAIN bucketArr = Buckets /\ node \in [Addresses -> Nodes \cup {Garbage}]
  BY DEF TableInv, RingsInv, NodesInv
<1> HIDE DEF c, a
<1>6. /\ bucketArr'[c] = Remove(bucketArr[c], a) /\ DOMAIN bucketArr' = Buckets
      /\ \A b \in Buckets : b # c => bucketArr'[b] = bucketArr[b]
      /\ node' \in [Addresses -> Nodes \cup {Garbage}]
      /\ \A o \in Addresses : node'[o] = IF o = a THEN Garbage ELSE node[o]
  BY <1>1, <1>4, <1>5
<1>7. Live' = Live \ {a}
  BY <1>6 DEF Live
<1>8. \A o \in Live : o # a => node'[o] = node[o]
  BY <1>6 DEF Live
<1>9. ASSUME NEW b \in Buckets
      PROVE  /\ IsRing(bucketArr'[b], Slots) /\ bucketArr'[b].maxItems >= 4
             /\ Once(bucketArr'[b])
             /\ Held(bucketArr'[b]) = {o \in Live' : Bucket(node'[o].key) = b}
  <2> DEFINE u == bucketArr'[b]
  <2>1. Bucket(node[a].key) = c
    BY <1>2 DEF c
  <2>2. /\ IsRing(bucketArr[b], Slots) /\ bucketArr[b].maxItems >= 4
        /\ Once(bucketArr[b])
        /\ Held(bucketArr[b]) = {o \in Live : Bucket(node[o].key) = b}
    BY BucketHolds
  <2>3. /\ IsRing(u, Slots) /\ u.maxItems >= 4 /\ Once(u)
        /\ Held(u) = Held(bucketArr[b]) \ {a}
    <3>1. CASE b = c
      <4>1. u = Remove(bucketArr[b], a)
        BY <1>6, <3>1
      <4> HIDE DEF u
      <4>2. QED
        BY <1>2, <2>2, <3>1, <4>1, RemovedIs
    <3>2. CASE b # c
      <4>1. u = bucketArr[b]
        BY <1>6, <3>2
      <4>2. a \notin Held(bucketArr[b])
        BY <2>1, <2>2, <3>2
      <4> HIDE DEF u
      <4>3. QED
        BY <2>2, <4>1, <4>2
    <3>3. QED
      BY <3>1, <3>2
  <2> HIDE DEF u
  <2>4. Held(u) = {o \in Live' : Bucket(node'[o].key) = b}
    BY <1>7, <1>8, <2>2, <2>3
  <2>5. QED
    BY <2>3, <2>4 DEF u
<1>10. QED
  BY <1>6, <1>9, NextTableIs

LEMMA ClearHolds ==
  ASSUME TableInv, ClearAndDestroy
  PROVE  TableInv'
<1> DEFINE freed == UNION {Freed(b) : b \in DOMAIN bucketArr}
<1>1. /\ bucketArr' = [b \in DOMAIN bucketArr |-> Drained(bucketArr[b])]
      /\ node' = [a \in Addresses |-> IF a \in freed THEN Garbage ELSE node[a]]
  BY DEF ClearAndDestroy
<1>2. DOMAIN bucketArr = Buckets
  BY DEF TableInv, RingsInv
<1>3. \A a \in Live : a \in freed
  <2>1. \A a \in Live : \E b \in Buckets : a \in Held(bucketArr[b])
    BY LiveNodes, BucketHolds
  <2>2. QED
    BY <1>2, <2>1 DEF Freed, Held, Chain
<1> HIDE DEF freed
<1>4. \A a \in Addresses : node'[a] = Garbage
  BY <1>1, <1>3, LiveNodes
<1>5. node' \in [Addresses -> Nodes \cup {Garbage}] /\ Live' = {}
  BY <1>1, <1>4 DEF Live
<1>6. ASSUME NEW b \in Buckets
      PROVE  /\ IsRing(bucketArr'[b], Slots) /\ bucketArr'[b].maxItems >= 4
             /\ Once(bucketArr'[b]) /\ Held(bucketArr'[b]) = {}
  BY <1>1, <1>2, BucketHolds, DrainedIs
<1>7. DOMAIN bucketArr' = Buckets
  BY <1>1, <1>2
<1>8. QED
  BY <1>5, <1>6, <1>7, NextTableIs

\* A node is found by its key, or by key and item, and the first that matches goes.
LEMMA NextHolds ==
  ASSUME TableInv, [Next]_vars
  PROVE  TableInv'
<1>1. CASE UNCHANGED <<bucketArr, node>>
  BY <1>1 DEF TableInv, RingsInv, NodesInv, NodesInPlace, Live, Chain
<1>2. ASSUME NEW i \in Inserts, AddKey(i[1], i[2], i[3]) PROVE TableInv'
  <2>1. i[1] \in Keys /\ i[2] \in Values /\ i[3] \in Addresses
    BY InsertsAssumption
  <2>2. QED
    BY <1>2, <2>1, AddHolds
<1>3. ASSUME NEW k \in Keys
      PROVE  Matches(k) \in SUBSET Nat /\ \A x : MatchesItem(k, x) \subseteq Matches(k)
  <2>1. Bucket(k) \in Buckets
    BY BucketIs
  <2>2. IsRing(bucketArr[Bucket(k)], Slots)
    BY <2>1, BucketHolds
  <2>3. DOMAIN Chain(Bucket(k)) \subseteq Nat
    BY <2>2, ChainIs DEF Chain
  <2>4. QED
    BY <2>3 DEF Matches, MatchesItem
<1>4. ASSUME NEW k \in Keys, RemoveItem(k) PROVE TableInv'
  <2>1. CASE Matches(k) = {}
    BY <1>1, <1>4, <2>1 DEF RemoveItem, NotFound
  <2>2. CASE Matches(k) # {}
    <3>1. FirstIn(Matches(k)) \in Matches(k)
      BY <1>3, <2>2, FirstIs
    <3>2. RemoveNode(<<"removeItem", k>>, k, FirstIn(Matches(k)))
      BY <1>4, <2>2 DEF RemoveItem
    <3>3. QED
      BY <3>1, <3>2, RemoveHolds
  <2>3. QED
    BY <2>1, <2>2
<1>5. ASSUME NEW k \in Keys, NEW x \in Values, RemoveSpecificItem(k, x) PROVE TableInv'
  <2>1. CASE MatchesItem(k, x) = {}
    BY <1>1, <1>5, <2>1 DEF RemoveSpecificItem, NotFound
  <2>2. CASE MatchesItem(k, x) # {}
    <3>1. MatchesItem(k, x) \in SUBSET Nat /\ MatchesItem(k, x) \subseteq Matches(k)
      BY <1>3
    <3>2. FirstIn(MatchesItem(k, x)) \in Matches(k)
      BY <2>2, <3>1, FirstIs
    <3>3. RemoveNode(<<"removeSpecificItem", k, x>>, k, FirstIn(MatchesItem(k, x)))
      BY <1>5, <2>2 DEF RemoveSpecificItem
    <3>4. QED
      BY <3>2, <3>3, RemoveHolds
  <2>3. QED
    BY <2>1, <2>2
<1>6. QED
  BY <1>1, <1>2, <1>4, <1>5, ClearHolds
     DEF Next, AddKeyFails, FindItem, FindItems, FetchAllItems, vars

LEMMA TableHolds == Spec => []TableInv
<1>1. TableInv /\ [Next]_vars => TableInv'
  BY NextHolds
<1>2. QED
  BY InitHolds, <1>1, PTL DEF Spec

\* A bucket never points to anything but nodes, wherever and however often it grows,
\* and a node always has a key and an item, for every hash and number of buckets.
THEOREM TypeCorrect == Spec => []TypeOK
<1>1. TableInv => TypeOK
  <2>1. ASSUME TableInv, NEW b \in Buckets
        PROVE  /\ bucketArr[b].maxItems \in Nat
               /\ bucketArr[b].ptrArr \in [0 .. bucketArr[b].maxItems - 1 -> Slots]
    BY <2>1, BucketHolds DEF IsRing
  <2>2. QED
    BY <2>1 DEF TableInv, RingsInv, NodesInv, TypeOK, Buckets, Slots, Nodes
<1>2. QED
  BY TableHolds, <1>1, PTL

\* The items of every bucket lie between its head and its tail, through every wrap,
\* growth, removal in the middle and MAP_clearAndDestroy().
THEOREM RingsCorrect == Spec => []BucketsValid
<1>1. TableInv => BucketsValid
  BY DEF TableInv, RingsInv, IsRing, BucketsValid
<1>2. QED
  BY TableHolds, <1>1, PTL

\* Every allocated node is in the bucket of its key, once, and no bucket points to a
\* node that was freed: nothing leaks, and nothing is used after free().
THEOREM NodesCorrect == Spec => []NodesInPlace
<1>1. TableInv => NodesInPlace
  BY DEF TableInv
<1>2. QED
  BY TableHolds, <1>1, PTL

---------------------------------------------------------------------------
(* The nodes with one key, in the order of the bucket.                     *)

\* f goes through the n numbers of P, from the least to the greatest.
InOrder(f, n, P) ==
  /\ n \in Nat /\ f \in [1 .. n -> P] /\ P \subseteq Nat
  /\ \A i, j \in 1 .. n : i < j => f[i] < f[j]
  /\ \A p \in P : \E i \in 1 .. n : f[i] = p

\* Numbers are gone through in order in one way only.
LEMMA OrderAgrees ==
  ASSUME NEW P, NEW f, NEW g, NEW n, NEW m, InOrder(f, n, P), InOrder(g, m, P),
         NEW i \in 1 .. n
  PROVE  i \in 1 .. m /\ f[i] = g[i]
<1> DEFINE bad == {j \in 1 .. n : ~(j \in 1 .. m /\ f[j] = g[j])}
<1>0. n \in Nat /\ m \in Nat
  BY DEF InOrder
<1> SUFFICES ASSUME bad # {} PROVE FALSE
  OBVIOUS
<1>1. PICK j \in bad : \A k \in bad : j <= k
  <2>1. bad \in SUBSET Nat
    BY <1>0
  <2> HIDE DEF bad
  <2>2. FirstIn(bad) \in bad /\ \A k \in bad : FirstIn(bad) <= k
    BY <2>1, FirstIs
  <2>3. QED
    BY <2>2
<1>2. j \in 1 .. n /\ ~(j \in 1 .. m /\ f[j] = g[j])
  OBVIOUS
<1>3. \A k \in 1 .. n : k < j => k \in 1 .. m /\ f[k] = g[k]
  BY <1>0, <1>1, <1>2
<1> HIDE DEF bad
<1>4. f[j] \in P
  BY <1>2 DEF InOrder
<1>5. PICK k \in 1 .. m : g[k] = f[j]
  BY <1>4 DEF InOrder
<1>6. k > j
  <2>1. k # j
    BY <1>2, <1>5
  <2>2. ~(k < j)
    <3> SUFFICES ASSUME k < j PROVE FALSE
      OBVIOUS
    <3>1. k \in 1 .. n /\ f[k] = f[j]
      BY <1>0, <1>2, <1>3, <1>5
    <3>2. f[k] < f[j]
      BY <1>2, <3>1 DEF InOrder
    <3>3. f[j] \in Nat
      BY <1>4 DEF InOrder
    <3>4. QED
      BY <3>1, <3>2, <3>3
  <2>3. QED
    BY <1>0, <1>2, <1>5, <2>1, <2>2
<1>7. j \in 1 .. m /\ g[j] < f[j]
  <2>1. j \in 1 .. m
    BY <1>0, <1>2, <1>5, <1>6
  <2>2. g[j] < g[k]
    BY <1>5, <1>6, <2>1 DEF InOrder
  <2>3. QED
    BY <1>5, <2>1, <2>2
<1>8. g[j] \in P
  BY <1>7 DEF InOrder
<1>9. PICK l \in 1 .. n : f[l] = g[j]
  BY <1>8 DEF InOrder
<1>10. f[l] \in Nat /\ f[j] \in Nat /\ f[l] < f[j]
  BY <1>4, <1>7, <1>8, <1>9 DEF InOrder
<1>11. l < j
  <2>1. ~(j < l)
    BY <1>2, <1>9, <1>10 DEF InOrder
  <2>2. l # j
    BY <1>10
  <2>3. QED
    BY <1>0, <1>2, <1>9, <2>1, <2>2
<1>12. l \in 1 .. m /\ g[l] = g[j] /\ l < j
  BY <1>3, <1>9, <1>11
<1>13. g[l] < g[j]
  BY <1>7, <1>12 DEF InOrder
<1>14. QED
  BY <1>7, <1>9, <1>10, <1>12, <1>13

LEMMA OrderIsOne ==
  ASSUME NEW P, NEW f, NEW g, NEW n, NEW m, InOrder(f, n, P), InOrder(g, m, P)
  PROVE  n = m /\ f = g
<1>1. n \in Nat /\ m \in Nat /\ DOMAIN f = 1 .. n /\ DOMAIN g = 1 .. m
      /\ f \in [1 .. n -> P] /\ g \in [1 .. m -> P]
  BY DEF InOrder
<1>2. \A i \in 1 .. n : i \in 1 .. m /\ f[i] = g[i]
  BY OrderAgrees
<1>3. \A i \in 1 .. m : i \in 1 .. n
  BY OrderAgrees
<1>4. n = m
  <2>1. n > 0 => n <= m
    BY <1>1, <1>2
  <2>2. m > 0 => m <= n
    BY <1>1, <1>3
  <2>3. QED
    BY <1>1, <2>1, <2>2
<1>5. QED
  BY <1>1, <1>2, <1>4

\* The positions of a sequence of nodes at which the key is k, and the items at
\* positions in order.
With(nodes, s, k) == {i \in DOMAIN s : nodes[s[i]].key = k}
ItemsAt(f, n, nodes, s) == [m \in 1 .. n |-> nodes[s[f[m]]].item]

\* The recursion of StoredUnder(), of any nodes.
IsAmong(g, nodes, s, k) ==
  g = [n \in Nat |-> IF n = 0 THEN <<>>
                     ELSE IF nodes[s[n]].key = k THEN Append(g[n - 1], nodes[s[n]].item)
                     ELSE g[n - 1]]
Listing(nodes, s, k) == (CHOOSE g : IsAmong(g, nodes, s, k))[Len(s)]

LEMMA StoredIs ==
  ASSUME NEW k
  PROVE  StoredUnder(k) = Listing(node, Chain(Bucket(k)), k)
BY Zenon DEF StoredUnder, Listing, IsAmong, HasKey, ItemAt

LEMMA StoredNext ==
  ASSUME NEW k
  PROVE  StoredUnder(k)' = Listing(node', Chain(Bucket(k))', k)
BY Zenon DEF StoredUnder, Listing, IsAmong, HasKey, ItemAt, Bucket

\* One turn of it.
Turn(g, n, nodes, s, k) ==
  IF n = 0 THEN <<>>
  ELSE IF nodes[s[n]].key = k THEN Append(g[n - 1], nodes[s[n]].item)
  ELSE g[n - 1]
IsAmongUpTo(g, m, nodes, s, k) == g = [n \in 0 .. m |-> Turn(g, n, nodes, s, k)]

LEMMA AmongUpTo ==
  ASSUME NEW nodes, NEW s, NEW k, NEW max \in Nat
  PROVE  \E g : IsAmongUpTo(g, max, nodes, s, k)
<1> DEFINE bad == {m \in Nat : ~ \E g : IsAmongUpTo(g, m, nodes, s, k)}
<1> SUFFICES ASSUME bad # {} PROVE FALSE
  OBVIOUS
<1>1. PICK m \in bad : \A j \in bad : m <= j
  <2>1. bad \in SUBSET Nat
    OBVIOUS
  <2> HIDE DEF bad
  <2>2. QED
    BY <2>1, FirstIs
<1>2. m \in Nat
  OBVIOUS
<1>3. CASE m = 0
  <2>1. IsAmongUpTo([n \in 0 .. 0 |-> <<>>], 0, nodes, s, k)
    BY DEF IsAmongUpTo, Turn
  <2>2. QED
    BY <1>1, <1>3, <2>1
<1>4. CASE m # 0
  <2>1. m - 1 \in Nat /\ m - 1 \notin bad
    <3> HIDE DEF bad
    <3>1. QED
      BY <1>1, <1>2, <1>4
  <2>2. PICK g : IsAmongUpTo(g, m - 1, nodes, s, k)
    BY <2>1
  <2> DEFINE h == [n \in 0 .. m |-> Turn(g, n, nodes, s, k)]
  <2>3. \A n \in 0 .. m - 1 : g[n] = Turn(g, n, nodes, s, k)
    BY <2>2 DEF IsAmongUpTo
  <2>4. \A n \in 0 .. m : n # 0 => n - 1 \in 0 .. m - 1 /\ n - 1 \in 0 .. m
    BY <1>2
  <2>5. \A n \in 0 .. m : n # 0 => h[n - 1] = g[n - 1]
    BY <2>3, <2>4
  <2>6. h = [n \in 0 .. m |-> Turn(g, n, nodes, s, k)]
    OBVIOUS
  <2> HIDE DEF h
  <2>7. \A n \in 0 .. m : Turn(g, n, nodes, s, k) = Turn(h, n, nodes, s, k)
    BY <2>5 DEF Turn
  <2>8. IsAmongUpTo(h, m, nodes, s, k)
    BY <2>6, <2>7 DEF IsAmongUpTo
  <2>9. QED
    BY <1>1, <2>8
<1>5. QED
  BY <1>3, <1>4

LEMMA AmongAgree ==
  ASSUME NEW nodes, NEW s, NEW k, NEW max \in Nat, NEW f, NEW g, NEW l \in Nat, l >= max,
         IsAmongUpTo(f, max, nodes, s, k), IsAmongUpTo(g, l, nodes, s, k)
  PROVE  \A n \in 0 .. max : f[n] = g[n]
<1> DEFINE bad == {m \in 0 .. max : f[m] # g[m]}
<1> SUFFICES ASSUME bad # {} PROVE FALSE
  OBVIOUS
<1>1. PICK m \in bad : \A j \in bad : m <= j
  <2>1. bad \in SUBSET Nat
    OBVIOUS
  <2> HIDE DEF bad
  <2>2. QED
    BY <2>1, FirstIs
<1>2. m \in 0 .. max /\ f[m] # g[m]
  OBVIOUS
<1>3. f[m] = Turn(f, m, nodes, s, k) /\ g[m] = Turn(g, m, nodes, s, k)
  <2>1. m \in 0 .. l
    BY <1>2
  <2> HIDE DEF bad
  <2>2. QED
    BY <1>2, <2>1 DEF IsAmongUpTo
<1>4. m # 0 => f[m - 1] = g[m - 1]
  BY <1>1, <1>2
<1>5. QED
  BY <1>2, <1>3, <1>4 DEF Turn

LEMMA AmongExists ==
  ASSUME NEW nodes, NEW s, NEW k
  PROVE  \E g : IsAmong(g, nodes, s, k)
<1> DEFINE upTo(m) == CHOOSE f : IsAmongUpTo(f, m, nodes, s, k)
           g == [n \in Nat |-> upTo(n)[n]]
<1>1. \A m \in Nat : IsAmongUpTo(upTo(m), m, nodes, s, k)
  BY AmongUpTo, Zenon
<1> HIDE DEF upTo
<1>2. ASSUME NEW n \in Nat PROVE g[n] = Turn(g, n, nodes, s, k)
  <2>1. g[n] = Turn(upTo(n), n, nodes, s, k)
    BY <1>1 DEF IsAmongUpTo
  <2>2. CASE n = 0
    BY <2>1, <2>2 DEF Turn
  <2>3. CASE n # 0
    <3>1. n - 1 \in Nat /\ n >= n - 1 /\ n - 1 \in 0 .. n - 1
      BY <2>3
    <3>2. upTo(n - 1)[n - 1] = upTo(n)[n - 1]
      BY <1>1, <3>1, AmongAgree
    <3>3. g[n - 1] = upTo(n)[n - 1]
      BY <3>1, <3>2
    <3> HIDE DEF g
    <3>4. QED
      BY <2>1, <3>3 DEF Turn
  <2>4. QED
    BY <2>2, <2>3
<1>3. g = [n \in Nat |-> Turn(g, n, nodes, s, k)]
  <2>1. g = [n \in Nat |-> g[n]]
    OBVIOUS
  <2> HIDE DEF g
  <2>2. QED
    BY <1>2, <2>1
<1> HIDE DEF g
<1>4. QED
  BY <1>3 DEF IsAmong, Turn

\* One number more.
More(f, n, p) == [m \in 1 .. n + 1 |-> IF m = n + 1 THEN p ELSE f[m]]

LEMMA OrderGrows ==
  ASSUME NEW P, NEW f, NEW n, InOrder(f, n, P), NEW p \in Nat, \A q \in P : q < p
  PROVE  InOrder(More(f, n, p), n + 1, P \cup {p})
<1> DEFINE g == More(f, n, p)
<1>1. n \in Nat /\ f \in [1 .. n -> P] /\ P \subseteq Nat
  BY DEF InOrder
<1>2. /\ g \in [1 .. n + 1 -> P \cup {p}] /\ g[n + 1] = p
      /\ \A m \in 1 .. n : g[m] = f[m]
  BY <1>1 DEF More
<1> HIDE DEF g
<1>3. \A i, j \in 1 .. n + 1 : i < j => g[i] < g[j]
  <2> SUFFICES ASSUME NEW i \in 1 .. n + 1, NEW j \in 1 .. n + 1, i < j
               PROVE  g[i] < g[j]
    OBVIOUS
  <2>1. i \in 1 .. n
    BY <1>1
  <2>2. CASE j = n + 1
    BY <1>1, <1>2, <2>1, <2>2
  <2>3. CASE j # n + 1
    <3>1. j \in 1 .. n
      BY <1>1, <2>3
    <3>2. f[i] < f[j]
      BY <2>1, <3>1 DEF InOrder
    <3>3. QED
      BY <1>2, <2>1, <3>1, <3>2
  <2>4. QED
    BY <2>2, <2>3
<1>4. \A q \in P \cup {p} : \E i \in 1 .. n + 1 : g[i] = q
  <2>1. ASSUME NEW q \in P PROVE \E i \in 1 .. n + 1 : g[i] = q
    <3>1. PICK i \in 1 .. n : f[i] = q
      BY DEF InOrder
    <3>2. i \in 1 .. n + 1 /\ g[i] = q
      BY <1>1, <1>2, <3>1
    <3>3. QED
      BY <3>2
  <2>2. n + 1 \in 1 .. n + 1
    BY <1>1
  <2>3. QED
    BY <1>2, <2>1, <2>2
<1>5. P \cup {p} \subseteq Nat /\ n + 1 \in Nat
  BY <1>1
<1>6. QED
  BY <1>2, <1>3, <1>4, <1>5 DEF InOrder, g

LEMMA ItemsAtType ==
  ASSUME NEW nodes, NEW s, NEW f, NEW n \in Nat
  PROVE  /\ ItemsAt(f, n, nodes, s) \in Seq({nodes[s[f[m]]].item : m \in 1 .. n})
         /\ Len(ItemsAt(f, n, nodes, s)) = n /\ DOMAIN ItemsAt(f, n, nodes, s) = 1 .. n
         /\ \A m \in 1 .. n : ItemsAt(f, n, nodes, s)[m] = nodes[s[f[m]]].item
BY DEF ItemsAt

LEMMA ItemsGrow ==
  ASSUME NEW nodes, NEW s, NEW f, NEW n \in Nat, NEW p
  PROVE  ItemsAt(More(f, n, p), n + 1, nodes, s)
           = Append(ItemsAt(f, n, nodes, s), nodes[s[p]].item)
<1> DEFINE x == nodes[s[p]].item
           t == ItemsAt(f, n, nodes, s)
           u == Append(t, x)
           S == {nodes[s[f[m]]].item : m \in 1 .. n} \cup {x}
<1>1. /\ t \in Seq({nodes[s[f[m]]].item : m \in 1 .. n}) /\ Len(t) = n
      /\ DOMAIN t = 1 .. n /\ \A m \in 1 .. n : t[m] = nodes[s[f[m]]].item
  BY ItemsAtType
<1>2. t \in Seq(S) /\ x \in S
  <2> HIDE DEF t
  <2>1. QED
    BY <1>1, SeqMonotonic
<1> HIDE DEF t, S
<1>3. /\ u \in Seq(S) /\ Len(u) = n + 1
      /\ \A m \in 1 .. n : u[m] = t[m]
      /\ u[n + 1] = x
  BY <1>1, <1>2, AppendProperties
<1>4. u = [m \in 1 .. n + 1 |-> u[m]]
  BY <1>3, LenProperties
<1> HIDE DEF x, u
<1>5. \A m \in 1 .. n + 1 : u[m] = nodes[s[More(f, n, p)[m]]].item
  BY <1>1, <1>3 DEF More, x
<1>6. u = [m \in 1 .. n + 1 |-> nodes[s[More(f, n, p)[m]]].item]
  BY <1>4, <1>5
<1>7. QED
  BY <1>6 DEF ItemsAt, u, t, x

\* No node at all.
LEMMA NothingInOrder ==
  ASSUME NEW f, NEW nodes, NEW s
  PROVE  InOrder(<<>>, 0, {}) /\ ItemsAt(<<>>, 0, nodes, s) = <<>>
<1>1. 1 .. 0 = {}
  OBVIOUS
<1>2. <<>> \in [{} -> {}]
  OBVIOUS
<1>3. ItemsAt(<<>>, 0, nodes, s) = <<>>
  BY <1>1 DEF ItemsAt
<1>4. QED
  BY <1>1, <1>2, <1>3 DEF InOrder

\* What StoredUnder() comes to: the items at the positions of the key, in order.
LEMMA ListingExists ==
  ASSUME NEW nodes, NEW S, NEW s \in Seq(S), NEW k
  PROVE  \E f, n : /\ InOrder(f, n, With(nodes, s, k))
                   /\ Listing(nodes, s, k) = ItemsAt(f, n, nodes, s)
<1>1. PICK g : g = (CHOOSE h : IsAmong(h, nodes, s, k)) /\ IsAmong(g, nodes, s, k)
  BY AmongExists, Zenon
<1> DEFINE upTo(m) == {i \in 1 .. m : nodes[s[i]].key = k}
           right(m) == \E f, n : InOrder(f, n, upTo(m)) /\ g[m] = ItemsAt(f, n, nodes, s)
           bad == {m \in Nat : ~right(m)}
<1>2. \A m \in Nat : g[m] = IF m = 0 THEN <<>>
                             ELSE IF nodes[s[m]].key = k
                                  THEN Append(g[m - 1], nodes[s[m]].item)
                             ELSE g[m - 1]
  BY <1>1 DEF IsAmong
<1>3. bad = {}
  <2> SUFFICES ASSUME bad # {} PROVE FALSE
    OBVIOUS
  <2>1. PICK m \in bad : \A j \in bad : m <= j
    <3>1. bad \in SUBSET Nat
      OBVIOUS
    <3> HIDE DEF bad
    <3>2. QED
      BY <3>1, FirstIs
  <2>2. m \in Nat /\ ~right(m)
    OBVIOUS
  <2>3. m # 0
    <3> SUFFICES ASSUME m = 0 PROVE FALSE
      OBVIOUS
    <3>1. upTo(0) = {} /\ g[0] = <<>>
      BY <1>2
    <3> HIDE DEF upTo
    <3>2. right(0)
      BY <3>1, NothingInOrder
    <3> HIDE DEF right
    <3>3. QED
      BY <2>2, <3>2
  <2>4. m - 1 \in Nat /\ right(m - 1)
    <3>1. m - 1 \in Nat /\ m - 1 \notin bad
      <4> HIDE DEF bad
      <4>1. QED
        BY <2>1, <2>2, <2>3
    <3> HIDE DEF right
    <3>2. QED
      BY <3>1
  <2>5. PICK f, n : InOrder(f, n, upTo(m - 1)) /\ g[m - 1] = ItemsAt(f, n, nodes, s)
    BY <2>4
  <2>6. CASE nodes[s[m]].key = k
    <3>1. g[m] = Append(g[m - 1], nodes[s[m]].item)
      BY <1>2, <2>2, <2>3, <2>6
    <3>2. upTo(m) = upTo(m - 1) \cup {m}
      BY <2>2, <2>3, <2>6
    <3>3. \A q \in upTo(m - 1) : q < m
      BY <2>2
    <3> HIDE DEF upTo, right, bad
    <3>4. InOrder(More(f, n, m), n + 1, upTo(m))
      BY <2>2, <2>5, <3>2, <3>3, OrderGrows
    <3>5. g[m] = ItemsAt(More(f, n, m), n + 1, nodes, s)
      BY <2>5, <3>1, ItemsGrow DEF InOrder
    <3>6. QED
      BY <2>2, <3>4, <3>5 DEF right
  <2>7. CASE nodes[s[m]].key # k
    <3>1. g[m] = g[m - 1]
      BY <1>2, <2>2, <2>3, <2>7
    <3>2. upTo(m) = upTo(m - 1)
      BY <2>2, <2>3, <2>7
    <3> HIDE DEF upTo, bad
    <3>3. QED
      BY <2>2, <2>5, <3>1, <3>2
  <2>8. QED
    BY <2>6, <2>7
<1>4. Len(s) \in Nat /\ DOMAIN s = 1 .. Len(s)
  BY LenProperties
<1>5. right(Len(s))
  <2> HIDE DEF right
  <2>1. QED
    BY <1>3, <1>4
<1>6. upTo(Len(s)) = With(nodes, s, k)
  BY <1>4 DEF With
<1> HIDE DEF upTo
<1>7. QED
  BY <1>1, <1>5, <1>6 DEF Listing

LEMMA ListingIs ==
  ASSUME NEW nodes, NEW S, NEW s \in Seq(S), NEW k, NEW f, NEW n,
         InOrder(f, n, With(nodes, s, k))
  PROVE  Listing(nodes, s, k) = ItemsAt(f, n, nodes, s)
<1>1. PICK g, m : /\ InOrder(g, m, With(nodes, s, k))
                  /\ Listing(nodes, s, k) = ItemsAt(g, m, nodes, s)
  BY ListingExists
<1>2. n = m /\ f = g
  BY <1>1, OrderIsOne
<1>3. QED
  BY <1>1, <1>2

\* A sequence without its r-th element.
Without(l, r) == [m \in 1 .. Len(l) - 1 |-> l[IF m < r THEN m ELSE m + 1]]

LEMMA WithoutIs ==
  ASSUME NEW S, NEW l \in Seq(S), NEW r \in 1 .. Len(l)
  PROVE  SubSeq(l, 1, r - 1) \o SubSeq(l, r + 1, Len(l)) = Without(l, r)
<1> DEFINE a == SubSeq(l, 1, r - 1)
           b == SubSeq(l, r + 1, Len(l))
           n == Len(l)
<1>1. n \in Nat /\ r \in Int /\ r >= 1 /\ r <= n /\ \A i \in 1 .. n : l[i] \in S
  BY LenProperties, ElementOfSeq
<1>2. /\ a \in Seq(S) /\ Len(a) = r - 1 /\ \A i \in 1 .. r - 1 : a[i] = l[i]
  <2>1. \A i \in 1 .. r - 1 : l[i] \in S
    BY <1>1
  <2>2. /\ a \in Seq(S) /\ Len(a) = (IF 1 <= r - 1 THEN (r - 1) - 1 + 1 ELSE 0)
        /\ \A i \in 1 .. (r - 1) - 1 + 1 : a[i] = l[1 + i - 1]
    BY <1>1, <2>1, SubSeqProperties
  <2> HIDE DEF a, n
  <2>3. QED
    BY <1>1, <2>2
<1>3. /\ b \in Seq(S) /\ Len(b) = n - r /\ \A i \in 1 .. n - r : b[i] = l[i + r]
  <2>1. \A i \in r + 1 .. n : l[i] \in S
    BY <1>1
  <2>2. /\ b \in Seq(S) /\ Len(b) = (IF r + 1 <= n THEN n - (r + 1) + 1 ELSE 0)
        /\ \A i \in 1 .. n - (r + 1) + 1 : b[i] = l[(r + 1) + i - 1]
    BY <1>1, <2>1, SubSeqProperties
  <2> HIDE DEF b, n
  <2>3. QED
    BY <1>1, <2>2
<1> HIDE DEF a, b
<1>4. /\ a \o b \in Seq(S) /\ Len(a \o b) = n - 1
      /\ \A i \in 1 .. n - 1 : (a \o b)[i] = IF i <= r - 1 THEN a[i] ELSE b[i - (r - 1)]
  <2>1. /\ a \o b \in Seq(S) /\ Len(a \o b) = Len(a) + Len(b)
        /\ \A i \in 1 .. Len(a) + Len(b) :
             (a \o b)[i] = IF i <= Len(a) THEN a[i] ELSE b[i - Len(a)]
    BY <1>2, <1>3, ConcatProperties
  <2>2. Len(a) + Len(b) = n - 1 /\ Len(a) = r - 1
    BY <1>1, <1>2, <1>3
  <2>3. QED
    BY <2>1, <2>2
<1> HIDE DEF n
<1>5. \A i \in 1 .. n - 1 : (a \o b)[i] = l[IF i < r THEN i ELSE i + 1]
  <2> TAKE i \in 1 .. n - 1
  <2>1. CASE i < r
    BY <1>1, <1>2, <1>4, <2>1
  <2>2. CASE ~(i < r)
    <3>1. i - (r - 1) \in 1 .. n - r /\ (i - (r - 1)) + r = i + 1 /\ ~(i <= r - 1)
      BY <1>1, <2>2
    <3>2. (a \o b)[i] = b[i - (r - 1)]
      BY <1>4, <3>1
    <3>3. QED
      BY <1>3, <2>2, <3>1, <3>2
  <2>3. QED
    BY <2>1, <2>2
<1>6. a \o b = [i \in 1 .. n - 1 |-> (a \o b)[i]]
  BY <1>4, LenProperties
<1>7. a \o b = [i \in 1 .. n - 1 |-> l[IF i < r THEN i ELSE i + 1]]
  BY <1>5, <1>6
<1>8. QED
  BY <1>7 DEF Without, a, b, n

LEMMA TailIs ==
  ASSUME NEW S, NEW l \in Seq(S), l # <<>>
  PROVE  Tail(l) = Without(l, 1)
<1>1. /\ Tail(l) \in Seq(S) /\ Len(Tail(l)) = Len(l) - 1
      /\ \A i \in 1 .. Len(Tail(l)) : Tail(l)[i] = l[i + 1]
  BY HeadTailProperties
<1> DEFINE t == Tail(l)
<1>2. t \in Seq(S) /\ Len(t) = Len(l) - 1 /\ \A i \in 1 .. Len(l) - 1 : t[i] = l[i + 1]
  BY <1>1
<1> HIDE DEF t
<1>3. t = [i \in 1 .. Len(l) - 1 |-> t[i]]
  BY <1>2, LenProperties
<1>4. \A i \in 1 .. Len(l) - 1 : t[i] = l[IF i < 1 THEN i ELSE i + 1]
  BY <1>2
<1>5. QED
  BY <1>3, <1>4 DEF Without, t

---------------------------------------------------------------------------
(* The list of a key, when the nodes of its bucket change.                 *)

\* Nothing that the list is made of changes.
LEMMA ListingStays ==
  ASSUME NEW nodes, NEW new, NEW s \in Seq(Slots), NEW k,
         \A i \in DOMAIN s : new[s[i]] = nodes[s[i]]
  PROVE  Listing(new, s, k) = Listing(nodes, s, k)
<1>1. PICK f, n : /\ InOrder(f, n, With(nodes, s, k))
                  /\ Listing(nodes, s, k) = ItemsAt(f, n, nodes, s)
  BY ListingExists
<1>2. With(new, s, k) = With(nodes, s, k)
  BY DEF With
<1>3. \A m \in 1 .. n : f[m] \in DOMAIN s
  BY <1>1 DEF InOrder, With
<1>4. ItemsAt(f, n, new, s) = ItemsAt(f, n, nodes, s)
  BY <1>3 DEF ItemsAt
<1>5. InOrder(f, n, With(new, s, k))
  BY <1>1, <1>2
<1>6. Listing(new, s, k) = ItemsAt(f, n, new, s)
  BY <1>5, ListingIs
<1>7. QED
  BY <1>1, <1>4, <1>6

\* A node comes to the end of the bucket.
LEMMA ListingGrows ==
  ASSUME NEW nodes, NEW new, NEW s \in Seq(Slots), NEW a \in Slots, NEW k,
         \A i \in DOMAIN s : new[s[i]] = nodes[s[i]]
  PROVE  Listing(new, Append(s, a), k)
           = IF new[a].key = k THEN Append(Listing(nodes, s, k), new[a].item)
             ELSE Listing(nodes, s, k)
<1> DEFINE t == Append(s, a)
           p == Len(s) + 1
<1>1. PICK f, n : /\ InOrder(f, n, With(nodes, s, k))
                  /\ Listing(nodes, s, k) = ItemsAt(f, n, nodes, s)
  BY ListingExists
<1>2. Len(s) \in Nat /\ DOMAIN s = 1 .. Len(s) /\ n \in Nat
  BY <1>1, LenProperties DEF InOrder
<1>3. /\ t \in Seq(Slots) /\ DOMAIN t = 1 .. p /\ t[p] = a
      /\ \A i \in 1 .. Len(s) : t[i] = s[i]
  BY AppendProperties, LenProperties
<1> HIDE DEF t
<1>4. \A m \in 1 .. n : f[m] \in DOMAIN s
  BY <1>1 DEF InOrder, With
<1>5. ItemsAt(f, n, new, t) = ItemsAt(f, n, nodes, s)
  BY <1>2, <1>3, <1>4 DEF ItemsAt
<1>6. With(new, t, k) = With(nodes, s, k) \cup (IF new[a].key = k THEN {p} ELSE {})
  <2>1. \A i \in 1 .. p : i = p \/ i \in 1 .. Len(s)
    BY <1>2
  <2>2. \A i \in 1 .. Len(s) : i \in 1 .. p /\ i # p /\ new[t[i]] = nodes[s[i]]
    BY <1>2, <1>3
  <2>3. p \in 1 .. p
    BY <1>2
  <2> HIDE DEF p
  <2>4. QED
    BY <1>2, <1>3, <2>1, <2>2, <2>3 DEF With
<1>7. CASE new[a].key = k
  <2>1. p \in Nat /\ \A q \in With(nodes, s, k) : q < p
    BY <1>2 DEF With
  <2>2. ItemsAt(More(f, n, p), n + 1, new, t)
          = Append(ItemsAt(f, n, new, t), new[t[p]].item)
    BY <1>2, ItemsGrow
  <2> HIDE DEF p
  <2>3. InOrder(More(f, n, p), n + 1, With(new, t, k))
    BY <1>1, <1>6, <1>7, <2>1, OrderGrows
  <2>4. Listing(new, t, k) = ItemsAt(More(f, n, p), n + 1, new, t)
    BY <1>3, <2>3, ListingIs
  <2>5. QED
    BY <1>1, <1>3, <1>5, <1>7, <2>2, <2>4 DEF t
<1>8. CASE new[a].key # k
  <2>1. InOrder(f, n, With(new, t, k))
    BY <1>1, <1>6, <1>8
  <2>2. Listing(new, t, k) = ItemsAt(f, n, new, t)
    BY <1>3, <2>1, ListingIs
  <2>3. QED
    BY <1>1, <1>5, <1>8, <2>2 DEF t
<1>9. QED
  BY <1>7, <1>8

\* The numbers in order, without the r-th, and with those after i moved down.
Skip(f, n, r) == [m \in 1 .. n - 1 |-> f[IF m < r THEN m ELSE m + 1]]
Down(j, i) == IF j < i THEN j ELSE j - 1
Moved(f, n, i) == [m \in 1 .. n |-> Down(f[m], i)]

LEMMA OrderSkips ==
  ASSUME NEW P, NEW f, NEW n, InOrder(f, n, P), NEW r \in 1 .. n
  PROVE  InOrder(Skip(f, n, r), n - 1, P \ {f[r]})
<1> DEFINE g == Skip(f, n, r)
           at(m) == IF m < r THEN m ELSE m + 1
<1>1. n \in Nat /\ f \in [1 .. n -> P] /\ P \subseteq Nat /\ r \in Int /\ r >= 1 /\ r <= n
  BY DEF InOrder
<1>2. \A i, j \in 1 .. n : i < j => f[i] < f[j]
  BY DEF InOrder
<1>3. \A i \in 1 .. n : f[i] \in Nat
  BY <1>1
<1>4. \A m \in 1 .. n - 1 : at(m) \in 1 .. n /\ at(m) # r /\ g[m] = f[at(m)]
  BY <1>1 DEF Skip
<1>5. \A m, l \in 1 .. n - 1 : m < l => at(m) < at(l)
  BY <1>1
<1>6. \A i \in 1 .. n : i # r => \E m \in 1 .. n - 1 : at(m) = i
  <2> TAKE i \in 1 .. n
  <2>1. CASE i < r
    <3>1. i \in 1 .. n - 1 /\ at(i) = i
      BY <1>1, <2>1
    <3>2. QED
      BY <3>1
  <2>2. CASE i > r
    <3>1. i - 1 \in 1 .. n - 1 /\ at(i - 1) = i
      BY <1>1, <2>2
    <3>2. QED
      BY <3>1
  <2>3. QED
    BY <1>1, <2>1, <2>2
<1> HIDE DEF at, g
<1>7. \A i \in 1 .. n : i # r => f[i] # f[r]
  <2> TAKE i \in 1 .. n
  <2>1. i < r => f[i] < f[r]
    BY <1>1, <1>2
  <2>2. r < i => f[r] < f[i]
    BY <1>1, <1>2
  <2>3. QED
    BY <1>1, <1>3, <2>1, <2>2
<1>8. g \in [1 .. n - 1 -> P \ {f[r]}]
  <2>1. \A m \in 1 .. n - 1 : g[m] \in P \ {f[r]}
    BY <1>1, <1>4, <1>7
  <2>2. g = [m \in 1 .. n - 1 |-> g[m]]
    BY DEF g, Skip
  <2>3. QED
    BY <2>1, <2>2
<1>9. \A m, l \in 1 .. n - 1 : m < l => g[m] < g[l]
  BY <1>2, <1>4, <1>5
<1>10. \A p \in P \ {f[r]} : \E m \in 1 .. n - 1 : g[m] = p
  <2> TAKE p \in P \ {f[r]}
  <2>1. PICK i \in 1 .. n : f[i] = p
    BY DEF InOrder
  <2>2. i # r
    BY <2>1
  <2>3. PICK m \in 1 .. n - 1 : at(m) = i
    BY <1>6, <2>2
  <2>4. QED
    BY <1>4, <2>1, <2>3
<1>11. n - 1 \in Nat /\ P \ {f[r]} \subseteq Nat
  <2>1. n - 1 \in Nat
    BY <1>1
  <2>2. P \subseteq Nat
    BY <1>1
  <2>3. QED
    BY <2>1, <2>2
<1>12. QED
  BY <1>8, <1>9, <1>10, <1>11 DEF InOrder, g

LEMMA OrderMoves ==
  ASSUME NEW P, NEW f, NEW n, InOrder(f, n, P), NEW i \in Nat, i \notin P
  PROVE  InOrder(Moved(f, n, i), n, {Down(j, i) : j \in P})
<1> DEFINE g == Moved(f, n, i)
           Q == {Down(j, i) : j \in P}
<1>1. n \in Nat /\ f \in [1 .. n -> P] /\ P \subseteq Nat
  BY DEF InOrder
<1>2. \A j \in P : j \in Nat /\ j # i
  BY <1>1
<1>3. \A j \in P : Down(j, i) \in Nat
  BY <1>2 DEF Down
<1>4. \A j, l \in P : j < l => Down(j, i) < Down(l, i)
  BY <1>2 DEF Down
<1>5. \A m \in 1 .. n : f[m] \in P /\ g[m] = Down(f[m], i)
  BY <1>1 DEF Moved
<1>6. g \in [1 .. n -> Q]
  BY <1>5 DEF Moved
<1> HIDE DEF g
<1>7. \A m, l \in 1 .. n : m < l => g[m] < g[l]
  <2> SUFFICES ASSUME NEW m \in 1 .. n, NEW l \in 1 .. n, m < l
               PROVE  g[m] < g[l]
    OBVIOUS
  <2>1. f[m] < f[l]
    BY DEF InOrder
  <2>2. QED
    BY <1>4, <1>5, <2>1
<1>8. \A q \in Q : \E m \in 1 .. n : g[m] = q
  <2> TAKE q \in Q
  <2>1. PICK j \in P : q = Down(j, i)
    OBVIOUS
  <2>2. PICK m \in 1 .. n : f[m] = j
    BY DEF InOrder
  <2>3. QED
    BY <1>5, <2>1, <2>2
<1>9. Q \subseteq Nat
  BY <1>3
<1>10. QED
  BY <1>1, <1>6, <1>7, <1>8, <1>9 DEF InOrder, g

\* A node leaves the bucket: the list is made of the positions that are left.
LEMMA ListingCloses ==
  ASSUME NEW nodes, NEW new, NEW s \in Seq(Slots), NEW t, NEW i \in DOMAIN s, Closed(t, s, i),
         \A j \in DOMAIN s : j # i => new[s[j]] = nodes[s[j]],
         NEW k, NEW f, NEW n, InOrder(f, n, With(nodes, s, k) \ {i})
  PROVE  Listing(new, t, k) = ItemsAt(f, n, nodes, s)
<1> DEFINE P == With(nodes, s, k) \ {i}
           g == Moved(f, n, i)
<1>1. Len(s) \in Nat /\ DOMAIN s = 1 .. Len(s) /\ i \in Nat
  BY LenProperties
<1>2. /\ t \in Seq(Slots) /\ DOMAIN t = 1 .. Len(s) - 1
      /\ \A j \in DOMAIN t : t[j] = s[IF j < i THEN j ELSE j + 1]
  BY DEF Closed
<1>3. \A j \in DOMAIN s : j # i => /\ Down(j, i) \in DOMAIN t /\ t[Down(j, i)] = s[j]
                                   /\ new[t[Down(j, i)]] = nodes[s[j]]
  <2>1. \A j \in DOMAIN s : j # i => Down(j, i) \in DOMAIN t /\ t[Down(j, i)] = s[j]
    BY <1>1, <1>2 DEF Down
  <2>2. QED
    BY <2>1
<1>4. \A q \in DOMAIN t : \E j \in DOMAIN s : j # i /\ q = Down(j, i)
  <2> TAKE q \in DOMAIN t
  <2>1. CASE q < i
    <3>1. q \in DOMAIN s /\ q # i /\ q = Down(q, i)
      BY <1>1, <1>2, <2>1 DEF Down
    <3>2. QED
      BY <3>1
  <2>2. CASE ~(q < i)
    <3>1. q + 1 \in DOMAIN s /\ q + 1 # i /\ q = Down(q + 1, i)
      BY <1>1, <1>2, <2>2 DEF Down
    <3>2. QED
      BY <3>1
  <2>3. QED
    BY <2>1, <2>2
<1>5. With(new, t, k) = {Down(j, i) : j \in P}
  BY <1>3, <1>4 DEF With
<1>6. InOrder(g, n, With(new, t, k))
  <2>1. i \notin P /\ InOrder(f, n, P)
    OBVIOUS
  <2> HIDE DEF P, g
  <2>2. QED
    BY <1>1, <1>5, <2>1, OrderMoves DEF g
<1>7. Listing(new, t, k) = ItemsAt(g, n, new, t)
  <2> HIDE DEF g
  <2>1. QED
    BY <1>2, <1>6, ListingIs
<1>8. \A m \in 1 .. n : f[m] \in DOMAIN s /\ f[m] # i /\ g[m] = Down(f[m], i)
  BY DEF InOrder, With, Moved
<1>9. ItemsAt(g, n, new, t) = ItemsAt(f, n, nodes, s)
  <2> HIDE DEF g
  <2>1. QED
    BY <1>3, <1>8 DEF ItemsAt
<1>10. QED
  BY <1>7, <1>9

\* No other list than that of the node's key loses anything.
LEMMA ListingKept ==
  ASSUME NEW nodes, NEW new, NEW s \in Seq(Slots), NEW t, NEW i \in DOMAIN s, Closed(t, s, i),
         \A j \in DOMAIN s : j # i => new[s[j]] = nodes[s[j]], NEW k
  PROVE  nodes[s[i]].key # k => Listing(new, t, k) = Listing(nodes, s, k)
<1>1. PICK f, n : /\ InOrder(f, n, With(nodes, s, k))
                  /\ Listing(nodes, s, k) = ItemsAt(f, n, nodes, s)
  BY ListingExists
<1>2. nodes[s[i]].key # k => With(nodes, s, k) \ {i} = With(nodes, s, k)
  BY DEF With
<1>3. InOrder(f, n, With(nodes, s, k) \ {i}) => Listing(new, t, k) = ItemsAt(f, n, nodes, s)
  BY ListingCloses
<1>4. QED
  BY <1>1, <1>2, <1>3

\* And that one loses the item at the node's place among those of the key.
Leaves(nodes, new, s, t, i) ==
  /\ s \in Seq(Slots) /\ i \in DOMAIN s /\ Closed(t, s, i)
  /\ \A j \in DOMAIN s : j # i => new[s[j]] = nodes[s[j]]
PlaceIs(r, f, n, P, i) == InOrder(f, n, P) /\ r \in 1 .. n /\ f[r] = i

LEMMA ListingLoses ==
  ASSUME NEW nodes, NEW new, NEW s, NEW t, NEW i, Leaves(nodes, new, s, t, i), NEW k,
         NEW f, NEW n, NEW r, PlaceIs(r, f, n, With(nodes, s, k), i)
  PROVE  Listing(new, t, k) = Without(Listing(nodes, s, k), r)
<1>0. /\ s \in Seq(Slots) /\ i \in DOMAIN s /\ Closed(t, s, i)
      /\ \A j \in DOMAIN s : j # i => new[s[j]] = nodes[s[j]]
      /\ InOrder(f, n, With(nodes, s, k)) /\ r \in 1 .. n /\ f[r] = i
  BY DEF Leaves, PlaceIs
<1> DEFINE g == Skip(f, n, r)
           m == n - 1
           l == ItemsAt(f, n, nodes, s)
<1>1. InOrder(g, m, With(nodes, s, k) \ {i})
  BY <1>0, OrderSkips
<1>2. Listing(new, t, k) = ItemsAt(g, m, nodes, s)
  <2> HIDE DEF g, m
  <2>1. QED
    BY <1>0, <1>1, ListingCloses
<1>3. Listing(nodes, s, k) = l
  BY <1>0, ListingIs
<1>4. n \in Nat
  BY <1>0 DEF InOrder
<1>5. Len(l) = n /\ \A j \in 1 .. n : l[j] = nodes[s[f[j]]].item
  BY <1>4 DEF ItemsAt
<1> HIDE DEF l
<1>6. \A j \in 1 .. n - 1 : (IF j < r THEN j ELSE j + 1) \in 1 .. n
  BY <1>0, <1>4
<1>7. ItemsAt(g, m, nodes, s) = Without(l, r)
  BY <1>0, <1>4, <1>5, <1>6 DEF ItemsAt, Without, Skip
<1>8. QED
  BY <1>2, <1>3, <1>7

---------------------------------------------------------------------------
(* The list of each key, when the table changes.                           *)

LEMMA MatchesAre ==
  ASSUME NEW k
  PROVE  Matches(k) = With(node, Chain(Bucket(k)), k)
BY DEF Matches, HasKey, With

LEMMA BucketChain ==
  ASSUME TableInv, NEW b \in Buckets
  PROVE  /\ Chain(b) \in Seq(Slots) /\ DOMAIN Chain(b) \subseteq Nat \ {0}
         /\ \A i \in DOMAIN Chain(b) : /\ Chain(b)[i] \in Live
                                        /\ Bucket(node[Chain(b)[i]].key) = b
<1>1. /\ IsRing(bucketArr[b], Slots)
      /\ Held(bucketArr[b]) = {a \in Live : Bucket(node[a].key) = b}
  BY BucketHolds
<1>2. Chain(b) \in Seq(Slots) /\ DOMAIN Chain(b) \subseteq Nat \ {0}
  BY <1>1, ChainIs DEF Chain
<1>3. QED
  BY <1>1, <1>2 DEF Held, Chain

\* A key's list is that of its positions, in order.
LEMMA StoredHas ==
  ASSUME TableInv, NEW k \in Keys
  PROVE  \E f, n : /\ InOrder(f, n, Matches(k)) /\ n \in Nat
                   /\ StoredUnder(k) \in Seq(Values) /\ Len(StoredUnder(k)) = n
                   /\ \A m \in 1 .. n : StoredUnder(k)[m] = ItemAt(Bucket(k), f[m])
<1> DEFINE s == Chain(Bucket(k))
<1>1. /\ s \in Seq(Slots) /\ \A i \in DOMAIN s : s[i] \in Live
  BY BucketIs, BucketChain
<1>2. PICK f, n : /\ InOrder(f, n, With(node, s, k))
                  /\ Listing(node, s, k) = ItemsAt(f, n, node, s)
  <2> HIDE DEF s
  <2>1. QED
    BY <1>1, ListingExists
<1>3. StoredUnder(k) = ItemsAt(f, n, node, s)
  BY <1>2, StoredIs
<1>4. n \in Nat /\ \A m \in 1 .. n : f[m] \in DOMAIN s
  BY <1>2 DEF InOrder, With
<1> HIDE DEF s
<1>5. \A a \in Live : node[a].item \in Values
  BY LiveNodes DEF Nodes
<1>6. \A m \in 1 .. n : node[s[f[m]]].item \in Values
  BY <1>1, <1>4, <1>5
<1>7. /\ ItemsAt(f, n, node, s) \in Seq(Values) /\ Len(ItemsAt(f, n, node, s)) = n
      /\ \A m \in 1 .. n : ItemsAt(f, n, node, s)[m] = node[s[f[m]]].item
  BY <1>4, <1>6 DEF ItemsAt
<1>8. QED
  BY <1>2, <1>3, <1>4, <1>7, MatchesAre DEF s, ItemAt

\* MAP_addKey() appends to the list of the key.
LEMMA AddStored ==
  ASSUME TableInv, NEW k \in Keys, NEW x \in Values, NEW a \in Addresses, AddKey(k, x, a),
         NEW j \in Keys
  PROVE  StoredUnder(j)' = IF j = k THEN Append(StoredUnder(j), x) ELSE StoredUnder(j)
<1> DEFINE b == Bucket(j)
           s == Chain(b)
           t == Items(bucketArr'[b])
<1>1. PICK v \in Room(bucketArr[Bucket(k)]) :
        bucketArr' = [bucketArr EXCEPT ![Bucket(k)] = PutTail(v, a)]
  BY DEF AddKey
<1>2. a \notin Live /\ node' = [node EXCEPT ![a] = Node(k, x)]
  BY DEF AddKey
<1>3. DOMAIN bucketArr = Buckets /\ node \in [Addresses -> Nodes \cup {Garbage}]
  BY DEF TableInv, RingsInv, NodesInv
<1>4. b \in Buckets /\ Bucket(k) \in Buckets
  BY BucketIs
<1>5. /\ node'[a].key = k /\ node'[a].item = x
      /\ \A o \in Live : node'[o] = node[o]
  BY <1>2, <1>3 DEF Node, Live
<1>6. s \in Seq(Slots) /\ \A i \in DOMAIN s : node'[s[i]] = node[s[i]]
  BY <1>4, <1>5, BucketChain
<1>7. StoredUnder(j) = Listing(node, s, j) /\ StoredUnder(j)' = Listing(node', t, j)
  BY StoredIs, StoredNext DEF Chain, Bucket
<1> HIDE DEF b, s, t
<1>8. CASE b = Bucket(k)
  <2>1. t = Append(s, a)
    <3>1. bucketArr'[b] = PutTail(v, a) /\ v \in Room(bucketArr[b])
      BY <1>1, <1>3, <1>4, <1>8
    <3>2. /\ IsRing(bucketArr[b], Slots) /\ bucketArr[b].maxItems >= 4
          /\ Once(bucketArr[b]) /\ Held(bucketArr[b]) \subseteq Live
      BY <1>4, BucketHolds
    <3>3. a \notin Held(bucketArr[b])
      BY <1>2, <3>2
    <3>4. Items(PutTail(v, a)) = Append(Items(bucketArr[b]), a)
      BY <3>1, <3>2, <3>3, AddedIs
    <3>5. QED
      BY <3>1, <3>4 DEF t, s, Chain
  <2>2. a \in Slots
    BY GarbageIs
  <2>3. Listing(node', t, j) = IF node'[a].key = j THEN Append(Listing(node, s, j), node'[a].item)
                               ELSE Listing(node, s, j)
    BY <1>6, <2>1, <2>2, ListingGrows
  <2>4. QED
    BY <1>5, <1>7, <2>3
<1>9. CASE b # Bucket(k)
  <2>1. j # k
    BY <1>9 DEF b
  <2>2. t = s
    BY <1>1, <1>3, <1>4, <1>9 DEF t, s, Chain
  <2>3. Listing(node', s, j) = Listing(node, s, j)
    BY <1>6, ListingStays
  <2>4. QED
    BY <1>7, <2>1, <2>2, <2>3
<1>10. QED
  BY <1>8, <1>9

\* A removal takes its item out of the list of the key.
LEMMA RemoveStored ==
  ASSUME TableInv, NEW call, NEW k \in Keys, NEW i \in Matches(k), RemoveNode(call, k, i),
         NEW j \in Keys
  PROVE  /\ j # k => StoredUnder(j)' = StoredUnder(j)
         /\ \A f, n : \A r \in 1 .. n :
              InOrder(f, n, Matches(k)) /\ f[r] = i
              => StoredUnder(k)' = Without(StoredUnder(k), r)
<1> DEFINE c == Bucket(k)
           b == Bucket(j)
           a == Chain(c)[i]
           s(d) == Chain(d)
           t(d) == Items(bucketArr'[d])
<1>1. b \in Buckets /\ c \in Buckets
  BY BucketIs
<1>2. i \in DOMAIN Chain(c) /\ a = Chain(c)[i] /\ node[a].key = k
  BY DEF Matches, HasKey
<1>3. /\ bucketArr' = [bucketArr EXCEPT ![c] = Remove(bucketArr[c], a)]
      /\ node' = [node EXCEPT ![a] = Garbage]
  BY DEF RemoveNode
<1>4. DOMAIN bucketArr = Buckets /\ node \in [Addresses -> Nodes \cup {Garbage}]
  BY DEF TableInv, RingsInv, NodesInv
<1>5. \A o \in Live : o # a => node'[o] = node[o]
  BY <1>3, <1>4 DEF Live
<1>6. \A d \in Buckets : s(d) \in Seq(Slots) /\ \A m \in DOMAIN s(d) : s(d)[m] \in Live
  BY BucketChain
<1>7. \A l : /\ StoredUnder(l) = Listing(node, s(Bucket(l)), l)
             /\ StoredUnder(l)' = Listing(node', t(Bucket(l)), l)
  BY StoredIs, StoredNext DEF Chain, Bucket
<1>8. a \in Live
  BY <1>1, <1>2, <1>6
<1>9. Closed(t(c), s(c), i) /\ \A m \in DOMAIN s(c) : m # i => node'[s(c)[m]] = node[s(c)[m]]
  <2>1. /\ IsRing(bucketArr[c], Slots) /\ bucketArr[c].maxItems >= 4 /\ Once(bucketArr[c])
    BY <1>1, BucketHolds
  <2>2. i \in DOMAIN Items(bucketArr[c]) /\ a = Items(bucketArr[c])[i]
    BY <1>2 DEF Chain
  <2>3. bucketArr'[c] = Remove(bucketArr[c], a)
    BY <1>1, <1>3, <1>4
  <2>4. \A m \in DOMAIN s(c) : m # i => s(c)[m] # a
    BY <2>1, <2>2 DEF Once, Chain
  <2> HIDE DEF a, c
  <2>5. Closed(t(c), s(c), i)
    BY <2>1, <2>2, <2>3, RemovedIs DEF Chain
  <2> HIDE DEF t
  <2>6. QED
    BY <1>1, <1>5, <1>6, <2>4, <2>5
<1>10. s(c)[i] = a /\ node[s(c)[i]].key = k /\ i \in DOMAIN s(c)
  BY <1>2
<1> HIDE DEF a, b, c, t
<1>11. ASSUME j # k PROVE StoredUnder(j)' = StoredUnder(j)
  <2>1. CASE b = c
    <3>1. Listing(node', t(c), j) = Listing(node, s(c), j)
      <4> HIDE DEF s
      <4>1. QED
        BY <1>1, <1>6, <1>9, <1>10, <1>11, ListingKept
    <3>2. QED
      BY <1>7, <2>1, <3>1 DEF b
  <2>2. CASE b # c
    <3>1. t(b) = s(b)
      BY <1>1, <1>3, <1>4, <2>2 DEF t, Chain
    <3>2. \A m \in DOMAIN s(b) : s(b)[m] # a
      <4>1. \A m \in DOMAIN s(b) : Bucket(node[s(b)[m]].key) = b
        BY <1>1, BucketChain
      <4>2. Bucket(node[a].key) = c
        BY <1>2 DEF c
      <4>3. QED
        BY <2>2, <4>1, <4>2
    <3> HIDE DEF s
    <3>3. Listing(node', s(b), j) = Listing(node, s(b), j)
      BY <1>1, <1>5, <1>6, <3>2, ListingStays
    <3>4. QED
      BY <1>7, <3>1, <3>3 DEF b
  <2>3. QED
    BY <2>1, <2>2
<1>12. ASSUME NEW f, NEW n, NEW r \in 1 .. n, InOrder(f, n, Matches(k)), f[r] = i
       PROVE  StoredUnder(k)' = Without(StoredUnder(k), r)
  <2>1. InOrder(f, n, With(node, s(c), k))
    BY <1>12, MatchesAre DEF c
  <2>2. Listing(node', t(c), k) = Without(Listing(node, s(c), k), r)
    <3>1. Leaves(node, node', s(c), t(c), i)
      BY <1>1, <1>6, <1>9, <1>10 DEF Leaves
    <3>2. PlaceIs(r, f, n, With(node, s(c), k), i)
      BY <1>12, <2>1 DEF PlaceIs
    <3> HIDE DEF s
    <3>3. QED
      BY <3>1, <3>2, ListingLoses
  <2>3. QED
    BY <1>7, <2>2 DEF c
<1>13. QED
  BY <1>11, <1>12

---------------------------------------------------------------------------
(* The table implements a multimap.                                        *)

\* No list is longer than its bucket.
LEMMA NothingStored ==
  ASSUME TableInv, NEW k \in Keys, Matches(k) = {}
  PROVE  StoredUnder(k) = <<>>
<1>1. PICK f, n : InOrder(f, n, Matches(k)) /\ n \in Nat
                  /\ StoredUnder(k) \in Seq(Values) /\ Len(StoredUnder(k)) = n
  BY StoredHas
<1>2. n = 0
  <2>1. \A m \in 1 .. n : FALSE
    BY <1>1 DEF InOrder
  <2>2. n > 0 => 1 \in 1 .. n
    BY <1>1
  <2>3. QED
    BY <1>1, <2>1, <2>2
<1> DEFINE l == StoredUnder(k)
<1>3. l \in Seq(Values) /\ Len(l) = 0
  BY <1>1, <1>2
<1> HIDE DEF l
<1>4. l = <<>>
  BY <1>3, EmptySeq
<1>5. QED
  BY <1>4 DEF l

\* The first of the list is the one that is found first.
LEMMA FirstStored ==
  ASSUME TableInv, NEW k \in Keys, Matches(k) # {}
  PROVE  /\ FirstIn(Matches(k)) \in Matches(k)
         /\ StoredUnder(k) \in Seq(Values) /\ StoredUnder(k) # <<>>
         /\ StoredUnder(k)[1] = ItemAt(Bucket(k), FirstIn(Matches(k)))
         /\ \E f, n : PlaceIs(1, f, n, Matches(k), FirstIn(Matches(k)))
<1>1. PICK f, n : /\ InOrder(f, n, Matches(k)) /\ n \in Nat
                  /\ StoredUnder(k) \in Seq(Values) /\ Len(StoredUnder(k)) = n
                  /\ \A m \in 1 .. n : StoredUnder(k)[m] = ItemAt(Bucket(k), f[m])
  BY StoredHas
<1> DEFINE i == FirstIn(Matches(k))
           l == StoredUnder(k)
<1>2. i \in Matches(k) /\ \A j \in Matches(k) : i <= j
  BY <1>1, FirstIs DEF InOrder
<1>3. \A j \in Matches(k) : j \in Nat
  BY <1>1 DEF InOrder
<1> HIDE DEF i
<1>4. PICK m \in 1 .. n : f[m] = i
  BY <1>1, <1>2 DEF InOrder
<1>5. 1 \in 1 .. n
  BY <1>1, <1>4
<1>6. f[1] \in Matches(k)
  BY <1>1, <1>5 DEF InOrder
<1>7. m = 1
  <2>1. 1 < m => f[1] < f[m]
    BY <1>1, <1>5 DEF InOrder
  <2>2. ~(f[1] < i)
    BY <1>2, <1>3, <1>6
  <2>3. QED
    BY <1>1, <1>4, <2>1, <2>2
<1>8. l # <<>>
  <2>1. Len(l) = n /\ n # 0
    BY <1>1, <1>5
  <2> HIDE DEF l
  <2>2. QED
    BY <2>1
<1>9. l[1] = ItemAt(Bucket(k), i)
  BY <1>1, <1>4, <1>5, <1>7
<1>10. PlaceIs(1, f, n, Matches(k), i)
  BY <1>1, <1>4, <1>5, <1>7 DEF PlaceIs
<1>11. QED
  BY <1>1, <1>2, <1>8, <1>9, <1>10 DEF i

\* The first that has the item, too, is the first of the item in the list.
LEMMA FirstItemStored ==
  ASSUME TableInv, NEW k \in Keys, NEW x
  PROVE  LET l == StoredUnder(k)
             places == {m \in DOMAIN l : l[m] = x}
         IN  /\ MatchesItem(k, x) = {} <=> places = {}
             /\ MatchesItem(k, x) # {} =>
                  /\ FirstIn(MatchesItem(k, x)) \in Matches(k)
                  /\ ItemAt(Bucket(k), FirstIn(MatchesItem(k, x))) = x
                  /\ \E f, n : PlaceIs(FirstIn(places), f, n, Matches(k),
                                       FirstIn(MatchesItem(k, x)))
<1> DEFINE l == StoredUnder(k)
           places == {m \in DOMAIN l : l[m] = x}
           Q == MatchesItem(k, x)
<1>1. PICK f, n : /\ InOrder(f, n, Matches(k)) /\ n \in Nat
                  /\ l \in Seq(Values) /\ Len(l) = n
                  /\ \A m \in 1 .. n : l[m] = ItemAt(Bucket(k), f[m])
  BY StoredHas
<1>2. DOMAIN l = 1 .. n
  <2>1. l \in Seq(Values) /\ Len(l) = n
    BY <1>1
  <2> HIDE DEF l
  <2>2. QED
    BY <2>1, LenProperties
<1> HIDE DEF l
<1>3. Q = {i \in Matches(k) : ItemAt(Bucket(k), i) = x}
  BY DEF MatchesItem, ItemAt
<1>4. \A m \in places : f[m] \in Q
  BY <1>1, <1>2, <1>3 DEF InOrder
<1>5. \A i \in Q : \E m \in places : f[m] = i
  <2> TAKE i \in Q
  <2>1. PICK m \in 1 .. n : f[m] = i
    BY <1>1, <1>3 DEF InOrder
  <2>2. m \in places
    BY <1>1, <1>2, <1>3, <2>1
  <2>3. QED
    BY <2>1, <2>2
<1>6. Q \in SUBSET Nat /\ places \in SUBSET Nat
  BY <1>1, <1>2, <1>3 DEF InOrder
<1>7. Q = {} <=> places = {}
  <2> HIDE DEF Q, places
  <2>1. QED
    BY <1>4, <1>5
<1>8. ASSUME Q # {}
      PROVE  /\ FirstIn(Q) \in Matches(k) /\ ItemAt(Bucket(k), FirstIn(Q)) = x
             /\ PlaceIs(FirstIn(places), f, n, Matches(k), FirstIn(Q))
  <2> DEFINE i == FirstIn(Q)
             r == FirstIn(places)
  <2>1. i \in Q /\ \A j \in Q : i <= j
    <3> HIDE DEF Q
    <3>1. QED
      BY <1>6, <1>8, FirstIs
  <2>2. r \in places /\ \A m \in places : r <= m
    <3> HIDE DEF Q, places
    <3>1. QED
      BY <1>6, <1>7, <1>8, FirstIs
  <2> HIDE DEF i, r
  <2>3. f[r] = i
    <3>1. PICK m \in places : f[m] = i
      BY <1>5, <2>1
    <3>2. f[r] \in Q /\ i <= f[r] /\ r <= m
      BY <1>4, <2>1, <2>2, <3>1
    <3>3. r < m => f[r] < f[m]
      BY <1>1, <1>2, <2>2, <3>1 DEF InOrder
    <3>4. f[r] \in Nat /\ i \in Nat /\ r \in Nat /\ m \in Nat
      BY <1>6, <2>1, <2>2, <3>1, <3>2
    <3>5. QED
      BY <3>1, <3>2, <3>3, <3>4
  <2>4. r \in 1 .. n
    BY <1>2, <2>2
  <2>5. QED
    BY <1>1, <1>3, <2>1, <2>3, <2>4 DEF PlaceIs, i, r
<1>9. QED
  BY <1>7, <1>8 DEF l

\* The state of the multimap, in this state and the next.
Stored == [k \in Keys |-> StoredUnder(k)]

LEMMA SameStored ==
  ASSUME UNCHANGED <<bucketArr, node>>
  PROVE  Stored' = Stored
<1>1. \A k \in Keys : StoredUnder(k)' = StoredUnder(k)
  BY StoredIs, StoredNext DEF Chain
<1>2. QED
  BY <1>1 DEF Stored

LEMMA InitMaps ==
  ASSUME Init
  PROVE  Abstract!MultiMapInit
<1>1. TableInv
  BY InitHolds
<1>2. Live = {}
  BY AddressesAssumption DEF Init, Live
<1>3. ASSUME NEW k \in Keys PROVE StoredUnder(k) = <<>>
  <2>1. Bucket(k) \in Buckets
    BY BucketIs
  <2>2. DOMAIN Chain(Bucket(k)) = {}
    BY <1>1, <1>2, <2>1, BucketChain
  <2>3. Matches(k) = {}
    BY <2>2 DEF Matches
  <2>4. QED
    BY <1>1, <2>3, NothingStored
<1>4. answer = Abstract!Answer(<<"new">>, "0", <<>>)
  BY DEF Init, Answer, Abstract!Answer
<1>5. QED
  BY <1>3, <1>4 DEF Abstract!MultiMapInit

LEMMA AddMaps ==
  ASSUME TableInv, NEW k \in Keys, NEW x \in Values, NEW a \in Addresses, AddKey(k, x, a)
  PROVE  Abstract!Add(k, x)
<1>1. \A j \in Keys : StoredUnder(j)' = IF j = k THEN Append(StoredUnder(j), x)
                                        ELSE StoredUnder(j)
  BY AddStored
<1>2. Stored' = [Stored EXCEPT ![k] = Append(Stored[k], x)]
  BY <1>1 DEF Stored
<1>3. answer' = Answer(<<"addKey">>, "0", <<>>)
  BY DEF AddKey
<1>4. Abstract!Answers(<<"addKey">>, "0", <<>>)
  BY <1>3 DEF Answer, Abstract!Answers, Abstract!Answer
<1>5. QED
  BY <1>2, <1>4 DEF Abstract!Add, Stored

LEMMA AddFailsMaps ==
  ASSUME NEW k \in Keys, NEW x \in Values, AddKeyFails(k, x)
  PROVE  Abstract!Add(k, x)
<1>1. answer' = Answer(<<"addKey">>, "1", <<>>) /\ UNCHANGED <<bucketArr, node>>
  BY DEF AddKeyFails
<1>2. Stored' = Stored
  BY <1>1, SameStored
<1>3. Abstract!Answers(<<"addKey">>, "1", <<>>)
  BY <1>1 DEF Answer, Abstract!Answers, Abstract!Answer
<1>4. QED
  BY <1>2, <1>3 DEF Abstract!Add, Stored

LEMMA FindMaps ==
  ASSUME TableInv, NEW k \in Keys, FindItem(k)
  PROVE  Abstract!Lookup(k)
<1> DEFINE l == StoredUnder(k)
           found == IF Matches(k) = {} THEN <<>>
                    ELSE <<ItemAt(Bucket(k), FirstIn(Matches(k)))>>
<1>1. answer' = Answer(<<"findItem", k>>, "0", found) /\ UNCHANGED <<bucketArr, node>>
  BY DEF FindItem
<1>2. found = Abstract!FirstOf(l)
  <2>1. CASE Matches(k) = {}
    <3>1. l = <<>>
      BY <2>1, NothingStored
    <3> HIDE DEF l
    <3>2. QED
      BY <2>1, <3>1 DEF Abstract!FirstOf
  <2>2. CASE Matches(k) # {}
    <3>1. l \in Seq(Values) /\ l # <<>> /\ l[1] = ItemAt(Bucket(k), FirstIn(Matches(k)))
      BY <2>2, FirstStored
    <3> HIDE DEF l
    <3>2. Head(l) = l[1]
      BY <3>1
    <3>3. QED
      BY <2>2, <3>1, <3>2 DEF Abstract!FirstOf
  <2>3. QED
    BY <2>1, <2>2
<1>3. Stored' = Stored /\ Stored[k] = l
  BY <1>1, SameStored DEF Stored
<1> HIDE DEF found, l
<1>4. Abstract!Answers(<<"findItem", k>>, "0", Abstract!FirstOf(Stored[k]))
  BY <1>1, <1>2, <1>3 DEF Answer, Abstract!Answers, Abstract!Answer
<1>5. QED
  BY <1>3, <1>4 DEF Abstract!Lookup, Stored

LEMMA FindAllMaps ==
  ASSUME TableInv, NEW k \in Keys, FindItems(k)
  PROVE  Abstract!LookupAll(k)
<1> DEFINE l == StoredUnder(k)
           fits == Len(l) <= RtnArrSize
<1>1. /\ answer' = IF Len(l) > RtnArrSize THEN Answer(<<"findItems", k>>, "-1", <<>>)
                   ELSE Answer(<<"findItems", k>>, "0", l)
      /\ UNCHANGED <<bucketArr, node>>
  BY DEF FindItems
<1>2. Len(l) > RtnArrSize <=> ~fits
  <2>1. Len(l) \in Nat
    BY StoredHas
  <2> HIDE DEF l
  <2>2. QED
    BY <2>1, RtnArrAssumption
<1>3. Stored' = Stored /\ Stored[k] = l
  BY <1>1, SameStored DEF Stored
<1> HIDE DEF fits, l
<1>4. answer' = Answer(<<"findItems", k>>, IF fits THEN "0" ELSE "-1",
                                           IF fits THEN l ELSE <<>>)
  BY <1>1, <1>2
<1>5. Abstract!Answers(<<"findItems", k>>, IF fits THEN "0" ELSE "-1",
                                           IF fits THEN l ELSE <<>>)
  BY <1>4 DEF Answer, Abstract!Answers, Abstract!Answer
<1>6. QED
  BY <1>3, <1>5 DEF Abstract!LookupAll, Stored, fits

\* A removal from the place of a key's list where the node's item is.
LEMMA RemovedMaps ==
  ASSUME TableInv, NEW call, NEW k \in Keys, NEW i \in Matches(k), RemoveNode(call, k, i),
         NEW f, NEW n, NEW r, PlaceIs(r, f, n, Matches(k), i)
  PROVE  /\ Stored' = [Stored EXCEPT ![k] = Without(Stored[k], r)]
         /\ r \in 1 .. Len(Stored[k]) /\ Stored[k] \in Seq(Values)
         /\ answer' = Answer(call, "0", <<ItemAt(Bucket(k), i)>>)
<1>1. InOrder(f, n, Matches(k)) /\ r \in 1 .. n /\ f[r] = i
  BY DEF PlaceIs
<1>2. StoredUnder(k)' = Without(StoredUnder(k), r)
  BY <1>1, RemoveStored
<1>3. \A j \in Keys : j # k => StoredUnder(j)' = StoredUnder(j)
  BY RemoveStored
<1>4. \A j \in Keys : StoredUnder(j)' = IF j = k THEN Without(StoredUnder(k), r)
                                        ELSE StoredUnder(j)
  BY <1>2, <1>3
<1>5. Stored' = [Stored EXCEPT ![k] = Without(Stored[k], r)]
  BY <1>4 DEF Stored
<1>6. PICK g, m : /\ InOrder(g, m, Matches(k)) /\ m \in Nat
                  /\ StoredUnder(k) \in Seq(Values) /\ Len(StoredUnder(k)) = m
  BY StoredHas
<1>7. m = n
  BY <1>1, <1>6, OrderIsOne
<1>8. answer' = Answer(call, "0", <<ItemAt(Bucket(k), i)>>)
  BY DEF RemoveNode, ItemAt
<1>9. QED
  BY <1>1, <1>5, <1>6, <1>7, <1>8 DEF Stored

LEMMA RemoveMaps ==
  ASSUME TableInv, NEW k \in Keys, RemoveItem(k)
  PROVE  Abstract!Delete(k)
<1> DEFINE l == Stored[k]
           call == <<"removeItem", k>>
<1>1. l = StoredUnder(k)
  BY DEF Stored
<1>2. CASE Matches(k) = {}
  <2>1. answer' = Answer(call, "0", <<>>) /\ UNCHANGED <<bucketArr, node>>
    BY <1>2 DEF RemoveItem, NotFound
  <2>2. Stored' = Stored
    BY <2>1, SameStored
  <2>3. l = <<>>
    BY <1>1, <1>2, NothingStored
  <2>4. Stored' = [Stored EXCEPT ![k] = l]
    BY <2>2 DEF Stored
  <2> HIDE DEF l
  <2>5. Stored' = [Stored EXCEPT ![k] = IF l = <<>> THEN l ELSE Tail(l)]
    BY <2>3, <2>4
  <2>6. Abstract!Answers(call, "0", Abstract!FirstOf(l))
    BY <2>1, <2>3 DEF Answer, Abstract!Answers, Abstract!Answer, Abstract!FirstOf
  <2>7. QED
    BY <2>5, <2>6 DEF Abstract!Delete, l, Stored
<1>3. CASE Matches(k) # {}
  <2> DEFINE i == FirstIn(Matches(k))
             r == 1
  <2>1. /\ i \in Matches(k) /\ l # <<>> /\ l[1] = ItemAt(Bucket(k), i)
        /\ \E f, n : PlaceIs(1, f, n, Matches(k), i)
    BY <1>1, <1>3, FirstStored
  <2>2. RemoveNode(call, k, i)
    BY <1>3 DEF RemoveItem
  <2> HIDE DEF i, call
  <2>3. PICK f, n : PlaceIs(r, f, n, Matches(k), i)
    BY <2>1
  <2>4. /\ Stored' = [Stored EXCEPT ![k] = Without(l, r)]
        /\ l \in Seq(Values)
        /\ answer' = Answer(call, "0", <<ItemAt(Bucket(k), i)>>)
    <3>1. i \in Matches(k)
      BY <2>1
    <3> HIDE DEF r
    <3>2. QED
      BY <2>2, <2>3, <3>1, RemovedMaps
  <2> HIDE DEF l
  <2>5. Tail(l) = Without(l, 1) /\ Head(l) = l[1]
    BY <2>1, <2>4, TailIs
  <2>6. Stored' = [Stored EXCEPT ![k] = IF l = <<>> THEN l ELSE Tail(l)]
    BY <2>1, <2>4, <2>5
  <2>7. Abstract!Answers(call, "0", Abstract!FirstOf(l))
    BY <2>1, <2>4, <2>5 DEF Answer, Abstract!Answers, Abstract!Answer, Abstract!FirstOf
  <2>8. QED
    BY <2>6, <2>7 DEF Abstract!Delete, l, call, Stored
<1>4. QED
  BY <1>2, <1>3

LEMMA RemoveSpecificMaps ==
  ASSUME TableInv, NEW k \in Keys, NEW x \in Values, RemoveSpecificItem(k, x)
  PROVE  Abstract!DeleteItem(k, x)
<1> DEFINE l == Stored[k]
           call == <<"removeSpecificItem", k, x>>
           places == {m \in DOMAIN l : l[m] = x}
           first == CHOOSE m \in places : \A j \in places : m <= j
           less == Abstract!RemoveAt(l, first)
           i == FirstIn(MatchesItem(k, x))
<1>1. /\ MatchesItem(k, x) = {} <=> places = {}
      /\ MatchesItem(k, x) # {} =>
           /\ i \in Matches(k) /\ ItemAt(Bucket(k), i) = x
           /\ \E f, n : PlaceIs(first, f, n, Matches(k), i)
  <2>1. /\ MatchesItem(k, x) = {} <=> {m \in DOMAIN StoredUnder(k) : StoredUnder(k)[m] = x} = {}
        /\ MatchesItem(k, x) # {} =>
             /\ FirstIn(MatchesItem(k, x)) \in Matches(k)
             /\ ItemAt(Bucket(k), FirstIn(MatchesItem(k, x))) = x
             /\ \E f, n : PlaceIs(FirstIn({m \in DOMAIN StoredUnder(k) : StoredUnder(k)[m] = x}),
                                  f, n, Matches(k), FirstIn(MatchesItem(k, x)))
    BY FirstItemStored
  <2>2. l = StoredUnder(k)
    BY DEF Stored
  <2>3. first = FirstIn(places)
    BY DEF FirstIn
  <2> HIDE DEF l, first
  <2>4. QED
    BY <2>1, <2>2, <2>3, Zenon
<1>2. CASE MatchesItem(k, x) = {}
  <2>1. answer' = Answer(call, "0", <<>>) /\ UNCHANGED <<bucketArr, node>>
    BY <1>2 DEF RemoveSpecificItem, NotFound
  <2>2. Stored' = Stored
    BY <2>1, SameStored
  <2>3. places = {}
    BY <1>1, <1>2
  <2> HIDE DEF places, call, less
  <2>4. Abstract!Answers(call, "0", IF places = {} THEN <<>> ELSE <<x>>)
    BY <2>1, <2>3 DEF Answer, Abstract!Answers, Abstract!Answer
  <2>5. Stored' = IF places = {} THEN Stored ELSE [Stored EXCEPT ![k] = less]
    BY <2>2, <2>3
  <2>6. QED
    BY <2>4, <2>5, Zenon DEF Abstract!DeleteItem, places, call, less, Stored
<1>3. CASE MatchesItem(k, x) # {}
  <2>1. RemoveNode(call, k, i)
    BY <1>3 DEF RemoveSpecificItem
  <2>2. /\ i \in Matches(k) /\ ItemAt(Bucket(k), i) = x /\ places # {}
        /\ \E f, n : PlaceIs(first, f, n, Matches(k), i)
    BY <1>1, <1>3
  <2> HIDE DEF i, call, places, first
  <2>3. PICK f, n : PlaceIs(first, f, n, Matches(k), i)
    BY <2>2
  <2>4. /\ Stored' = [Stored EXCEPT ![k] = Without(l, first)]
        /\ first \in 1 .. Len(l) /\ l \in Seq(Values)
        /\ answer' = Answer(call, "0", <<ItemAt(Bucket(k), i)>>)
    BY <2>1, <2>2, <2>3, RemovedMaps
  <2> HIDE DEF l
  <2>5. less = Without(l, first)
    BY <2>4, WithoutIs DEF Abstract!RemoveAt
  <2> HIDE DEF less
  <2>6. Abstract!Answers(call, "0", IF places = {} THEN <<>> ELSE <<x>>)
    BY <2>2, <2>4 DEF Answer, Abstract!Answers, Abstract!Answer
  <2>7. Stored' = IF places = {} THEN Stored ELSE [Stored EXCEPT ![k] = less]
    BY <2>2, <2>4, <2>5
  <2>8. QED
    BY <2>6, <2>7, Zenon DEF Abstract!DeleteItem, places, call, first, less, l, Stored
<1>4. QED
  BY <1>2, <1>3

LEMMA ClearMaps ==
  ASSUME TableInv, ClearAndDestroy
  PROVE  Abstract!Empty
<1>1. /\ bucketArr' = [b \in DOMAIN bucketArr |-> Drained(bucketArr[b])]
      /\ answer' = Answer(<<"clear">>, "0", <<>>)
  BY DEF ClearAndDestroy
<1>2. DOMAIN bucketArr = Buckets
  BY DEF TableInv, RingsInv
<1>3. ASSUME NEW k \in Keys PROVE StoredUnder(k)' = <<>>
  <2> DEFINE b == Bucket(k)
             t == Items(bucketArr'[b])
  <2>1. b \in Buckets
    BY BucketIs
  <2>2. bucketArr'[b] = Drained(bucketArr[b])
    BY <1>1, <1>2, <2>1
  <2>3. IsRing(bucketArr[b], Slots) /\ bucketArr[b].maxItems >= 4
    BY <2>1, BucketHolds
  <2>4. IsRing(Drained(bucketArr[b]), Slots) /\ DOMAIN Items(Drained(bucketArr[b])) = {}
    BY <2>3, DrainedIs
  <2>5. t \in Seq(Slots) /\ DOMAIN t = {}
    BY <2>2, <2>4, ChainIs
  <2>6. StoredUnder(k)' = Listing(node', t, k)
    BY StoredNext DEF Chain, Bucket
  <2> HIDE DEF t
  <2>7. With(node', t, k) = {}
    BY <2>5 DEF With
  <2>8. InOrder(<<>>, 0, With(node', t, k)) /\ ItemsAt(<<>>, 0, node', t) = <<>>
    BY <2>7, NothingInOrder
  <2>9. Listing(node', t, k) = ItemsAt(<<>>, 0, node', t)
    BY <2>5, <2>8, ListingIs
  <2>10. QED
    BY <2>6, <2>8, <2>9
<1>4. Stored' = [k \in Keys |-> <<>>]
  BY <1>3 DEF Stored
<1>5. Abstract!Answers(<<"clear">>, "0", <<>>)
  BY <1>1 DEF Answer, Abstract!Answers, Abstract!Answer
<1>6. QED
  BY <1>4, <1>5 DEF Abstract!Empty, Stored

---------------------------------------------------------------------------
(* Visiting all nodes.                                                     *)

\* One turn of MAP_fetchAllItems()'s loop over the buckets.
Visited(g, b) == IF b = 0 THEN <<>> ELSE g[b - 1] \o Chain(b - 1)
VisitedUpTo(g, m) == g = [b \in 0 .. m |-> Visited(g, b)]

LEMMA VisitExists == ASSUME NEW max \in Nat PROVE \E g : VisitedUpTo(g, max)
<1> DEFINE bad == {m \in Nat : ~ \E g : VisitedUpTo(g, m)}
<1> SUFFICES ASSUME bad # {} PROVE FALSE
  OBVIOUS
<1>1. PICK m \in bad : \A j \in bad : m <= j
  <2>1. bad \in SUBSET Nat
    OBVIOUS
  <2> HIDE DEF bad
  <2>2. QED
    BY <2>1, FirstIs
<1>2. m \in Nat
  OBVIOUS
<1>3. CASE m = 0
  <2>1. VisitedUpTo([b \in 0 .. 0 |-> <<>>], 0)
    BY DEF VisitedUpTo, Visited
  <2>2. QED
    BY <1>1, <1>3, <2>1
<1>4. CASE m # 0
  <2>1. m - 1 \in Nat /\ m - 1 \notin bad
    <3> HIDE DEF bad
    <3>1. QED
      BY <1>1, <1>2, <1>4
  <2>2. PICK g : VisitedUpTo(g, m - 1)
    BY <2>1
  <2> DEFINE h == [b \in 0 .. m |-> Visited(g, b)]
  <2>3. \A b \in 0 .. m - 1 : g[b] = Visited(g, b)
    BY <2>2 DEF VisitedUpTo
  <2>4. \A b \in 0 .. m : b # 0 => b - 1 \in 0 .. m - 1 /\ b - 1 \in 0 .. m
    BY <1>2
  <2>5. \A b \in 0 .. m : b # 0 => h[b - 1] = g[b - 1]
    BY <2>3, <2>4
  <2>6. h = [b \in 0 .. m |-> Visited(g, b)]
    OBVIOUS
  <2> HIDE DEF h
  <2>7. \A b \in 0 .. m : Visited(g, b) = Visited(h, b)
    BY <2>5 DEF Visited
  <2>8. VisitedUpTo(h, m)
    BY <2>6, <2>7 DEF VisitedUpTo
  <2>9. QED
    BY <1>1, <2>8
<1>5. QED
  BY <1>3, <1>4

LEMMA AllNodesNext ==
  ASSUME NEW b \in 0 .. NumBuckets
  PROVE  AllNodes[b] = IF b = 0 THEN <<>> ELSE AllNodes[b - 1] \o Chain(b - 1)
<1>1. PICK g : VisitedUpTo(g, NumBuckets)
  BY VisitExists, NumBucketsAssumption
<1>2. AllNodes = CHOOSE f : f = [c \in 0 .. NumBuckets |->
                                   IF c = 0 THEN <<>> ELSE f[c - 1] \o Chain(c - 1)]
  BY Zenon DEF AllNodes
<1>3. g = [c \in 0 .. NumBuckets |-> IF c = 0 THEN <<>> ELSE g[c - 1] \o Chain(c - 1)]
  BY <1>1 DEF VisitedUpTo, Visited
<1>4. AllNodes = [c \in 0 .. NumBuckets |->
                    IF c = 0 THEN <<>> ELSE AllNodes[c - 1] \o Chain(c - 1)]
  BY <1>2, <1>3, Zenon
<1>5. QED
  BY <1>4

\* s goes through the elements of L, each once.
Lists(s, L) ==
  /\ s \in Seq(Slots)
  /\ \A i, j \in 1 .. Len(s) : s[i] = s[j] => i = j
  /\ {s[i] : i \in 1 .. Len(s)} = L

\* Two such sequences, of different nodes.
LEMMA ListsJoin ==
  ASSUME NEW L, NEW M, NEW s, NEW t, Lists(s, L), Lists(t, M), L \cap M = {}
  PROVE  Lists(s \o t, L \cup M)
<1> DEFINE u == s \o t
           n == Len(s)
           m == Len(t)
<1>1. /\ s \in Seq(Slots) /\ t \in Seq(Slots)
      /\ \A i, j \in 1 .. n : s[i] = s[j] => i = j
      /\ \A i, j \in 1 .. m : t[i] = t[j] => i = j
      /\ {s[i] : i \in 1 .. n} = L /\ {t[i] : i \in 1 .. m} = M
  BY DEF Lists
<1>2. /\ u \in Seq(Slots) /\ Len(u) = n + m
      /\ \A i \in 1 .. n + m : u[i] = IF i <= n THEN s[i] ELSE t[i - n]
  BY <1>1, ConcatProperties
<1>3. n \in Nat /\ m \in Nat
  BY <1>1, LenProperties
<1> HIDE DEF u, n, m
<1>4. \A i \in 1 .. n : i \in 1 .. n + m /\ u[i] = s[i] /\ u[i] \in L
  BY <1>1, <1>2, <1>3
<1>5. \A i \in 1 .. m : i + n \in 1 .. n + m /\ u[i + n] = t[i] /\ u[i + n] \in M
  BY <1>1, <1>2, <1>3
<1>6. \A i \in 1 .. n + m : i \in 1 .. n \/ (i - n \in 1 .. m /\ (i - n) + n = i)
  BY <1>3
<1>7. ASSUME NEW i \in 1 .. n + m, NEW j \in 1 .. n + m, u[i] = u[j]
      PROVE  i = j
  <2>1. CASE i \in 1 .. n /\ j \in 1 .. n
    BY <1>1, <1>4, <1>7, <2>1
  <2>2. CASE i \in 1 .. n /\ j \notin 1 .. n
    <3>1. u[i] \in L /\ u[j] \in M
      BY <1>4, <1>5, <1>6, <2>2
    <3>2. QED
      BY <1>7, <3>1
  <2>3. CASE i \notin 1 .. n /\ j \in 1 .. n
    <3>1. u[j] \in L /\ u[i] \in M
      BY <1>4, <1>5, <1>6, <2>3
    <3>2. QED
      BY <1>7, <3>1
  <2>4. CASE i \notin 1 .. n /\ j \notin 1 .. n
    <3>1. /\ i - n \in 1 .. m /\ u[i] = t[i - n]
          /\ j - n \in 1 .. m /\ u[j] = t[j - n]
      BY <1>5, <1>6, <2>4
    <3>2. i - n = j - n
      BY <1>1, <1>7, <3>1
    <3>3. QED
      BY <1>3, <3>2
  <2>5. QED
    BY <2>1, <2>2, <2>3, <2>4
<1>8. {u[i] : i \in 1 .. n + m} = L \cup M
  <2>1. \A i \in 1 .. n + m : u[i] \in L \cup M
    BY <1>4, <1>5, <1>6
  <2>2. \A a \in L : \E i \in 1 .. n + m : u[i] = a
    BY <1>1, <1>4
  <2>3. \A a \in M : \E i \in 1 .. n + m : u[i] = a
    BY <1>1, <1>5
  <2>4. QED
    BY <2>1, <2>2, <2>3
<1>9. QED
  BY <1>2, <1>7, <1>8 DEF Lists, u

\* The loop meets every node once.
LEMMA AllNodesList ==
  ASSUME TableInv
  PROVE  Lists(AllNodes[NumBuckets], Live)
<1> DEFINE before(b) == {a \in Live : Bucket(node[a].key) < b}
           bad == {b \in 0 .. NumBuckets : ~Lists(AllNodes[b], before(b))}
<1>1. NumBuckets \in Nat /\ \A a \in Live : Bucket(node[a].key) \in 0 .. NumBuckets - 1
  BY LiveNodes, NumBucketsAssumption DEF Buckets
<1>2. bad = {}
  <2> SUFFICES ASSUME bad # {} PROVE FALSE
    OBVIOUS
  <2>1. PICK b \in bad : \A c \in bad : b <= c
    <3>1. bad \in SUBSET Nat
      BY <1>1
    <3> HIDE DEF bad
    <3>2. QED
      BY <3>1, FirstIs
  <2>2. b \in 0 .. NumBuckets /\ ~Lists(AllNodes[b], before(b))
    OBVIOUS
  <2>3. CASE b = 0
    <3>1. AllNodes[b] = <<>>
      BY <2>2, <2>3, AllNodesNext
    <3>2. before(b) = {}
      BY <1>1, <2>3
    <3>3. Lists(<<>>, {})
      BY DEF Lists
    <3> HIDE DEF before, bad
    <3>4. QED
      BY <2>2, <3>1, <3>2, <3>3
  <2>4. CASE b # 0
    <3>1. b - 1 \in 0 .. NumBuckets /\ b - 1 \in Buckets /\ b - 1 \notin bad
      <4>1. b - 1 \in 0 .. NumBuckets /\ b - 1 \in Buckets /\ ~(b <= b - 1)
        BY <1>1, <2>2, <2>4 DEF Buckets
      <4> HIDE DEF bad
      <4>2. QED
        BY <2>1, <4>1
    <3> DEFINE here == {a \in Live : Bucket(node[a].key) = b - 1}
    <3>2. Lists(AllNodes[b - 1], before(b - 1))
      BY <3>1
    <3>3. Lists(Chain(b - 1), here)
      <4> DEFINE c == b - 1
      <4>1. /\ Once(bucketArr[c]) /\ Held(bucketArr[c]) = {a \in Live : Bucket(node[a].key) = c}
            /\ IsRing(bucketArr[c], Slots)
        BY <3>1, BucketHolds
      <4>2. Chain(c) \in Seq(Slots)
        BY <3>1, BucketChain
      <4> HIDE DEF c
      <4>3. DOMAIN Chain(c) = 1 .. Len(Chain(c))
        BY <4>2, LenProperties
      <4>4. Lists(Chain(c), {a \in Live : Bucket(node[a].key) = c})
        BY <4>1, <4>2, <4>3 DEF Lists, Once, Held, Chain
      <4>5. QED
        BY <4>4 DEF c
    <3>4. before(b) = before(b - 1) \cup here /\ before(b - 1) \cap here = {}
      BY <1>1, <2>2
    <3>5. AllNodes[b] = AllNodes[b - 1] \o Chain(b - 1)
      BY <2>2, <2>4, AllNodesNext
    <3> HIDE DEF before, here, bad
    <3>6. Lists(AllNodes[b - 1] \o Chain(b - 1), before(b - 1) \cup here)
      BY <3>2, <3>3, <3>4, ListsJoin
    <3>7. QED
      BY <2>2, <3>4, <3>5, <3>6
  <2>5. QED
    BY <2>3, <2>4
<1>3. before(NumBuckets) = Live
  BY <1>1
<1>4. NumBuckets \in 0 .. NumBuckets
  BY <1>1
<1> HIDE DEF before
<1>5. QED
  BY <1>2, <1>3, <1>4

\* The places of the lists are the nodes of the table, one each.
OrderOf(k) == CHOOSE f : InOrder(f, Len(StoredUnder(k)), Matches(k))
NodeAt(k, m) == Chain(Bucket(k))[OrderOf(k)[m]]

LEMMA OrderOfIs ==
  ASSUME TableInv, NEW k \in Keys
  PROVE  /\ InOrder(OrderOf(k), Len(StoredUnder(k)), Matches(k))
         /\ DOMAIN StoredUnder(k) = 1 .. Len(StoredUnder(k))
         /\ StoredUnder(k) \in Seq(Values)
         /\ \A m \in DOMAIN StoredUnder(k) :
              StoredUnder(k)[m] = ItemAt(Bucket(k), OrderOf(k)[m])
<1> DEFINE l == StoredUnder(k)
<1>1. PICK f, n : /\ InOrder(f, n, Matches(k)) /\ n \in Nat
                  /\ l \in Seq(Values) /\ Len(l) = n
                  /\ \A m \in 1 .. n : l[m] = ItemAt(Bucket(k), f[m])
  BY StoredHas
<1>2. InOrder(f, Len(l), Matches(k))
  BY <1>1
<1>3. InOrder(OrderOf(k), Len(l), Matches(k))
  BY <1>2, Zenon DEF OrderOf
<1>4. OrderOf(k) = f
  BY <1>2, <1>3, OrderIsOne
<1>5. DOMAIN l = 1 .. Len(l)
  <2>1. l \in Seq(Values)
    BY <1>1
  <2> HIDE DEF l
  <2>2. QED
    BY <2>1, LenProperties
<1> HIDE DEF l
<1>6. QED
  BY <1>1, <1>3, <1>4, <1>5 DEF l

LEMMA NodeAtIs ==
  ASSUME TableInv, NEW k \in Keys, NEW m \in DOMAIN StoredUnder(k)
  PROVE  /\ NodeAt(k, m) \in Live /\ node[NodeAt(k, m)].key = k
         /\ node[NodeAt(k, m)].item = StoredUnder(k)[m]
<1> DEFINE i == OrderOf(k)[m]
<1>1. i \in Matches(k) /\ StoredUnder(k)[m] = ItemAt(Bucket(k), i)
  BY OrderOfIs DEF InOrder
<1> HIDE DEF i
<1>2. i \in DOMAIN Chain(Bucket(k)) /\ node[Chain(Bucket(k))[i]].key = k
  BY <1>1 DEF Matches, HasKey
<1>3. Chain(Bucket(k))[i] \in Live
  BY <1>2, BucketIs, BucketChain
<1>4. QED
  BY <1>1, <1>2, <1>3 DEF NodeAt, ItemAt, i

LEMMA NodeAtOnce ==
  ASSUME TableInv, NEW k \in Keys, NEW l \in DOMAIN StoredUnder(k),
         NEW m \in DOMAIN StoredUnder(k), NodeAt(k, l) = NodeAt(k, m)
  PROVE  l = m
<1> DEFINE i == OrderOf(k)[l]
           j == OrderOf(k)[m]
           n == Len(StoredUnder(k))
<1>1. /\ i \in Matches(k) /\ j \in Matches(k) /\ l \in 1 .. n /\ m \in 1 .. n
      /\ Matches(k) \subseteq Nat /\ n \in Nat
      /\ l < m => i < j
      /\ m < l => j < i
  BY OrderOfIs DEF InOrder
<1>2. Chain(Bucket(k))[i] = Chain(Bucket(k))[j]
  BY DEF NodeAt
<1> HIDE DEF i, j, n
<1>3. i \in DOMAIN Chain(Bucket(k)) /\ j \in DOMAIN Chain(Bucket(k))
  BY <1>1 DEF Matches
<1>4. Once(bucketArr[Bucket(k)])
  BY BucketIs, BucketHolds
<1>5. i = j
  BY <1>2, <1>3, <1>4 DEF Once, Chain
<1>6. i \in Nat /\ j \in Nat
  BY <1>1
<1>7. QED
  BY <1>1, <1>5, <1>6

LEMMA NodeAtAll ==
  ASSUME TableInv, NEW a \in Live
  PROVE  \E m \in DOMAIN StoredUnder(node[a].key) : NodeAt(node[a].key, m) = a
<1> DEFINE k == node[a].key
<1>1. k \in Keys
  BY LiveNodes
<1> HIDE DEF k
<1>2. a \in Held(bucketArr[Bucket(k)])
  BY <1>1, BucketIs, BucketHolds DEF k
<1>3. PICK i \in DOMAIN Chain(Bucket(k)) : Chain(Bucket(k))[i] = a
  BY <1>2 DEF Held, Chain
<1>4. i \in Matches(k)
  BY <1>3 DEF Matches, HasKey, k
<1>5. PICK m \in DOMAIN StoredUnder(k) : OrderOf(k)[m] = i
  BY <1>1, <1>4, OrderOfIs DEF InOrder
<1>6. QED
  BY <1>3, <1>5 DEF NodeAt, k

\* h takes the elements of A to those of L, one to one.
Matched(h, A, L) ==
  /\ h \in [A -> L]
  /\ \A a, b \in A : h[a] = h[b] => a = b
  /\ \A l \in L : \E a \in A : h[a] = l

Spots == UNION {{k} \X DOMAIN Stored[k] : k \in Keys}

LEMMA SpotsMatch ==
  ASSUME TableInv
  PROVE  \E h : /\ Matched(h, Spots, Live)
                /\ \A p \in Spots : node[h[p]].item = Stored[p[1]][p[2]]
<1> DEFINE h == [p \in Spots |-> NodeAt(p[1], p[2])]
<1>0. \A k \in Keys : Stored[k] = StoredUnder(k)
  BY DEF Stored
<1>1. \A p \in Spots : /\ p[1] \in Keys /\ p[2] \in DOMAIN StoredUnder(p[1])
                       /\ p = <<p[1], p[2]>>
  BY <1>0 DEF Spots
<1>2. \A k \in Keys : \A m \in DOMAIN StoredUnder(k) : <<k, m>> \in Spots
  BY <1>0 DEF Spots
<1>3. \A p \in Spots : /\ h[p] \in Live /\ node[h[p]].key = p[1]
                       /\ node[h[p]].item = Stored[p[1]][p[2]]
  BY <1>0, <1>1, NodeAtIs
<1>4. ASSUME NEW p \in Spots, NEW q \in Spots, h[p] = h[q] PROVE p = q
  <2>1. p[1] = q[1]
    BY <1>3, <1>4
  <2>2. NodeAt(p[1], p[2]) = NodeAt(p[1], q[2])
    BY <1>4, <2>1
  <2>3. p[2] = q[2]
    BY <1>1, <2>1, <2>2, NodeAtOnce
  <2>4. QED
    BY <1>1, <2>1, <2>3
<1>5. ASSUME NEW a \in Live PROVE \E p \in Spots : h[p] = a
  <2>1. node[a].key \in Keys
    BY LiveNodes
  <2>2. PICK m \in DOMAIN StoredUnder(node[a].key) : NodeAt(node[a].key, m) = a
    BY NodeAtAll
  <2>3. <<node[a].key, m>> \in Spots
    BY <1>2, <2>1
  <2>4. h[<<node[a].key, m>>] = a
    BY <2>2, <2>3
  <2>5. QED
    BY <2>3, <2>4
<1>6. h \in [Spots -> Live]
  BY <1>3
<1> HIDE DEF h
<1>7. Matched(h, Spots, Live)
  BY <1>4, <1>5, <1>6 DEF Matched
<1>8. QED
  BY <1>3, <1>7

\* As many are taken to the elements of M as M has.
LEMMA MatchedCount ==
  ASSUME NEW h, NEW A, NEW L, Matched(h, A, L), IsFiniteSet(L), NEW M \in SUBSET L
  PROVE  Cardinality({a \in A : h[a] \in M}) = Cardinality(M)
<1> DEFINE B == {a \in A : h[a] \in M}
           g == [a \in B |-> h[a]]
<1>1. g \in Injection(B, M)
  BY DEF Matched, Injection, IsInjective
<1>2. g \in Surjection(B, M)
  BY DEF Matched, Surjection
<1>3. IsFiniteSet(M)
  BY FS_Subset
<1> HIDE DEF g, B
<1>4. Cardinality(B) = Cardinality(M)
  BY <1>1, <1>2, <1>3, FS_Injection
<1>5. QED
  BY <1>4 DEF B

\* The multimap counts as FiniteSets does.
LEMMA SameCardinality == ASSUME NEW S PROVE Abstract!Cardinality(S) = Cardinality(S)
BY Zenon DEF Cardinality, Abstract!Cardinality

\* MAP_fetchAllItems() hands out every item once for each place it has.
LEMMA VisitMaps ==
  ASSUME TableInv, FetchAllItems
  PROVE  Abstract!Visit
<1> DEFINE s == AllNodes[NumBuckets]
           n == Len(s)
           items == [i \in DOMAIN s |-> node[s[i]].item]
<1>1. answer' = Answer(<<"fetchAll">>, "0", items) /\ UNCHANGED <<bucketArr, node>>
  BY DEF FetchAllItems
<1>2. Lists(s, Live)
  BY AllNodesList
<1> HIDE DEF s
<1>3. /\ s \in Seq(Slots) /\ n \in Nat /\ DOMAIN s = 1 .. n
      /\ s \in [1 .. n -> Slots]
  BY <1>2, LenProperties DEF Lists
<1>4. Matched(s, 1 .. n, Live)
  <2>1. \A i \in 1 .. n : s[i] \in Live
    BY <1>2 DEF Lists
  <2>2. s \in [1 .. n -> Live]
    BY <1>3, <2>1
  <2>3. QED
    BY <1>2, <2>2 DEF Matched, Lists
<1> HIDE DEF n
<1>5. IsFiniteSet(Live)
  <2>1. IsFiniteSet(1 .. n)
    BY <1>3, FS_Interval
  <2>2. s \in Surjection(1 .. n, Live)
    BY <1>4 DEF Matched, Surjection
  <2>3. QED
    BY <2>1, <2>2, FS_Surjection
<1>6. PICK h : /\ Matched(h, Spots, Live)
               /\ \A p \in Spots : node[h[p]].item = Stored[p[1]][p[2]]
  BY SpotsMatch
<1>7. Len(items) = n /\ DOMAIN items = 1 .. n /\ \A i \in 1 .. n : items[i] = node[s[i]].item
  BY <1>3
<1> HIDE DEF items
<1>8. n = Cardinality(Spots)
  <2>1. {i \in 1 .. n : s[i] \in Live} = 1 .. n /\ {p \in Spots : h[p] \in Live} = Spots
    BY <1>4, <1>6 DEF Matched
  <2> DEFINE D == 1 .. n
  <2>2. Cardinality({i \in D : s[i] \in Live}) = Cardinality(Live)
    <3> HIDE DEF D
    <3>1. Matched(s, D, Live)
      BY <1>4 DEF D
    <3>2. QED
      BY <1>5, <3>1, MatchedCount
  <2>3. Cardinality({p \in Spots : h[p] \in Live}) = Cardinality(Live)
    BY <1>5, <1>6, MatchedCount
  <2>4. Cardinality(1 .. n) = n
    BY <1>3, FS_Interval
  <2>5. QED
    BY <2>1, <2>2, <2>3, <2>4
<1>9. ASSUME NEW x \in Values
      PROVE  Cardinality({i \in DOMAIN items : items[i] = x})
               = Cardinality({p \in Spots : Stored[p[1]][p[2]] = x})
  <2> DEFINE M == {a \in Live : node[a].item = x}
  <2>1. /\ {i \in DOMAIN items : items[i] = x} = {i \in 1 .. n : s[i] \in M}
        /\ {p \in Spots : Stored[p[1]][p[2]] = x} = {p \in Spots : h[p] \in M}
    BY <1>4, <1>6, <1>7 DEF Matched
  <2>2. M \in SUBSET Live
    OBVIOUS
  <2> HIDE DEF M
  <2> DEFINE D == 1 .. n
  <2>3. Cardinality({i \in D : s[i] \in M}) = Cardinality(M)
    <3> HIDE DEF D
    <3>1. Matched(s, D, Live)
      BY <1>4 DEF D
    <3>2. QED
      BY <1>5, <2>2, <3>1, MatchedCount
  <2>4. Cardinality({p \in Spots : h[p] \in M}) = Cardinality(M)
    BY <1>5, <1>6, <2>2, MatchedCount
  <2>5. QED
    BY <2>1, <2>3, <2>4
<1>10. Stored' = Stored
  BY <1>1, SameStored
<1>11. answer'.items = items
  BY <1>1 DEF Answer
<1>12. Abstract!Everything(answer'.items)
  <2>1. Abstract!Everything(items)
    BY <1>7, <1>8, <1>9, SameCardinality, Zenon DEF Abstract!Everything, Spots, Stored
  <2>2. QED
    BY <1>11, <2>1
<1>13. Abstract!Answers(<<"fetchAll">>, "0", answer'.items)
  BY <1>1, <1>11 DEF Answer, Abstract!Answers, Abstract!Answer
<1>14. QED
  BY <1>10, <1>12, <1>13 DEF Abstract!Visit, Stored

---------------------------------------------------------------------------
(* The refinement.                                                         *)

LEMMA NextMaps ==
  ASSUME TableInv, [Next]_vars
  PROVE  [Abstract!MultiMapNext]_(Abstract!multiMapVars)
<1>1. ASSUME NEW i \in Inserts, AddKey(i[1], i[2], i[3]) \/ AddKeyFails(i[1], i[2])
      PROVE  Abstract!MultiMapNext
  <2>1. i[1] \in Keys /\ i[2] \in Values /\ i[3] \in Addresses
    BY InsertsAssumption
  <2>2. Abstract!Add(i[1], i[2])
    BY <1>1, <2>1, AddMaps, AddFailsMaps
  <2>3. QED
    BY <2>1, <2>2 DEF Abstract!MultiMapNext
<1>2. ASSUME NEW k \in Keys, NEW x \in Values, RemoveSpecificItem(k, x)
      PROVE  Abstract!MultiMapNext
  BY <1>2, RemoveSpecificMaps DEF Abstract!MultiMapNext
<1>3. ASSUME NEW k \in Keys, FindItem(k) PROVE Abstract!MultiMapNext
  BY <1>3, FindMaps DEF Abstract!MultiMapNext
<1>4. ASSUME NEW k \in Keys, FindItems(k) PROVE Abstract!MultiMapNext
  BY <1>4, FindAllMaps DEF Abstract!MultiMapNext
<1>5. ASSUME NEW k \in Keys, RemoveItem(k) PROVE Abstract!MultiMapNext
  BY <1>5, RemoveMaps DEF Abstract!MultiMapNext
<1>6. ASSUME ClearAndDestroy PROVE Abstract!MultiMapNext
  BY <1>6, ClearMaps DEF Abstract!MultiMapNext
<1>7. ASSUME FetchAllItems PROVE Abstract!MultiMapNext
  BY <1>7, VisitMaps DEF Abstract!MultiMapNext
<1>8. ASSUME UNCHANGED vars PROVE UNCHANGED Abstract!multiMapVars
  <2>1. Stored' = Stored /\ answer' = answer
    BY <1>8, SameStored DEF vars
  <2>2. QED
    BY <2>1 DEF Abstract!multiMapVars, Stored
<1>9. QED
  BY <1>1, <1>2, <1>3, <1>4, <1>5, <1>6, <1>7, <1>8 DEF Next

\* Seen from its callers the hash table is a multimap: whatever keys share a
\* bucket, wherever the ring of the bucket starts and however often it grew,
\* a lookup answers with the oldest item or all items of its key alone, a
\* removal takes the one item it names from that list, and a visit hands out
\* every stored item once (map.h).
THEOREM MultiMapImplemented == Spec => ImplementsMultiMap
<1>1. Init => Abstract!MultiMapInit
  BY InitMaps
<1>2. TableInv /\ [Next]_vars => [Abstract!MultiMapNext]_(Abstract!multiMapVars)
  BY NextMaps
<1>3. QED
  BY <1>1, <1>2, TableHolds, PTL DEF Spec, ImplementsMultiMap, Abstract!MultiMapSpec
=============================================================================
