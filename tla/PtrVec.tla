------------------------------- MODULE PtrVec -------------------------------
(***************************************************************************)
(* ptrvec.c: a vector of pointers kept in a ring of maxItems slots, used   *)
(* as list, queue and stack by every other part of the program.  It grows  *)
(* when it is full.  A vector is a record, an operation an operator that   *)
(* returns the changed vector; HashMapProofs shows what each does to the   *)
(* sequence Items(v) the vector stands for.                                *)
(*                                                                         *)
(* Slots that hold no item hold Garbage, whatever was there before: an     *)
(* operation that read one would put Garbage among the items.              *)
(***************************************************************************)
EXTENDS Integers, Sequences

CONSTANT Garbage      \* what a slot holds that holds no item

\* PTRVEC_constructor()
Vector(max) ==
  [ptrArr |-> [s \in 0 .. max - 1 |-> Garbage],
   head |-> 0, tail |-> 0, numItems |-> 0, maxItems |-> max]

\* Indices wrap at the end of the ring; k is less than twice the size.
Wrap(k, max) == IF k < max THEN k ELSE k - max

After(v, s) == Wrap(s + 1, v.maxItems)
Before(v, s) == Wrap(s + v.maxItems - 1, v.maxItems)

\* The slot of the item k places after the first one: PTRVEC_loopFwd().
SlotAt(v, k) == Wrap(v.head + k, v.maxItems)

\* The items in the order in which PTRVEC_loopFwd() visits them.
Items(v) == [k \in 1 .. v.numItems |-> v.ptrArr[SlotAt(v, k - 1)]]

First(v) == v.ptrArr[v.head]
Last(v) == v.ptrArr[v.tail]
Full(v) == v.numItems = v.maxItems

---------------------------------------------------------------------------
(* Growing.                                                                *)

\* Mutant below: the ring is not reallocated.
\* PTRVEC_resize() to a larger size: the block from head to the end of the
\* ring moves to the end of the larger ring, if the items wrap around.
Resize_without_realloc(v, max) == [v EXCEPT !.maxItems = max]
Resize(v, max) ==
  LET more == max - v.maxItems
      wraps == v.head > v.tail
  IN  [ptrArr |-> [s \in 0 .. max - 1 |->
                     IF wraps
                     THEN IF s <= v.tail THEN v.ptrArr[s]
                          ELSE IF s >= v.head + more THEN v.ptrArr[s - more]
                          ELSE Garbage
                     ELSE IF s < v.maxItems THEN v.ptrArr[s] ELSE Garbage],
       head |-> IF wraps THEN v.head + more ELSE v.head,
       tail |-> v.tail, numItems |-> v.numItems, maxItems |-> max]

\* grow() tries to double the ring, then less and less memory.
GrowthSizes(max) == {max * 2, max + (max \div 2), max + (max \div 4)}

\* The vectors an item may be added to; grow() may also fail altogether.
Room(v) ==
  IF Full(v) THEN {Resize(v, max) : max \in GrowthSizes(v.maxItems)} ELSE {v}

---------------------------------------------------------------------------
(* Adding and removing at the ends.  An empty ring keeps head = tail, and  *)
(* the first item goes where they are.                                     *)

\* PTRVEC_addTail() and PTRVEC_addHead() once there is room.  Mutant: the tail
\* advances for the first item, too.
PutTail_always_advances(v, x) ==
  LET t == After(v, v.tail)
  IN  [v EXCEPT !.ptrArr[t] = x, !.tail = t, !.numItems = @ + 1]
PutTail(v, x) ==
  LET t == IF v.numItems > 0 THEN After(v, v.tail) ELSE v.tail
  IN  [v EXCEPT !.ptrArr[t] = x, !.tail = t, !.numItems = @ + 1]

PutHead(v, x) ==
  LET h == IF v.numItems > 0 THEN Before(v, v.head) ELSE v.head
  IN  [v EXCEPT !.ptrArr[h] = x, !.head = h, !.numItems = @ + 1]

\* PTRVEC_remHead() and PTRVEC_remTail() of a vector that is not empty; the
\* caller gets First(v) or Last(v).
CutHead(v) ==
  [v EXCEPT !.ptrArr[v.head] = Garbage, !.numItems = @ - 1,
            !.head = IF v.numItems > 1 THEN After(v, @) ELSE @]

CutTail(v) ==
  [v EXCEPT !.ptrArr[v.tail] = Garbage, !.numItems = @ - 1,
            !.tail = IF v.numItems > 1 THEN Before(v, @) ELSE @]

---------------------------------------------------------------------------
(* Removing in the middle.                                                 *)

Has(v, x) == \E k \in 0 .. v.numItems - 1 : v.ptrArr[SlotAt(v, k)] = x

\* PTRVEC_find(): where x is for the first time.
Place(v, x) ==
  CHOOSE k \in 0 .. v.numItems - 1 :
    /\ v.ptrArr[SlotAt(v, k)] = x
    /\ \A j \in 0 .. k - 1 : v.ptrArr[SlotAt(v, j)] # x

\* The items after slot s move down by one, or those before it move up.
CloseFromTail(v, s) ==
  [v EXCEPT !.ptrArr = [i \in DOMAIN @ |->
                          IF i = v.tail THEN Garbage
                          ELSE IF s <= i /\ i < v.tail THEN @[i + 1]
                          ELSE @[i]],
            !.tail = @ - 1, !.numItems = @ - 1]

\* Mutant: the block that moves up is one item short.
CloseFromHead_short(v, s) ==
  [v EXCEPT !.ptrArr = [i \in DOMAIN @ |->
                          IF i = v.head THEN Garbage
                          ELSE IF v.head < i /\ i < s THEN @[i - 1]
                          ELSE @[i]],
            !.head = @ + 1, !.numItems = @ - 1]
CloseFromHead(v, s) ==
  [v EXCEPT !.ptrArr = [i \in DOMAIN @ |->
                          IF i = v.head THEN Garbage
                          ELSE IF v.head < i /\ i <= s THEN @[i - 1]
                          ELSE @[i]],
            !.head = @ + 1, !.numItems = @ - 1]

CutSlot(v, s) ==
  IF v.numItems = 1
  THEN [v EXCEPT !.ptrArr[s] = Garbage, !.head = 0, !.tail = 0, !.numItems = 0]
  ELSE IF s = v.head THEN CutHead(v)
  ELSE IF s = v.tail THEN CutTail(v)
  ELSE IF s < v.tail THEN CloseFromTail(v, s)
  ELSE CloseFromHead(v, s)

\* PTRVEC_remove() of an item the vector has.
Remove(v, x) == CutSlot(v, SlotAt(v, Place(v, x)))

---------------------------------------------------------------------------
(* What every operation relies on and keeps: the items lie between head    *)
(* and tail, around the end of the ring if need be, and nowhere else.      *)
Valid(v) ==
  /\ v.maxItems > 0
  /\ v.numItems \in 0 .. v.maxItems
  /\ v.head \in 0 .. v.maxItems - 1
  /\ v.tail \in 0 .. v.maxItems - 1
  /\ v.numItems > 0 => v.tail = SlotAt(v, v.numItems - 1)
  /\ v.numItems = 0 => v.head = v.tail
=============================================================================
