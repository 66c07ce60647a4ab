------------------------------ MODULE HashMap ------------------------------
(***************************************************************************)
(* map.c: a hash table whose buckets are vectors of nodes.  A node is heap *)
(* memory that holds a key and an item; the bucket it is in is a matter of *)
(* the key's hash.  A key may be added more than once.                     *)
(***************************************************************************)
EXTENDS PtrVec, FiniteSets

CONSTANTS Keys,            \* keys, compared byte by byte
          Values,          \* item pointers
          Inserts,         \* what is added: key, item and malloc()'s address
          NumBuckets,      \* numBuckets given to the constructor
          SlotsPerBucket,  \* slotsPerBucket given to the constructor
          Hash,            \* hash() of each key, not yet reduced
          Addresses,       \* where malloc() may put a node: bounds the table
          RtnArrSize       \* the size of a caller's rtnArr[]

ASSUME NumBucketsAssumption == NumBuckets \in Nat \ {0}
ASSUME HashAssumption == Hash \in [Keys -> Nat]
ASSUME InsertsAssumption == Inserts \subseteq Keys \X Values \X Addresses
ASSUME AddressesAssumption ==
  Garbage \notin Addresses \cup [key : Keys, item : Values]
\* Every map of the program starts with ten or more slots.  With three or less a
\* quarter more is no more, and grow() would report success without growing.
ASSUME SlotsAssumption == SlotsPerBucket \in Nat /\ SlotsPerBucket >= 4
ASSUME RtnArrAssumption == RtnArrSize \in Nat

VARIABLES bucketArr,       \* the buckets
          node,            \* the MAP_node at each address, Garbage if free
          answer           \* the last call and what it returned

vars == <<bucketArr, node, answer>>

Node(k, x) == [key |-> k, item |-> x]
Live == {a \in Addresses : node[a] # Garbage}
Answer(call, rc, items) == [call |-> call, rc |-> rc, items |-> items]

Bucket(k) == Hash[k] % NumBuckets

\* MAP_constructor()
Init ==
  /\ bucketArr = [b \in 0 .. NumBuckets - 1 |-> Vector(SlotsPerBucket)]
  /\ node = [a \in Addresses |-> Garbage]
  /\ answer = Answer(<<"new">>, "0", <<>>)

\* MAP_addKey(): put a node at the tail of the key's bucket, then fill it in.
AddKey(k, x, a) ==
  /\ a \notin Live
  /\ \E v \in Room(bucketArr[Bucket(k)]) :
       bucketArr' = [bucketArr EXCEPT ![Bucket(k)] = PutTail(v, a)]
  /\ node' = [node EXCEPT ![a] = Node(k, x)]
  /\ answer' = Answer(<<"addKey">>, "0", <<>>)

\* Neither the node nor a larger bucket may be had.
AddKeyFails(k, x) ==
  /\ answer' = Answer(<<"addKey">>, "1", <<>>)
  /\ UNCHANGED <<bucketArr, node>>

---------------------------------------------------------------------------
(* Searching.                                                              *)

\* The nodes of a bucket, in the order of the loops over it.
Chain(b) == Items(bucketArr[b])

\* The positions in its bucket of the nodes with key k.
HasKey(k, i) == node[Chain(Bucket(k))[i]].key = k
Matches(k) == {i \in DOMAIN Chain(Bucket(k)) : HasKey(k, i)}
\* Mutant: any item under the key will do.
MatchesItem_any(k, x) == Matches(k)
MatchesItem(k, x) == {i \in Matches(k) : node[Chain(Bucket(k))[i]].item = x}

FirstIn(S) == CHOOSE i \in S : \A j \in S : i <= j
ItemAt(b, i) == node[Chain(b)[i]].item

\* MAP_findItem(): NULL, here no item, if there is none.
FindItem(k) ==
  /\ answer' = Answer(<<"findItem", k>>, "0",
                       IF Matches(k) = {} THEN <<>>
                       ELSE <<ItemAt(Bucket(k), FirstIn(Matches(k)))>>)
  /\ UNCHANGED <<bucketArr, node>>

\* The items of the nodes with key k, in the order of the loop over its bucket.
StoredUnder(k) ==
  LET among[n \in Nat] ==     \* the first n nodes
        IF n = 0 THEN <<>>
        ELSE IF HasKey(k, n) THEN Append(among[n - 1], ItemAt(Bucket(k), n))
        ELSE among[n - 1]
  IN  among[Len(Chain(Bucket(k)))]

\* MAP_findItems(): -1 as soon as a match does not fit into rtnArr[].
FindItems(k) ==
  /\ answer' =
       IF Len(StoredUnder(k)) > RtnArrSize THEN Answer(<<"findItems", k>>, "-1", <<>>)
       ELSE Answer(<<"findItems", k>>, "0", StoredUnder(k))
  /\ UNCHANGED <<bucketArr, node>>

---------------------------------------------------------------------------
(* Removing: take the node out of its bucket and free it.                  *)

RemoveNode(call, k, i) ==
  LET a == Chain(Bucket(k))[i]
  IN  /\ bucketArr' = [bucketArr EXCEPT ![Bucket(k)] = Remove(@, a)]
      /\ node' = [node EXCEPT ![a] = Garbage]
      /\ answer' = Answer(call, "0", <<node[a].item>>)

NotFound(call) ==
  /\ answer' = Answer(call, "0", <<>>)
  /\ UNCHANGED <<bucketArr, node>>

\* MAP_removeItem()
RemoveItem(k) ==
  IF Matches(k) = {} THEN NotFound(<<"removeItem", k>>)
  ELSE RemoveNode(<<"removeItem", k>>, k, FirstIn(Matches(k)))

\* MAP_removeSpecificItem()
RemoveSpecificItem(k, x) ==
  IF MatchesItem(k, x) = {} THEN NotFound(<<"removeSpecificItem", k, x>>)
  ELSE RemoveNode(<<"removeSpecificItem", k, x>>, k, FirstIn(MatchesItem(k, x)))

\* MAP_clearAndDestroy(): remove the head of every bucket until it is empty,
\* and free the nodes.  The rings keep their size and stop where they are.
Drained(v) ==
  [v EXCEPT !.ptrArr = [s \in DOMAIN @ |-> Garbage], !.numItems = 0,
            !.head = IF v.numItems > 0 THEN v.tail ELSE @]

Freed(b) == {Chain(b)[i] : i \in DOMAIN Chain(b)}

ClearAndDestroy ==
  LET freed == UNION {Freed(b) : b \in DOMAIN bucketArr}
  IN  /\ bucketArr' = [b \in DOMAIN bucketArr |-> Drained(bucketArr[b])]
      /\ node' = [a \in Addresses |-> IF a \in freed THEN Garbage ELSE node[a]]
      /\ answer' = Answer(<<"clear">>, "0", <<>>)

\* MAP_visitAllEntries() and MAP_fetchAllItems(): bucket after bucket.
AllNodes[b \in 0 .. NumBuckets] ==
  IF b = 0 THEN <<>> ELSE AllNodes[b - 1] \o Chain(b - 1)

FetchAllItems ==
  /\ answer' = Answer(<<"fetchAll">>, "0",
                       [i \in DOMAIN AllNodes[NumBuckets] |->
                          node[AllNodes[NumBuckets][i]].item])
  /\ UNCHANGED <<bucketArr, node>>

Next ==
  \/ \E i \in Inserts : AddKey(i[1], i[2], i[3]) \/ AddKeyFails(i[1], i[2])
  \/ \E k \in Keys :
       \/ \E x \in Values : RemoveSpecificItem(k, x)
       \/ FindItem(k)
       \/ FindItems(k)
       \/ RemoveItem(k)
  \/ ClearAndDestroy
  \/ FetchAllItems

Spec == Init /\ [][Next]_vars

---------------------------------------------------------------------------
(* Properties.                                                             *)

\* Every bucket is a ring of node addresses or Garbage, every node a key and
\* an item (map.c, PTRVEC and struct MAP_node).
TypeOK ==
  /\ DOMAIN bucketArr = 0 .. NumBuckets - 1
  /\ \A b \in DOMAIN bucketArr :
       /\ bucketArr[b].maxItems \in Nat
       /\ bucketArr[b].ptrArr \in
            [0 .. bucketArr[b].maxItems - 1 -> Addresses \cup {Garbage}]
  /\ node \in [Addresses -> [key : Keys, item : Values] \cup {Garbage}]

\* Each bucket's items lie between its head and its tail, through every wrap,
\* growth and removal in the middle: PTRVEC's addTail, remove and grow.
BucketsValid == \A b \in DOMAIN bucketArr : Valid(bucketArr[b])

\* Every allocated node is in the bucket of its key, once, and in no other, and
\* no bucket points to freed memory: what MAP_addKey() and the removals owe.
NodesInPlace ==
  \A b \in DOMAIN bucketArr :
    /\ \A i \in DOMAIN Chain(b) : Chain(b)[i] \in Live
    /\ \A i, j \in DOMAIN Chain(b) : Chain(b)[i] = Chain(b)[j] => i = j
    /\ {Chain(b)[i] : i \in DOMAIN Chain(b)}
         = {a \in Live : Bucket(node[a].key) = b}

\* The table is a multimap: lookups, removals and visits answer as if each key
\* had a list of its own, whatever keys share its bucket (map.h).
Abstract == INSTANCE MultiMap WITH stored <- [k \in Keys |-> StoredUnder(k)]
ImplementsMultiMap == Abstract!MultiMapSpec
=============================================================================
