--------------------------- MODULE StartupProofs ---------------------------
(***************************************************************************)
(* For any files, options and address space: the variables keep their      *)
(* types, whatever is read there is room for the values of every symbol,   *)
(* what the options on the command line forbid is not done, what is        *)
(* reported as unused is what the program has no use for, each address is  *)
(* allowed what the text grants it, the log types are those of it, and the *)
(* map holds what its lines mean.                                          *)
(***************************************************************************)
EXTENDS Startup, SequenceTheorems, FiniteSetTheorems, WellFoundedInduction, TLAPS

---------------------------------------------------------------------------
(* Folds.                                                                  *)

\* Every set of numbers that is not empty has a least one.
Less == {p \in Nat \X Nat : p[1] < p[2]}

LEMMA Least ==
  ASSUME NEW S \in SUBSET Nat, S # {}
  PROVE  \E m \in S : \A k \in S : m <= k
<1>1. IsWellFoundedOn(Less, Nat)
  BY NatLessThanWellFounded DEF OpToRel, Less
<1>2. PICK m \in S : \A k \in S : <<k, m>> \notin Less
  BY <1>1, WFMin, Zenon
<1>3. \A k \in S : ~(k < m)
  BY <1>2 DEF Less
<1>4. QED
  BY <1>3

\* What CFGMAP_numTuples() is the result of, for the symbols in each set.
One(s) == CHOOSE x \in s : TRUE
Counts(h, D, m) ==
  h = [s \in D |-> IF s = {} THEN 0 ELSE h[s \ {One(s)}] + Len(m[One(s)])]
UpTo(S, k) == {s \in SUBSET S : Cardinality(s) <= k}

LEMMA OneOut ==
  ASSUME NEW S, IsFiniteSet(S), NEW s \in SUBSET S, s # {}
  PROVE  /\ One(s) \in s /\ s \ {One(s)} \in SUBSET S
         /\ Cardinality(s) \in Nat /\ Cardinality(s) # 0
         /\ Cardinality(s \ {One(s)}) = Cardinality(s) - 1
<1>1. One(s) \in s
  BY DEF One
<1>2. IsFiniteSet(s)
  BY FS_Subset
<1>3. QED
  BY <1>1, <1>2, FS_RemoveElement, FS_EmptySet, FS_CardinalityType

LEMMA CountsExist ==
  ASSUME NEW S, IsFiniteSet(S), NEW m
  PROVE  \E h : Counts(h, SUBSET S, m)
<1> DEFINE bad == {k \in Nat : ~ \E h : Counts(h, UpTo(S, k), m)}
<1>1. bad = {}
  <2> SUFFICES ASSUME bad # {} PROVE FALSE
    OBVIOUS
  <2>1. PICK k \in bad : \A j \in bad : k <= j
    <3>1. bad \in SUBSET Nat
      OBVIOUS
    <3> HIDE DEF bad
    <3>2. QED
      BY <3>1, Least
  <2>2. k \in Nat
    OBVIOUS
  <2>3. CASE k = 0
    <3>1. \A s \in UpTo(S, 0) : s = {}
      <4> TAKE s \in UpTo(S, 0)
      <4> SUFFICES ASSUME s # {} PROVE FALSE
        OBVIOUS
      <4>1. s \in SUBSET S /\ Cardinality(s) <= 0
        BY DEF UpTo
      <4>2. Cardinality(s) \in Nat /\ Cardinality(s) # 0
        BY <4>1, OneOut
      <4>3. QED
        BY <4>1, <4>2
    <3>2. Counts([s \in UpTo(S, 0) |-> 0], UpTo(S, 0), m)
      BY <3>1 DEF Counts
    <3>3. QED
      BY <2>1, <2>3, <3>2
  <2>4. CASE k # 0
    <3>1. k - 1 \in Nat /\ k - 1 \notin bad
      BY <2>1, <2>2, <2>4
    <3>2. PICK g : Counts(g, UpTo(S, k - 1), m)
      BY <3>1
    <3> DEFINE h == [s \in UpTo(S, k) |-> IF s = {} THEN 0 ELSE g[s \ {One(s)}] + Len(m[One(s)])]
    <3>3. ASSUME NEW t \in UpTo(S, k - 1)
          PROVE  g[t] = IF t = {} THEN 0 ELSE g[t \ {One(t)}] + Len(m[One(t)])
      BY <3>2 DEF Counts
    <3>4. ASSUME NEW s \in UpTo(S, k), s # {}
          PROVE  h[s \ {One(s)}] = g[s \ {One(s)}]
      <4>1. s \in SUBSET S /\ Cardinality(s) <= k
        BY DEF UpTo
      <4>2. s \ {One(s)} \in UpTo(S, k - 1) /\ s \ {One(s)} \in UpTo(S, k)
        BY <2>2, <3>4, <4>1, OneOut DEF UpTo
      <4>3. QED
        BY <3>3, <4>2
    <3>5. h = [s \in UpTo(S, k) |-> IF s = {} THEN 0 ELSE h[s \ {One(s)}] + Len(m[One(s)])]
      BY <3>4
    <3> HIDE DEF h
    <3>6. Counts(h, UpTo(S, k), m)
      BY <3>5 DEF Counts
    <3>7. QED
      BY <2>1, <3>6
  <2>5. QED
    BY <2>3, <2>4
<1>2. Cardinality(S) \in Nat
  BY FS_CardinalityType
<1>3. UpTo(S, Cardinality(S)) = SUBSET S
  BY FS_Subset DEF UpTo
<1>4. Cardinality(S) \notin bad
  BY <1>1
<1>5. QED
  BY <1>2, <1>3, <1>4

\* The number of all values is no less than that of any symbol.
LEMMA CountBounds ==
  ASSUME NEW S, IsFiniteSet(S), NEW m, \A p \in S : Len(m[p]) \in Nat,
         NEW h, Counts(h, SUBSET S, m)
  PROVE  \A s \in SUBSET S : h[s] \in Nat /\ \A p \in s : Len(m[p]) <= h[s]
<1> DEFINE Right(s) == h[s] \in Nat /\ \A p \in s : Len(m[p]) <= h[s]
           wrong == {s \in SUBSET S : ~Right(s)}
           sizes == {Cardinality(s) : s \in wrong}
<1> SUFFICES ASSUME wrong # {} PROVE FALSE
  OBVIOUS
<1>1. \A s \in SUBSET S : Cardinality(s) \in Nat
  BY FS_Subset, FS_CardinalityType
<1>2. PICK s \in wrong : \A t \in wrong : Cardinality(s) <= Cardinality(t)
  <2>1. sizes \in SUBSET Nat /\ sizes # {}
    BY <1>1
  <2> HIDE DEF sizes
  <2>2. PICK n \in sizes : \A k \in sizes : n <= k
    BY <2>1, Least
  <2>3. QED
    BY <2>2 DEF sizes
<1>3. s \in SUBSET S /\ ~Right(s)
  OBVIOUS
<1>4. \A t \in SUBSET S : h[t] = IF t = {} THEN 0 ELSE h[t \ {One(t)}] + Len(m[One(t)])
  BY DEF Counts
<1>5. CASE s = {}
  <2>1. h[s] = 0
    BY <1>3, <1>4, <1>5
  <2>2. QED
    BY <1>3, <1>5, <2>1
<1>6. CASE s # {}
  <2> DEFINE x == One(s)
             t == s \ {x}
  <2>1. x \in s /\ t \in SUBSET S /\ Cardinality(t) = Cardinality(s) - 1
    BY <1>3, <1>6, OneOut
  <2>2. h[s] = h[t] + Len(m[x])
    BY <1>3, <1>4, <1>6
  <2>3. Right(t)
    <3>1. ~(Cardinality(s) <= Cardinality(t))
      BY <1>1, <1>3, <2>1
    <3>2. t \notin wrong
      BY <1>2, <3>1
    <3>3. QED
      BY <2>1, <3>2
  <2>4. Len(m[x]) \in Nat
    BY <1>3, <2>1
  <2>5. \A p \in s : p = x \/ p \in t
    OBVIOUS
  <2> HIDE DEF x, t
  <2>6. h[s] \in Nat
    BY <2>2, <2>3, <2>4
  <2>7. \A p \in s : Len(m[p]) \in Nat
    BY <1>3
  <2>8. \A p \in s : Len(m[p]) <= h[s]
    BY <2>2, <2>3, <2>4, <2>5, <2>7
  <2>9. QED
    BY <1>3, <2>6, <2>8
<1>7. QED
  BY <1>5, <1>6

\* The number of values of a map, each of whose symbols has a list of them.
NumTuples(m) == FoldFunction(LAMBDA vals, n : n + Len(vals), 0, m)

LEMMA NumTuplesBounds ==
  ASSUME NEW m, IsFiniteSet(DOMAIN m), \A p \in DOMAIN m : Len(m[p]) \in Nat
  PROVE  NumTuples(m) \in Nat /\ \A p \in DOMAIN m : Len(m[p]) <= NumTuples(m)
<1> DEFINE S == DOMAIN m
<1>1. NumTuples(m) = (CHOOSE h : Counts(h, SUBSET S, m))[S]
  BY Zenon DEF NumTuples, Counts, One, FoldFunction, FoldFunctionOnSet, MapThenFoldSet
<1>2. \E h : Counts(h, SUBSET S, m)
  BY CountsExist
<1>3. PICK h : h = (CHOOSE g : Counts(g, SUBSET S, m)) /\ Counts(h, SUBSET S, m)
  BY <1>2, Zenon
<1>4. h[S] \in Nat /\ \A p \in S : Len(m[p]) <= h[S]
  <2>1. \A s \in SUBSET S : h[s] \in Nat /\ \A p \in s : Len(m[p]) <= h[s]
    BY <1>3, CountBounds
  <2>2. QED
    BY <2>1
<1>5. QED
  BY <1>1, <1>3, <1>4

\* What FlattenSeq() is the result of.
IsFlat(g, n, seqs) == g = [i \in 1 .. n |-> IF i = 1 THEN seqs[i] ELSE g[i - 1] \o seqs[i]]

LEMMA FlatExists ==
  ASSUME NEW seqs, NEW n \in Nat
  PROVE  \E g : IsFlat(g, n, seqs)
<1> DEFINE bad == {k \in Nat : ~ \E g : IsFlat(g, k, seqs)}
<1> SUFFICES ASSUME bad # {} PROVE FALSE
  OBVIOUS
<1>1. PICK k \in bad : \A j \in bad : k <= j
  <2>1. bad \in SUBSET Nat
    OBVIOUS
  <2> HIDE DEF bad
  <2>2. QED
    BY <2>1, Least
<1>2. k \in Nat
  OBVIOUS
<1>3. CASE k = 0
  <2>1. IsFlat([i \in 1 .. 0 |-> <<>>], 0, seqs)
    BY DEF IsFlat
  <2>2. QED
    BY <1>1, <1>3, <2>1
<1>4. CASE k # 0
  <2>1. k - 1 \in Nat /\ k - 1 \notin bad
    BY <1>1, <1>2, <1>4
  <2>2. PICK g : IsFlat(g, k - 1, seqs)
    BY <2>1
  <2> DEFINE h == [i \in 1 .. k |-> IF i = 1 THEN seqs[i] ELSE g[i - 1] \o seqs[i]]
  <2>3. \A i \in 1 .. k - 1 : g[i] = IF i = 1 THEN seqs[i] ELSE g[i - 1] \o seqs[i]
    BY <2>2 DEF IsFlat
  <2>4. \A i \in 1 .. k : i # 1 => i - 1 \in 1 .. k - 1 /\ i - 1 \in 1 .. k
    BY <1>2
  <2>5. \A i \in 1 .. k : i # 1 => h[i - 1] = g[i - 1]
    BY <2>3, <2>4
  <2>6. h = [i \in 1 .. k |-> IF i = 1 THEN seqs[i] ELSE h[i - 1] \o seqs[i]]
    BY <2>5
  <2> HIDE DEF h
  <2>7. IsFlat(h, k, seqs)
    BY <2>6 DEF IsFlat
  <2>8. QED
    BY <1>1, <2>7
<1>5. QED
  BY <1>3, <1>4

\* Sequences put together are a sequence of the same elements.
LEMMA FlattenTyped ==
  ASSUME NEW S, NEW seqs \in Seq(Seq(S))
  PROVE  FlattenSeq(seqs) \in Seq(S)
<1> DEFINE n == Len(seqs)
<1>1. n \in Nat /\ \A i \in 1 .. n : seqs[i] \in Seq(S)
  BY LenProperties, ElementOfSeq
<1>2. CASE n = 0
  <2>1. FlattenSeq(seqs) = <<>>
    BY <1>2, EmptySeq DEF FlattenSeq
  <2>2. QED
    BY <2>1, EmptySeq
<1>3. CASE n # 0
  <2>1. FlattenSeq(seqs) = (CHOOSE h : IsFlat(h, n, seqs))[n]
    BY <1>3, Zenon DEF FlattenSeq, IsFlat
  <2> HIDE DEF n
  <2>2. PICK h : h = (CHOOSE f : IsFlat(f, n, seqs)) /\ IsFlat(h, n, seqs)
    BY <1>1, FlatExists, Zenon
  <2>3. \A i \in 1 .. n : h[i] = IF i = 1 THEN seqs[i] ELSE h[i - 1] \o seqs[i]
    BY <2>2 DEF IsFlat
  <2> DEFINE bad == {i \in 1 .. n : h[i] \notin Seq(S)}
  <2>4. bad = {}
    <3> SUFFICES ASSUME bad # {} PROVE FALSE
      OBVIOUS
    <3>1. PICK k \in bad : \A j \in bad : k <= j
      <4>1. bad \in SUBSET Nat
        OBVIOUS
      <4> HIDE DEF bad
      <4>2. QED
        BY <4>1, Least
    <3>2. k \in 1 .. n /\ k # 1
      BY <1>1, <2>3
    <3>3. k - 1 \in 1 .. n /\ k - 1 \notin bad
      BY <1>1, <3>1, <3>2
    <3>4. h[k - 1] \in Seq(S) /\ seqs[k] \in Seq(S)
      BY <1>1, <3>2, <3>3
    <3>5. h[k] = h[k - 1] \o seqs[k]
      BY <2>3, <3>2
    <3>6. QED
      BY <3>4, <3>5, ConcatProperties
  <2>5. h[n] \in Seq(S)
    <3>1. n \in 1 .. n /\ n \notin bad
      BY <1>1, <1>3, <2>4
    <3>2. QED
      BY <3>1
  <2>6. QED
    BY <2>1, <2>2, <2>5
<1>4. QED
  BY <1>2, <1>3

---------------------------------------------------------------------------
(* The map.                                                                *)

Values(n) == [str : STRING, serial_no : 0 .. n]
MapInv == CfgTypeOK /\ IsFiniteSet(DOMAIN entry_map)

\* A value filed stays one however many are filed after it.
LEMMA ValuesGrow ==
  ASSUME NEW m \in Nat, NEW n \in Nat, m <= n
  PROVE  Values(m) \subseteq Values(n) /\ Seq(Values(m)) \subseteq Seq(Values(n))
<1>1. Values(m) \subseteq Values(n)
  BY DEF Values
<1>2. QED
  BY <1>1, SeqMonotonic

LEMMA ClosedTyped ==
  ASSUME curlyBlock_lst \in Seq(STRING), NEW n \in 0 .. Len(curlyBlock_lst)
  PROVE  Closed(n) \in Seq(STRING)
<1>1. Len(curlyBlock_lst) \in Nat /\ \A i \in 1 .. Len(curlyBlock_lst) : curlyBlock_lst[i] \in STRING
  BY LenProperties, ElementOfSeq
<1> DEFINE m == Len(curlyBlock_lst) - n
<1>2. m \in Int /\ \A i \in 1 .. m : curlyBlock_lst[i] \in STRING
  BY <1>1
<1> HIDE DEF m
<1>3. SubSeq(curlyBlock_lst, 1, m) \in Seq(STRING)
  BY <1>2, SubSeqProperties
<1>4. QED
  BY <1>3 DEF Closed, m

LEMMA EndsIs ==
  ASSUME NEW l
  PROVE  Ends(l) \in {0, 1, 2}
BY DEF Ends

\* The file that is read goes on, at whatever line.
LEMMA RemainsTyped ==
  ASSUME CfgTypeOK, fhs # <<>>, NEW rest \in Seq(Lines), Remains(rest)
  PROVE  fhs' \in Seq(Seq(Lines)) /\ Len(fhs') = Len(fhs) /\ fhs' # <<>>
<1> DEFINE S == Seq(Lines)
           n == Len(fhs)
<1>1. fhs \in Seq(S)
  BY DEF CfgTypeOK
<1>2. n \in Nat /\ fhs \in [1 .. n -> S] /\ n # 0
  BY <1>1, LenProperties, EmptySeq
<1>3. fhs' = [fhs EXCEPT ![n] = rest]
  BY DEF Remains
<1> HIDE DEF S, n
<1>4. fhs' \in [1 .. n -> S]
  BY <1>2, <1>3 DEF S
<1>5. fhs' \in Seq(S)
  BY <1>2, <1>4, SeqDef
<1>6. Len(fhs') = n
  BY <1>2, <1>4, <1>5, LenProperties
<1>7. QED
  BY <1>2, <1>5, <1>6, EmptySeq DEF S, n

LEMMA RecordedTyped ==
  ASSUME CfgTypeOK, NEW l \in Lines, Recorded(l)
  PROVE  doc' \in Seq(Lines) /\ Len(doc') = Len(doc) + 1
BY AppendProperties DEF CfgTypeOK, Recorded

\* A change of the map leaves the other variables their types.
LEMMA MapKept ==
  ASSUME CfgTypeOK,
         fhs' \in Seq(Seq(Lines)), Len(fhs') <= MaxOpen,
         doc' \in Seq(Lines), Len(doc') \in Nat, serial_no_seq' \in 0 .. Len(doc'),
         curlyBlock_lst' \in Seq(STRING),
         \A path \in DOMAIN entry_map' :
           path \in Seq(STRING) /\ entry_map'[path] \in Seq(Values(serial_no_seq')),
         DOMAIN entry_map \subseteq DOMAIN entry_map',
         known' \in BOOLEAN, nTuples' = nTuples, looked' = looked
  PROVE  CfgTypeOK'
BY DEF CfgTypeOK, Values

LEMMA PairTyped ==
  ASSUME MapInv, fhs # <<>>, NEW l \in Lines, NEW rest \in Seq(Lines), NEW ok \in BOOLEAN,
         Pair(l, rest, ok)
  PROVE  MapInv' /\ fhs' # <<>>
<1>1. /\ fhs' \in Seq(Seq(Lines)) /\ Len(fhs') <= MaxOpen /\ fhs' # <<>>
      /\ doc' \in Seq(Lines) /\ Len(doc') = Len(doc) + 1 /\ Len(doc) \in Nat
      /\ UNCHANGED <<nTuples, looked>>
      /\ ok = (Ends(l) <= Len(curlyBlock_lst))
  BY RemainsTyped, RecordedTyped, LenProperties DEF Pair, MapInv, CfgTypeOK
<1>2. /\ serial_no_seq \in 0 .. Len(doc) /\ curlyBlock_lst \in Seq(STRING) /\ known \in BOOLEAN
      /\ \A path \in DOMAIN entry_map :
           path \in Seq(STRING) /\ entry_map[path] \in Seq(Values(serial_no_seq))
      /\ IsFiniteSet(DOMAIN entry_map)
  BY DEF MapInv, CfgTypeOK, Values
<1>3. CASE ~ok
  <2>1. UNCHANGED <<readVars, known>>
    BY <1>3 DEF Pair
  <2>2. CfgTypeOK'
    BY <1>1, <1>2, <2>1, MapKept DEF MapInv, readVars
  <2>3. QED
    BY <1>1, <2>1, <2>2 DEF MapInv, readVars
<1>4. CASE ok
  <2> DEFINE blocks == Closed(Ends(l))
             path == blocks \o l.sym
             v == [str |-> l.val, serial_no |-> serial_no_seq']
  <2>1. blocks \in Seq(STRING)
    <3>1. Ends(l) \in 0 .. Len(curlyBlock_lst)
      <4>1. Ends(l) <= Len(curlyBlock_lst)
        BY <1>1, <1>4
      <4>2. Ends(l) \in Nat /\ Len(curlyBlock_lst) \in Nat
        BY <1>2, EndsIs, LenProperties
      <4>3. QED
        BY <4>1, <4>2
    <3>2. QED
      BY <1>2, <3>1, ClosedTyped
  <2>2. l.sym \in Seq(STRING) /\ l.val \in STRING
    BY DEF Lines
  <2>3. path \in Seq(STRING)
    BY <2>1, <2>2, ConcatProperties
  <2>4. curlyBlock_lst' \in Seq(STRING)
    <3>1. curlyBlock_lst' = blocks \/ curlyBlock_lst' = Append(blocks, l.val)
      BY <1>4 DEF Pair
    <3> HIDE DEF blocks
    <3>2. Append(blocks, l.val) \in Seq(STRING)
      BY <2>1, <2>2, AppendProperties
    <3>3. QED
      BY <2>1, <3>1, <3>2
  <2>5. /\ l.val = "" => /\ entry_map' = Entry(entry_map, path)
                         /\ UNCHANGED <<serial_no_seq, known>>
        /\ l.val # "" => /\ serial_no_seq' = serial_no_seq + 1 /\ known' = FALSE
                         /\ entry_map' = AppendValue(entry_map, path, v)
    BY <1>4 DEF Pair
  <2> HIDE DEF path, blocks
  <2>6. CASE l.val = ""
    <3>1. /\ DOMAIN entry_map' = DOMAIN entry_map \cup {path}
          /\ \A p \in DOMAIN entry_map' :
               entry_map'[p] = IF p \in DOMAIN entry_map THEN entry_map[p] ELSE <<>>
      BY <2>5, <2>6 DEF Entry
    <3>2. <<>> \in Seq(Values(serial_no_seq)) /\ Len(<<>>) = 0
      BY EmptySeq
    <3>3. \A p \in DOMAIN entry_map' :
            p \in Seq(STRING) /\ entry_map'[p] \in Seq(Values(serial_no_seq))
      BY <1>2, <2>3, <3>1, <3>2
    <3>4. CfgTypeOK'
      <4>1. /\ DOMAIN entry_map \subseteq DOMAIN entry_map' /\ known' \in BOOLEAN
            /\ serial_no_seq' = serial_no_seq
        BY <1>2, <2>5, <2>6, <3>1
      <4>2. serial_no_seq' \in 0 .. Len(doc') /\ Len(doc') \in Nat
        BY <1>1, <1>2, <4>1
      <4>3. \A p \in DOMAIN entry_map' :
              p \in Seq(STRING) /\ entry_map'[p] \in Seq(Values(serial_no_seq'))
        BY <3>3, <4>1
      <4>4. QED
        BY <1>1, <2>4, <4>1, <4>2, <4>3, MapKept DEF MapInv
    <3>5. IsFiniteSet(DOMAIN entry_map')
      <4>1. IsFiniteSet(DOMAIN entry_map)
        BY <1>2
      <4>2. IsFiniteSet(DOMAIN entry_map \cup {path})
        BY <4>1, FS_AddElement
      <4>3. QED
        BY <3>1, <4>2
    <3>6. QED
      BY <1>1, <3>4, <3>5 DEF MapInv
  <2>7. CASE l.val # ""
    <3>1. /\ DOMAIN entry_map' = DOMAIN entry_map \cup {path}
          /\ \A p \in DOMAIN entry_map : p # path => entry_map'[p] = entry_map[p]
          /\ entry_map'[path] = IF path \in DOMAIN entry_map
                                THEN Append(entry_map[path], v) ELSE Append(<<>>, v)
      <4>1. entry_map' = AppendValue(entry_map, path, v)
        BY <2>5, <2>7
      <4> HIDE DEF v
      <4>2. QED
        BY <4>1 DEF AppendValue, Entry
    <3>2. /\ serial_no_seq \in Nat /\ serial_no_seq' \in 0 .. Len(doc')
          /\ serial_no_seq' \in Nat /\ serial_no_seq <= serial_no_seq'
      <4>1. serial_no_seq' = serial_no_seq + 1
        BY <2>5, <2>7
      <4>2. serial_no_seq \in 0 .. Len(doc) /\ Len(doc) \in Nat /\ Len(doc') = Len(doc) + 1
        BY <1>1, <1>2
      <4>3. QED
        BY <4>1, <4>2
    <3>3. Seq(Values(serial_no_seq)) \subseteq Seq(Values(serial_no_seq'))
      BY <3>2, ValuesGrow
    <3>4. v \in Values(serial_no_seq')
      BY <2>2, <3>2 DEF Values
    <3> HIDE DEF v
    <3>5. entry_map'[path] \in Seq(Values(serial_no_seq'))
      <4>1. CASE path \in DOMAIN entry_map
        BY <1>2, <3>1, <3>3, <3>4, <4>1, AppendProperties
      <4>2. CASE path \notin DOMAIN entry_map
        <5>1. <<>> \in Seq(Values(serial_no_seq'))
          BY EmptySeq
        <5>2. QED
          BY <3>1, <3>4, <4>2, <5>1, AppendProperties
      <4>3. QED
        BY <4>1, <4>2
    <3>6. \A p \in DOMAIN entry_map' :
            p \in Seq(STRING) /\ entry_map'[p] \in Seq(Values(serial_no_seq'))
      <4> TAKE p \in DOMAIN entry_map'
      <4>1. CASE p = path
        BY <2>3, <3>5, <4>1
      <4>2. CASE p # path
        BY <1>2, <3>1, <3>3, <4>2
      <4>3. QED
        BY <4>1, <4>2
    <3>7. CfgTypeOK'
      <4>1. /\ DOMAIN entry_map \subseteq DOMAIN entry_map' /\ known' \in BOOLEAN
        BY <2>5, <2>7, <3>1
      <4>2. Len(doc') \in Nat
        BY <1>1
      <4>3. QED
        BY <1>1, <2>4, <3>2, <3>6, <4>1, <4>2, MapKept DEF MapInv
    <3>8. IsFiniteSet(DOMAIN entry_map')
      BY <1>2, <3>1, FS_AddElement
    <3>9. QED
      BY <1>1, <3>7, <3>8 DEF MapInv
  <2>8. QED
    BY <2>6, <2>7
<1>5. QED
  BY <1>3, <1>4

LEMMA ReplaceTyped ==
  ASSUME MapInv, fhs # <<>>, NEW l \in Lines, NEW rest \in Seq(Lines), NEW ok \in BOOLEAN,
         Replace(l, rest, ok)
  PROVE  MapInv' /\ fhs' # <<>>
<1>1. /\ fhs' \in Seq(Seq(Lines)) /\ Len(fhs') <= MaxOpen /\ fhs' # <<>>
      /\ doc' \in Seq(Lines) /\ Len(doc') = Len(doc) + 1 /\ Len(doc) \in Nat
      /\ UNCHANGED <<serial_no_seq, known, nTuples, looked>>
  BY RemainsTyped, RecordedTyped, LenProperties DEF Replace, MapInv, CfgTypeOK, queryVars
<1>2. /\ serial_no_seq \in 0 .. Len(doc) /\ curlyBlock_lst \in Seq(STRING) /\ known \in BOOLEAN
      /\ \A path \in DOMAIN entry_map :
           path \in Seq(STRING) /\ entry_map[path] \in Seq(Values(serial_no_seq))
      /\ IsFiniteSet(DOMAIN entry_map)
  BY DEF MapInv, CfgTypeOK, Values
<1>3. CASE ~ok
  <2>1. UNCHANGED <<curlyBlock_lst, entry_map>>
    BY <1>3 DEF Replace
  <2>2. CfgTypeOK'
    BY <1>1, <1>2, <2>1, MapKept DEF MapInv
  <2>3. QED
    BY <1>1, <2>1, <2>2 DEF MapInv
<1>4. CASE ok
  <2> DEFINE vals == entry_map[l.sym]
             new == IF l.ndx = NoNdx THEN <<Wild>> ELSE [vals EXCEPT ![l.ndx + 1].str = l.val]
  <2>1. /\ Ends(l) <= Len(curlyBlock_lst) /\ l.sym \in DOMAIN entry_map
        /\ l.ndx = NoNdx => Len(vals) = 1
        /\ l.ndx # NoNdx => l.ndx < Len(vals)
        /\ curlyBlock_lst' = Closed(Ends(l))
        /\ entry_map' = [entry_map EXCEPT ![l.sym] = new]
    BY <1>4 DEF Replace
  <2>2. curlyBlock_lst' \in Seq(STRING)
    <3>1. Ends(l) \in 0 .. Len(curlyBlock_lst)
      BY <1>2, <2>1, EndsIs, LenProperties
    <3>2. QED
      BY <1>2, <2>1, <3>1, ClosedTyped
  <2>3. l.ndx \in Nat \cup {NoNdx} /\ l.val \in STRING
    BY DEF Lines
  <2>4. vals \in Seq(Values(serial_no_seq)) /\ Len(vals) \in Nat
    BY <1>2, <2>1, LenProperties
  <2>5. new \in Seq(Values(serial_no_seq)) /\ Len(new) = Len(vals)
    <3>1. CASE l.ndx = NoNdx
      <4>1. 0 \in 0 .. serial_no_seq
        BY <1>2
      <4>2. Wild \in Values(serial_no_seq)
        BY <4>1, GarbageAssumption DEF Wild, Values
      <4>3. <<Wild>> \in Seq(Values(serial_no_seq)) /\ Len(<<Wild>>) = 1
        BY <4>2
      <4>4. QED
        BY <2>1, <3>1, <4>3
    <3>2. CASE l.ndx # NoNdx
      <4> DEFINE k == l.ndx + 1
                 n == Len(vals)
      <4>1. k \in 1 .. n /\ n \in Nat
        BY <2>1, <2>3, <2>4, <3>2
      <4>2. new = [vals EXCEPT ![k].str = l.val]
        BY <3>2
      <4>3. vals \in [1 .. n -> Values(serial_no_seq)]
        BY <2>4, LenProperties
      <4> HIDE DEF k, n, vals, new
      <4>4. [vals[k] EXCEPT !.str = l.val] \in Values(serial_no_seq)
        BY <2>3, <4>1, <4>3 DEF Values
      <4>5. new \in [1 .. n -> Values(serial_no_seq)]
        BY <4>1, <4>2, <4>3, <4>4
      <4>6. new \in Seq(Values(serial_no_seq))
        BY <4>1, <4>5, SeqDef
      <4>7. QED
        BY <4>1, <4>5, <4>6, LenProperties DEF n
    <3>3. QED
      BY <3>1, <3>2
  <2> HIDE DEF new, vals
  <2>6. /\ DOMAIN entry_map' = DOMAIN entry_map
        /\ \A p \in DOMAIN entry_map : p # l.sym => entry_map'[p] = entry_map[p]
        /\ entry_map'[l.sym] = new
    BY <2>1
  <2>7. \A p \in DOMAIN entry_map' :
          p \in Seq(STRING) /\ entry_map'[p] \in Seq(Values(serial_no_seq'))
    BY <1>1, <1>2, <2>5, <2>6
  <2>8. CfgTypeOK'
    BY <1>1, <1>2, <2>2, <2>6, <2>7, MapKept DEF MapInv
  <2>9. QED
    BY <1>1, <1>2, <2>6, <2>8 DEF MapInv
<1>5. QED
  BY <1>3, <1>4

\* The other lines leave the map as it is.
LEMMA OtherTyped ==
  ASSUME MapInv, fhs # <<>>, NEW l \in Lines, NEW rest \in Seq(Lines), NEW ok \in BOOLEAN,
         Close(l, rest, ok) \/ Include(l, rest, ok) \/ Broken(l, ok)
  PROVE  MapInv' /\ fhs' # <<>>
<1>1. UNCHANGED <<entry_map, serial_no_seq, known, nTuples, looked>>
  BY DEF Close, Include, Broken, readVars, queryVars, cfgVars
<1>2. IsFiniteSet(DOMAIN entry_map')
  BY <1>1 DEF MapInv
<1>3. /\ serial_no_seq \in 0 .. Len(doc) /\ Len(doc) \in Nat /\ known \in BOOLEAN
      /\ \A path \in DOMAIN entry_map :
           path \in Seq(STRING) /\ entry_map[path] \in Seq(Values(serial_no_seq))
      /\ fhs \in Seq(Seq(Lines)) /\ Len(fhs) <= MaxOpen /\ doc \in Seq(Lines)
      /\ curlyBlock_lst \in Seq(STRING)
  BY LenProperties DEF MapInv, CfgTypeOK, Values
<1>4. Ends(l) <= Len(curlyBlock_lst) => Closed(Ends(l)) \in Seq(STRING)
  <2> SUFFICES ASSUME Ends(l) <= Len(curlyBlock_lst) PROVE Closed(Ends(l)) \in Seq(STRING)
    OBVIOUS
  <2>1. Ends(l) \in {0, 1, 2} /\ Len(curlyBlock_lst) \in Nat
    BY <1>3, EndsIs, LenProperties
  <2>2. Ends(l) \in 0 .. Len(curlyBlock_lst)
    BY <2>1
  <2>3. QED
    BY <1>3, <2>2, ClosedTyped
<1>5. CASE Close(l, rest, ok)
  <2>1. /\ fhs' \in Seq(Seq(Lines)) /\ Len(fhs') <= MaxOpen /\ fhs' # <<>>
        /\ doc' \in Seq(Lines) /\ Len(doc') = Len(doc) + 1
    BY <1>3, <1>5, RemainsTyped, RecordedTyped DEF Close, MapInv
  <2>2. curlyBlock_lst' \in Seq(STRING)
    BY <1>3, <1>4, <1>5 DEF Close
  <2>3. CfgTypeOK'
    BY <1>1, <1>3, <2>1, <2>2, MapKept DEF MapInv
  <2>4. QED
    BY <1>2, <2>1, <2>3 DEF MapInv
<1>6. CASE Include(l, rest, ok)
  <2>1. /\ Recorded(l)
        /\ curlyBlock_lst' = IF Ends(l) <= Len(curlyBlock_lst)
                             THEN Closed(Ends(l)) ELSE curlyBlock_lst
        /\ ok => l.sym \in DOMAIN Files /\ Len(fhs) < MaxOpen
        /\ fhs' = IF ok THEN Append([fhs EXCEPT ![Len(fhs)] = rest], Files[l.sym]) ELSE fhs
    BY <1>6 DEF Include
  <2>2. fhs' \in Seq(Seq(Lines)) /\ Len(fhs') <= MaxOpen /\ fhs' # <<>>
    <3>1. CASE ~ok
      BY <1>3, <2>1, <3>1
    <3>2. CASE ok
      <4> DEFINE S == Seq(Lines)
                 n == Len(fhs)
                 outer == [fhs EXCEPT ![n] = rest]
      <4>1. n \in Nat /\ fhs \in [1 .. n -> S]
        BY <1>3, LenProperties
      <4>2. Files[l.sym] \in S
        BY <2>1, <3>2, FilesAssumption
      <4>3. fhs' = Append(outer, Files[l.sym]) /\ n < MaxOpen
        BY <2>1, <3>2
      <4>4. outer \in [1 .. n -> S]
        <5> HIDE DEF S, n
        <5>1. QED
          BY <4>1 DEF S
      <4> HIDE DEF S, n, outer
      <4>5. outer \in Seq(S) /\ Len(outer) = n
        BY <4>1, <4>4, SeqDef, LenProperties
      <4>6. fhs' \in Seq(S) /\ Len(fhs') = n + 1
        BY <4>2, <4>3, <4>5, AppendProperties
      <4>7. Len(fhs') <= MaxOpen /\ Len(fhs') # 0
        BY <4>1, <4>3, <4>6, OpenAssumption
      <4>8. QED
        BY <4>6, <4>7, EmptySeq DEF S
    <3>3. QED
      BY <3>1, <3>2
  <2>3. doc' \in Seq(Lines) /\ Len(doc') = Len(doc) + 1 /\ curlyBlock_lst' \in Seq(STRING)
    BY <1>3, <1>4, <2>1, RecordedTyped DEF MapInv
  <2>4. CfgTypeOK'
    <3>1. Len(doc') \in Nat /\ serial_no_seq' \in 0 .. Len(doc')
      BY <1>1, <1>3, <2>3
    <3>2. QED
      BY <1>1, <1>3, <2>2, <2>3, <3>1, MapKept DEF MapInv
  <2>5. QED
    BY <1>2, <2>2, <2>4 DEF MapInv
<1>7. CASE Broken(l, ok)
  <2>1. UNCHANGED <<fhs, curlyBlock_lst, doc>>
    BY <1>7 DEF Broken, cfgVars
  <2>2. CfgTypeOK'
    BY <1>1, <1>3, <2>1, MapKept DEF MapInv
  <2>3. QED
    BY <1>2, <2>1, <2>2 DEF MapInv
<1>8. QED
  BY <1>5, <1>6, <1>7

LEMMA LineTyped ==
  ASSUME MapInv, fhs # <<>>, NEW l \in Lines, NEW rest \in Seq(Lines), NEW ok \in BOOLEAN,
         Line(l, rest, ok)
  PROVE  MapInv' /\ fhs' # <<>>
BY PairTyped, ReplaceTyped, OtherTyped DEF Line

---------------------------------------------------------------------------
(* The state of main().                                                    *)

Work == [step : {"section", "init"}, sym : {"MAX_OFFENSES", "LOGTYPE"}, path : Seq(STRING)]
MainTypeOK ==
  /\ pc \in {"options", "parse", "configure", "report", "block", "stopped", "failed", "crashed"}
  /\ optind \in 0 .. Len(argv) /\ deviations \in 0 .. MaxDeviations
  /\ dir \in CacheKinds
  /\ todo \in Seq(Work)
  /\ \A a \in DOMAIN addr_map : a \in DOMAIN CountryOf /\ addr_map[a] \in Int
  /\ \A c \in DOMAIN cntry_map : cntry_map[c] \in Int
  /\ DOMAIN cacheDirs = CacheKinds
StartInv ==
  /\ MapInv /\ MainTypeOK /\ argv \in Seq(Options)
  /\ pc \in {"options", "parse"} => fhs # <<>>

LEMMA StartInit == Init => StartInv
<1> SUFFICES ASSUME Init PROVE StartInv
  OBVIOUS
<1>1. /\ fhs = <<Files[Main]>> /\ curlyBlock_lst = <<>> /\ entry_map = <<>>
      /\ serial_no_seq = 0 /\ known = FALSE /\ nTuples = 0 /\ looked = {} /\ doc = <<>>
  BY DEF Init, CfgInit
<1>2. Files[Main] \in Seq(Lines)
  BY FilesAssumption
<1>3. fhs \in Seq(Seq(Lines)) /\ Len(fhs) = 1 /\ fhs # <<>>
  BY <1>1, <1>2
<1>4. DOMAIN entry_map = {}
  BY <1>1
<1>5. Len(doc) = 0 /\ doc \in Seq(Lines) /\ curlyBlock_lst \in Seq(STRING)
  BY <1>1, EmptySeq
<1>6. MapInv
  <2>1. CfgTypeOK
    <3>1. 1 <= MaxOpen
      BY OpenAssumption
    <3>2. Len(fhs) <= MaxOpen /\ serial_no_seq \in 0 .. Len(doc)
      BY <1>1, <1>3, <1>5, <3>1
    <3>3. nTuples \in Nat /\ known \in BOOLEAN /\ looked \subseteq DOMAIN entry_map
      BY <1>1
    <3>4. QED
      BY <1>3, <1>4, <1>5, <3>2, <3>3 DEF CfgTypeOK
  <2>2. QED
    BY <1>1, <1>4, <2>1, FS_EmptySet DEF MapInv
<1>7. argv \in Seq(Options) /\ Len(argv) \in 0 .. MaxDeviations
  <2>1. PICK m \in 0 .. MaxDeviations : argv \in [1 .. m -> Options]
    <3>1. argv \in SeqOf(Options, MaxDeviations)
      BY DEF Init
    <3>2. QED
      BY <3>1 DEF SeqOf
  <2>2. m \in Nat
    BY DeviationsAssumption
  <2>3. argv \in Seq(Options)
    BY <2>1, <2>2, SeqDef
  <2>4. Len(argv) = m
    BY <2>1, <2>2, <2>3, LenProperties
  <2>5. QED
    BY <2>1, <2>3, <2>4
<1>8. MainTypeOK
  <2>1. /\ pc = "options" /\ optind = 0 /\ dir = "production" /\ deviations = Len(argv)
        /\ todo = <<>> /\ addr_map = <<>> /\ cntry_map = <<>>
        /\ cacheDirs = [k \in CacheKinds |-> OldNames]
    BY DEF Init
  <2>2. optind \in 0 .. Len(argv) /\ todo \in Seq(Work) /\ DOMAIN addr_map = {} /\ DOMAIN cntry_map = {}
    BY <1>7, <2>1, EmptySeq
  <2>3. QED
    BY <1>7, <2>1, <2>2 DEF MainTypeOK, CacheKinds
<1>9. QED
  BY <1>3, <1>6, <1>7, <1>8 DEF StartInv

\* Whatever leaves the map alone leaves it as it was.
LEMMA MapSame ==
  ASSUME MapInv, UNCHANGED cfgVars
  PROVE  MapInv'
BY DEF MapInv, CfgTypeOK, cfgVars

LEMMA MainSame ==
  ASSUME MainTypeOK, UNCHANGED <<mainVars, addr_map, cntry_map>>, DOMAIN cacheDirs' = CacheKinds
  PROVE  MainTypeOK'
BY DEF MainTypeOK, mainVars

LEMMA GetOptionInv == StartInv /\ GetOption => StartInv'
<1> SUFFICES ASSUME StartInv, GetOption PROVE StartInv'
  OBVIOUS
<1>1. UNCHANGED <<cfgVars, argv, deviations, todo, confVars>> /\ pc = "options" /\ fhs # <<>>
  BY DEF GetOption, StartInv
<1>2. MapInv'
  BY <1>1, MapSame DEF StartInv
<1>3. /\ optind' = optind + 1 /\ optind < Len(argv) /\ pc' \in {"stopped", "options"}
      /\ dir' \in {"test", dir}
  BY DEF GetOption, Goto
<1>4. optind' \in 0 .. Len(argv') /\ dir' \in CacheKinds
  <2>1. optind \in 0 .. Len(argv) /\ Len(argv) \in Nat /\ dir \in CacheKinds
    BY LenProperties DEF StartInv, MainTypeOK
  <2>2. QED
    BY <1>1, <1>3, <2>1 DEF CacheKinds
<1>5. MainTypeOK'
  BY <1>1, <1>3, <1>4 DEF StartInv, MainTypeOK, confVars
<1>6. QED
  BY <1>1, <1>2, <1>5 DEF StartInv, cfgVars

LEMMA OptionsDoneInv == StartInv /\ OptionsDone => StartInv'
<1> SUFFICES ASSUME StartInv, OptionsDone PROVE StartInv'
  OBVIOUS
<1>1. /\ UNCHANGED <<cfgVars, argv, optind, dir, deviations, todo, confVars>>
      /\ pc = "options" /\ fhs # <<>> /\ pc' \in {"failed", "parse"}
  BY DEF OptionsDone, StartInv, Goto
<1>2. MapInv'
  BY <1>1, MapSame DEF StartInv
<1>3. MainTypeOK'
  BY <1>1 DEF StartInv, MainTypeOK, confVars
<1>4. QED
  BY <1>1, <1>2, <1>3 DEF StartInv, cfgVars

\* The line that is read is one of the file, or one that may turn up anywhere.
LEMMA NextLineTyped ==
  ASSUME CfgTypeOK, fhs # <<>>
  PROVE  /\ Current \in Seq(Lines) /\ Len(fhs) \in Nat /\ fhs[Len(fhs)] = Current
         /\ Current # <<>> => Head(Current) \in Lines /\ Tail(Current) \in Seq(Lines)
<1>1. fhs \in Seq(Seq(Lines))
  BY DEF CfgTypeOK
<1>2. Len(fhs) \in Nat /\ Len(fhs) # 0 /\ \A i \in 1 .. Len(fhs) : fhs[i] \in Seq(Lines)
  BY <1>1, LenProperties, ElementOfSeq, EmptySeq
<1>3. Current = fhs[Len(fhs)]
  BY DEF Current, Last
<1>4. Current \in Seq(Lines)
  BY <1>2, <1>3
<1>5. QED
  BY <1>2, <1>3, <1>4, HeadTailProperties

LEMMA ReadLineInv == StartInv /\ ReadLine => StartInv'
<1> SUFFICES ASSUME StartInv, ReadLine PROVE StartInv'
  OBVIOUS
<1>1. PICK next \in NextLines, ok \in BOOLEAN :
        /\ deviations + next[3] <= MaxDeviations /\ deviations' = deviations + next[3]
        /\ Line(next[1], next[2], ok)
        /\ Goto(IF ok THEN "parse" ELSE "failed")
  BY DEF ReadLine
<1>2. /\ UNCHANGED <<argv, optind, flags, dir, todo, confVars>>
      /\ pc = "parse" /\ fhs # <<>> /\ MapInv /\ CfgTypeOK
  BY DEF ReadLine, StartInv, MapInv
<1>3. next[1] \in Lines /\ next[2] \in Seq(Lines) /\ next[3] \in {0, 1}
  BY <1>1, <1>2, NextLineTyped, DeviantAssumption DEF NextLines
<1>4. MapInv' /\ fhs' # <<>>
  BY <1>1, <1>2, <1>3, LineTyped
<1>5. pc' \in {"parse", "failed"}
  BY <1>1 DEF Goto
<1>6. deviations' \in 0 .. MaxDeviations
  <2>1. deviations \in 0 .. MaxDeviations /\ MaxDeviations \in Nat
    BY DeviationsAssumption DEF StartInv, MainTypeOK
  <2>2. QED
    BY <1>1, <1>3, <2>1
<1>7. MainTypeOK'
  BY <1>2, <1>5, <1>6 DEF StartInv, MainTypeOK, confVars
<1>8. QED
  BY <1>2, <1>4, <1>7 DEF StartInv

LEMMA SkipLineInv == StartInv /\ SkipLine => StartInv'
<1> SUFFICES ASSUME StartInv, SkipLine PROVE StartInv'
  OBVIOUS
<1>1. /\ UNCHANGED <<readVars, queryVars, doc, pc, argv, optind, flags, dir, todo, confVars>>
      /\ Remains(Tail(Current)) /\ Current # <<>> /\ fhs # <<>> /\ CfgTypeOK
      /\ deviations < MaxDeviations /\ deviations' = deviations + 1
  BY DEF SkipLine, StartInv, MapInv
<1>2. fhs' \in Seq(Seq(Lines)) /\ Len(fhs') = Len(fhs) /\ fhs' # <<>>
  BY <1>1, NextLineTyped, RemainsTyped
<1>3. MapInv'
  BY <1>1, <1>2 DEF StartInv, MapInv, CfgTypeOK, readVars, queryVars
<1>4. deviations' \in 0 .. MaxDeviations
  BY <1>1, DeviationsAssumption DEF StartInv, MainTypeOK
<1>5. MainTypeOK'
  BY <1>1, <1>4 DEF StartInv, MainTypeOK, confVars
<1>6. QED
  BY <1>1, <1>2, <1>3, <1>5 DEF StartInv

LEMMA FileEndsInv == StartInv /\ FileEnds => StartInv'
<1> SUFFICES ASSUME StartInv, FileEnds PROVE StartInv'
  OBVIOUS
<1>1. PICK ok \in BOOLEAN :
        /\ EndOfFile(ok)
        /\ Goto(IF ~ok THEN "failed" ELSE IF fhs' = <<>> THEN "configure" ELSE "parse")
  BY DEF FileEnds
<1>2. /\ UNCHANGED <<argv, optind, flags, dir, deviations, addr_map, cntry_map>>
      /\ pc = "parse" /\ fhs # <<>> /\ MapInv /\ CfgTypeOK
  BY DEF FileEnds, StartInv, MapInv
<1>3. UNCHANGED <<readVars, queryVars, doc>> /\ fhs' = Front(fhs)
  BY <1>1 DEF EndOfFile
<1>4. fhs' \in Seq(Seq(Lines)) /\ Len(fhs') <= MaxOpen
  <2> DEFINE S == Seq(Lines)
             n == Len(fhs)
  <2>1. fhs \in Seq(S) /\ n <= MaxOpen
    BY <1>2 DEF CfgTypeOK
  <2>2. n \in Nat /\ n # 0 /\ \A i \in 1 .. n : fhs[i] \in S
    BY <1>2, <2>1, LenProperties, ElementOfSeq, EmptySeq
  <2>3. fhs' = SubSeq(fhs, 1, n - 1)
    BY <1>3 DEF Front
  <2> HIDE DEF S, n
  <2>4. \A i \in 1 .. n - 1 : fhs[i] \in S
    BY <2>2
  <2>5. fhs' \in Seq(S) /\ Len(fhs') = n - 1
    BY <2>2, <2>3, <2>4, SubSeqProperties
  <2>6. QED
    BY <2>1, <2>2, <2>5, OpenAssumption DEF S
<1>5. MapInv'
  BY <1>2, <1>3, <1>4 DEF MapInv, CfgTypeOK, readVars, queryVars
<1>6. pc' \in {"failed", "configure", "parse"} /\ (pc' = "parse" => fhs' # <<>>)
  BY <1>1 DEF Goto
<1>7. todo' \in Seq(Work)
  <2>1. todo' = todo \/ todo' = Sections(<<>>)
    BY DEF FileEnds
  <2>2. <<>> \in Seq(STRING)
    BY EmptySeq
  <2>3. Sections(<<>>) \in Seq(Work)
    BY <2>2 DEF Sections, Work
  <2>4. todo \in Seq(Work)
    BY DEF StartInv, MainTypeOK
  <2>5. QED
    BY <2>1, <2>3, <2>4
<1>8. DOMAIN cacheDirs' = CacheKinds
  <2>1. cacheDirs' = cacheDirs \/ cacheDirs' = [cacheDirs EXCEPT ![dir] = {}]
    BY DEF FileEnds
  <2>2. QED
    BY <2>1 DEF StartInv, MainTypeOK
<1>9. MainTypeOK'
  BY <1>2, <1>6, <1>7, <1>8 DEF StartInv, MainTypeOK
<1>10. QED
  BY <1>2, <1>5, <1>6, <1>9 DEF StartInv

\* The first step of what is to be done, and the rest.
LEMMA ItemTyped ==
  ASSUME MainTypeOK, todo # <<>>
  PROVE  Item.path \in Seq(STRING) /\ Tail(todo) \in Seq(Work)
<1>1. Head(todo) \in Work /\ Tail(todo) \in Seq(Work)
  BY HeadTailProperties DEF MainTypeOK
<1>2. QED
  BY <1>1 DEF Item, Work

\* The strings of a symbol.
LEMMA StrsTyped ==
  ASSUME CfgTypeOK, NEW path
  PROVE  /\ DOMAIN Strs(path) = 1 .. Len(Vals(path)) /\ Len(Vals(path)) \in Nat
         /\ \A i \in DOMAIN Strs(path) : Strs(path)[i] \in STRING
<1>1. Vals(path) \in Seq(Values(serial_no_seq))
  <2>1. CASE path \in DOMAIN entry_map
    BY <2>1 DEF Vals, CfgTypeOK, Values
  <2>2. CASE path \notin DOMAIN entry_map
    BY <2>2, EmptySeq DEF Vals
  <2>3. QED
    BY <2>1, <2>2
<1>2. /\ Len(Vals(path)) \in Nat /\ DOMAIN Vals(path) = 1 .. Len(Vals(path))
      /\ \A i \in 1 .. Len(Vals(path)) : Vals(path)[i] \in Values(serial_no_seq)
  BY <1>1, LenProperties, ElementOfSeq
<1>3. QED
  BY <1>2 DEF Strs, Values

LEMMA StepsTyped ==
  ASSUME NEW sym \in {"MAX_OFFENSES", "LOGTYPE"}, NEW block \in Seq(STRING)
  PROVE  Steps(sym, block) \in Seq(Work)
<1>1. <<[step |-> "init", sym |-> sym, path |-> block]>> \in Seq(Work)
  BY DEF Work
<1>2. Sections(block) \in Seq(Work)
  BY DEF Sections, Work
<1>3. QED
  BY <1>1, <1>2, ConcatProperties DEF Steps

\* Queries leave the map what it is, and count its values.
LEMMA QueryKept ==
  ASSUME MapInv, UNCHANGED <<fhs, readVars, doc>>,
         NEW paths, Looked(paths) \/ UNCHANGED looked,
         Counted \/ UNCHANGED <<known, nTuples>>
  PROVE  MapInv'
<1>1. looked' \subseteq DOMAIN entry_map
  BY DEF MapInv, CfgTypeOK, Looked
<1>2. known' \in BOOLEAN /\ nTuples' \in Nat
  <2>1. CASE UNCHANGED <<known, nTuples>>
    BY <2>1 DEF MapInv, CfgTypeOK
  <2>2. CASE Counted
    <3>1. known' = TRUE /\ nTuples' = IF known THEN nTuples ELSE nTuples + CountTuples
      BY <2>2 DEF Counted
    <3>2. nTuples \in Nat /\ known \in BOOLEAN
      BY DEF MapInv, CfgTypeOK
    <3>3. \A path \in DOMAIN entry_map : Len(entry_map[path]) \in Nat
      <4>1. \A path \in DOMAIN entry_map : entry_map[path] \in Seq(Values(serial_no_seq))
        BY DEF MapInv, CfgTypeOK, Values
      <4>2. QED
        BY <4>1, LenProperties
    <3>4. CountTuples = NumTuples(entry_map)
      BY DEF CountTuples, NumTuples
    <3>5. CountTuples \in Nat
      BY <3>3, <3>4, NumTuplesBounds DEF MapInv
    <3>6. QED
      BY <3>1, <3>2, <3>5
  <2>3. QED
    BY <2>1, <2>2
<1>3. QED
  BY <1>1, <1>2 DEF MapInv, CfgTypeOK, readVars

\* To read a string that is no VALUE ends the run.
LEMMA CrashInv ==
  ASSUME StartInv, pc = "configure", NEW paths, Crashes(paths),
         UNCHANGED <<fhs, readVars, doc, argv, optind, flags, dir, deviations, found>>
  PROVE  StartInv'
<1>1. pc' = "crashed" /\ UNCHANGED <<todo, queryVars, confVars>>
  BY DEF Crashes, Goto
<1>2. MapInv'
  BY <1>1, MapSame DEF StartInv, cfgVars, readVars, queryVars
<1>3. MainTypeOK'
  BY <1>1 DEF StartInv, MainTypeOK, confVars
<1>4. QED
  BY <1>1, <1>2, <1>3 DEF StartInv

LEMMA WalkSectionInv ==
  ASSUME StartInv, NEW sym \in {"MAX_OFFENSES", "LOGTYPE"}, WalkSection(sym),
         UNCHANGED <<fhs, readVars, doc, argv, optind, flags, dir, deviations, found>>
  PROVE  StartInv'
<1> DEFINE p == Append(Item.path, sym)
           blocks == [i \in DOMAIN Strs(p) |-> Steps(sym, Append(Item.path, Strs(p)[i]))]
<1>1. pc = "configure" /\ todo # <<>>
  BY DEF WalkSection, Doing
<1>2. \/ Crashes({p})
      \/ /\ todo' = FlattenSeq(blocks) \o Tail(todo) /\ Looked({p})
         /\ UNCHANGED <<pc, known, nTuples, confVars>>
  BY DEF WalkSection
<1>3. ASSUME todo' = FlattenSeq(blocks) \o Tail(todo), Looked({p}),
             UNCHANGED <<pc, known, nTuples, confVars>>
      PROVE  StartInv'
  <2>1. Item.path \in Seq(STRING) /\ Tail(todo) \in Seq(Work)
    BY <1>1, ItemTyped DEF StartInv
  <2>2. /\ Len(Vals(p)) \in Nat /\ DOMAIN Strs(p) = 1 .. Len(Vals(p))
        /\ \A i \in DOMAIN Strs(p) : Strs(p)[i] \in STRING
    BY StrsTyped DEF StartInv, MapInv
  <2>3. ASSUME NEW i \in DOMAIN Strs(p)
        PROVE  Steps(sym, Append(Item.path, Strs(p)[i])) \in Seq(Work)
    <3>1. Append(Item.path, Strs(p)[i]) \in Seq(STRING)
      BY <2>1, <2>2, AppendProperties
    <3>2. QED
      BY <3>1, StepsTyped
  <2>4. blocks \in Seq(Seq(Work))
    <3>1. blocks \in [1 .. Len(Vals(p)) -> Seq(Work)]
      BY <2>2, <2>3
    <3>2. QED
      BY <2>2, <3>1, SeqDef
  <2> HIDE DEF blocks
  <2>5. todo' \in Seq(Work)
    <3>1. FlattenSeq(blocks) \in Seq(Work)
      BY <2>4, FlattenTyped
    <3>2. QED
      BY <1>3, <2>1, <3>1, ConcatProperties
  <2>6. MapInv'
    BY <1>3, QueryKept DEF StartInv
  <2>7. MainTypeOK'
    BY <1>3, <2>5 DEF StartInv, MainTypeOK, confVars
  <2>8. QED
    BY <1>1, <1>3, <2>6, <2>7 DEF StartInv
<1>4. QED
  BY <1>1, <1>2, <1>3, CrashInv

\* Only addresses there are get an allowance.
LEMMA ListedTyped ==
  ASSUME NEW val \in DOMAIN IpSpecs, NEW shifts
  PROVE  Listed(IpSpecs[val], shifts) \subseteq DOMAIN CountryOf
<1> DEFINE spec == IpSpecs[val]
<1>1. CASE IsAddress(spec)
  <2>1. spec.addr \in DOMAIN CountryOf
    BY <1>1, SpecsAssumption DEF IsAddress
  <2>2. QED
    BY <1>1, <2>1 DEF Listed
<1>2. CASE ~IsAddress(spec)
  <2>1. Len(Quads) \in Nat /\ \A i \in 1 .. Len(Quads) : Quads[i] \in DOMAIN CountryOf
    BY QuadsAssumption, LenProperties, ElementOfSeq
  <2> DEFINE top == Pow2[Width]
  <2>2. top \in Nat /\ \A i \in 1 .. top : Quads[i] \in DOMAIN CountryOf
    BY <2>1, QuadsAssumption
  <2>3. \A a \in Listed(spec, shifts) : \E z \in 0 .. top - 1 : a = Quads[z + 1]
    BY <1>2 DEF Listed
  <2> HIDE DEF top
  <2>4. \A z \in 0 .. top - 1 : Quads[z + 1] \in DOMAIN CountryOf
    BY <2>2
  <2>5. QED
    BY <2>3, <2>4
<1>3. QED
  BY <1>1, <1>2

LEMMA InitMaxOffInv ==
  ASSUME StartInv, InitMaxOff,
         UNCHANGED <<fhs, readVars, doc, argv, optind, flags, dir, deviations, found>>
  PROVE  StartInv'
<1> DEFINE ips == Append(Item.path, "IP")
           cntrys == Append(Item.path, "COUNTRY")
           vals == ToSet(Strs(ips))
           name == Last(Item.path)
           refused == name \notin DOMAIN Numbers \/ \E val \in vals : IsRefused(val)
           keys(shifts) == UNION {Listed(IpSpecs[val], shifts) : val \in vals}
<1>1. pc = "configure" /\ todo # <<>>
  BY DEF InitMaxOff, Doing
<1>2. \/ Crashes({ips, cntrys})
      \/ /\ IF refused
            THEN Goto("failed") /\ UNCHANGED <<todo, addr_map, cntry_map>>
            ELSE /\ \E shifts \in BOOLEAN : addr_map' = AddKeys(addr_map, keys(shifts), Numbers[name])
                 /\ cntry_map' = AddKeys(cntry_map, ToSet(Strs(cntrys)), Numbers[name])
                 /\ todo' = Tail(todo) /\ UNCHANGED pc
         /\ Counted /\ Looked({ips, cntrys})
         /\ UNCHANGED <<logType_map, cacheDirs>>
  BY DEF InitMaxOff
<1>3. ASSUME Counted, Looked({ips, cntrys}), UNCHANGED <<logType_map, cacheDirs>>, refused,
             Goto("failed"), UNCHANGED <<todo, addr_map, cntry_map>>
      PROVE  StartInv'
  <2>1. pc' = "failed"
    BY <1>3 DEF Goto
  <2>2. MapInv'
    BY <1>3, QueryKept DEF StartInv
  <2>3. MainTypeOK'
    BY <1>3, <2>1 DEF StartInv, MainTypeOK
  <2>4. QED
    BY <2>1, <2>2, <2>3 DEF StartInv
<1>4. ASSUME Counted, Looked({ips, cntrys}), UNCHANGED <<logType_map, cacheDirs>>, ~refused,
             NEW shifts \in BOOLEAN, addr_map' = AddKeys(addr_map, keys(shifts), Numbers[name]),
             cntry_map' = AddKeys(cntry_map, ToSet(Strs(cntrys)), Numbers[name]),
             todo' = Tail(todo), UNCHANGED pc
      PROVE  StartInv'
  <2>1. Numbers[name] \in Int
    BY <1>4, NumbersAssumption
  <2>2. keys(shifts) \subseteq DOMAIN CountryOf
    <3>1. \A val \in vals : val \in DOMAIN IpSpecs
      BY <1>4 DEF IsRefused
    <3>2. QED
      BY <3>1, ListedTyped
  <2> HIDE DEF keys, name, refused, ips, cntrys
  <2>3. \A a \in DOMAIN addr_map' : a \in DOMAIN CountryOf /\ addr_map'[a] \in Int
    <3>1. /\ DOMAIN addr_map' = DOMAIN addr_map \cup keys(shifts)
          /\ \A a \in DOMAIN addr_map' :
               addr_map'[a] = IF a \in DOMAIN addr_map THEN addr_map[a] ELSE Numbers[name]
      BY <1>4, Zenon DEF AddKeys
    <3>2. \A a \in DOMAIN addr_map : a \in DOMAIN CountryOf /\ addr_map[a] \in Int
      BY DEF StartInv, MainTypeOK
    <3>3. QED
      BY <2>1, <2>2, <3>1, <3>2
  <2>4. \A c \in DOMAIN cntry_map' : cntry_map'[c] \in Int
    <3>1. \A c \in DOMAIN cntry_map' :
            cntry_map'[c] = IF c \in DOMAIN cntry_map THEN cntry_map[c] ELSE Numbers[name]
      BY <1>4, Zenon DEF AddKeys
    <3>2. \A c \in DOMAIN cntry_map : cntry_map[c] \in Int
      BY DEF StartInv, MainTypeOK
    <3>3. QED
      BY <2>1, <3>1, <3>2
  <2>5. todo' \in Seq(Work)
    BY <1>1, <1>4, ItemTyped DEF StartInv
  <2>6. MapInv'
    BY <1>4, QueryKept DEF StartInv
  <2>7. MainTypeOK'
    BY <1>4, <2>3, <2>4, <2>5 DEF StartInv, MainTypeOK
  <2>8. QED
    BY <1>1, <1>4, <2>6, <2>7 DEF StartInv
<1> HIDE DEF refused, keys
<1>5. QED
  BY <1>1, <1>2, <1>3, <1>4, CrashInv

LEMMA InitLogTypeInv ==
  ASSUME StartInv, InitLogType \/ LogTypeUnopened,
         UNCHANGED <<fhs, readVars, doc, argv, optind, flags, dir, deviations, found>>
  PROVE  StartInv'
<1> DEFINE paths == LogTypeSymbols(Item.path)
           t == LogTypeOf(Item.path)
<1>1. pc = "configure" /\ todo # <<>>
  BY DEF InitLogType, LogTypeUnopened, Doing
<1>2. \/ Crashes(paths)
      \/ /\ \/ Goto("failed") /\ UNCHANGED todo
            \/ todo' = Tail(todo) /\ UNCHANGED pc
         /\ \/ UNCHANGED cacheDirs
            \/ cacheDirs' = [cacheDirs EXCEPT ![dir] = @ \cup {t}]
         /\ Counted /\ Looked(paths)
         /\ UNCHANGED <<addr_map, cntry_map>>
  BY DEF InitLogType, LogTypeUnopened
<1> HIDE DEF paths, t
<1>3. ASSUME Counted, Looked(paths), UNCHANGED <<addr_map, cntry_map>>,
             \/ Goto("failed") /\ UNCHANGED todo
             \/ todo' = Tail(todo) /\ UNCHANGED pc,
             \/ UNCHANGED cacheDirs
             \/ cacheDirs' = [cacheDirs EXCEPT ![dir] = @ \cup {t}]
      PROVE  StartInv'
  <2>1. pc' \in {"failed", "configure"}
    BY <1>1, <1>3 DEF Goto
  <2>2. todo' \in Seq(Work)
    BY <1>1, <1>3, ItemTyped DEF StartInv, MainTypeOK
  <2>3. DOMAIN cacheDirs' = CacheKinds
    BY <1>3 DEF StartInv, MainTypeOK
  <2>4. MapInv'
    BY <1>3, QueryKept DEF StartInv
  <2>5. MainTypeOK'
    BY <1>3, <2>1, <2>2, <2>3 DEF StartInv, MainTypeOK
  <2>6. QED
    BY <2>1, <2>4, <2>5 DEF StartInv
<1>4. QED
  BY <1>1, <1>2, <1>3, CrashInv

LEMMA ConfigureInv == StartInv /\ Configure => StartInv'
BY WalkSectionInv, InitMaxOffInv, InitLogTypeInv DEF Configure

LEMMA ConfiguredInv == StartInv /\ Configured => StartInv'
<1> SUFFICES ASSUME StartInv, Configured PROVE StartInv'
  OBVIOUS
<1>1. /\ UNCHANGED <<cfgVars, argv, optind, dir, deviations, todo, addr_map, cntry_map>>
      /\ pc' \in {"report", "block", "stopped"}
      /\ cacheDirs' = cacheDirs \/ cacheDirs' = [cacheDirs EXCEPT ![dir] = @ \cap ToSet(logType_map)]
  BY DEF Configured, Goto
<1>2. MapInv'
  BY <1>1, MapSame DEF StartInv
<1>3. DOMAIN cacheDirs' = CacheKinds
  BY <1>1 DEF StartInv, MainTypeOK
<1>4. MainTypeOK'
  BY <1>1, <1>3 DEF StartInv, MainTypeOK
<1>5. QED
  BY <1>1, <1>2, <1>4 DEF StartInv

LEMMA StartNext == StartInv /\ [Next]_vars => StartInv'
<1> SUFFICES ASSUME StartInv, [Next]_vars PROVE StartInv'
  OBVIOUS
<1>1. CASE UNCHANGED vars
  <2>1. UNCHANGED <<cfgVars, pc, argv, optind, flags, dir, deviations, todo, confVars>>
    BY <1>1 DEF vars, mainVars
  <2>2. MapInv'
    BY <2>1, MapSame DEF StartInv
  <2>3. MainTypeOK'
    BY <2>1 DEF StartInv, MainTypeOK, confVars
  <2>4. QED
    BY <2>1, <2>2, <2>3 DEF StartInv, cfgVars
<1>2. CASE Next
  BY <1>2, GetOptionInv, OptionsDoneInv, ReadLineInv, SkipLineInv, FileEndsInv, ConfigureInv,
     ConfiguredInv DEF Next
<1>3. QED
  BY <1>1, <1>2

\* What the types and the counts rest on: a file is open while the options are
\* taken and the file is read, and there are finitely many symbols.
THEOREM StartInvariant == Spec => []StartInv
BY StartInit, StartNext, PTL DEF Spec

\* Each variable of the map and of main() keeps its type: of Startup, TypeOK.
THEOREM TypeCorrect == Spec => []TypeOK
<1>1. StartInv => TypeOK
  BY DEF StartInv, MapInv, MainTypeOK, TypeOK, Work
<1>2. QED
  BY <1>1, StartInvariant, PTL

---------------------------------------------------------------------------
(* What the options make of the rest of the run.                           *)

Given(opt) == \E i \in DOMAIN argv : argv[i] = opt

\* The options that have been looked at have had their effect.
OptionsInv ==
  /\ \A i \in 1 .. optind :
       /\ OnlyReports(argv[i]) => flags \cap {"DONT_IPTABLE", "errflg"} # {}
       /\ argv[i] = "--print-lfn" => "PRINT_LOGFILE_NAMES" \in flags
       /\ argv[i] = "-t" => dir = "test"
  /\ "FLUSH_CACHE" \in flags => Given("-F")
  /\ pc \in {"parse", "configure", "report", "block"} =>
       optind = Len(argv) /\ "errflg" \notin flags
  /\ pc = "block" => "DONT_IPTABLE" \notin flags

\* What becomes of the cache directories that were there, if they are not flushed.
CacheInv ==
  ~Given("-F") =>
    /\ pc \in {"options", "parse"} => cacheDirs = found
    /\ cacheDirs = found \/ optind = Len(argv)
    /\ "PRINT_LOGFILE_NAMES" \in flags => cacheDirs = found
    /\ \A k \in CacheKinds \ {dir} : cacheDirs[k] = found[k]
    /\ pc = "configure" => found[dir] \subseteq cacheDirs[dir]
    /\ pc \in {"report", "block"} => found[dir] \cap ToSet(logType_map) \subseteq cacheDirs[dir]
ActInv == StartInv /\ OptionsInv /\ CacheInv

LEMMA ActInit == Init => ActInv
<1> SUFFICES ASSUME Init PROVE ActInv
  OBVIOUS
<1>1. StartInv
  BY StartInit
<1>2. pc = "options" /\ optind = 0 /\ flags = {} /\ cacheDirs = found
  BY DEF Init
<1>3. OptionsInv
  BY <1>2 DEF OptionsInv
<1>4. CacheInv
  BY <1>2 DEF CacheInv
<1>5. QED
  BY <1>1, <1>3, <1>4 DEF ActInv

LEMMA GetOptionAct == ActInv /\ GetOption => OptionsInv' /\ CacheInv'
<1> SUFFICES ASSUME ActInv, GetOption PROVE OptionsInv' /\ CacheInv'
  OBVIOUS
<1> DEFINE opt == argv[optind']
<1>1. /\ UNCHANGED <<argv, confVars, found>> /\ pc = "options"
      /\ pc' \in {"options", "stopped"}
      /\ optind' = optind + 1 /\ optind < Len(argv)
      /\ flags' = flags \cup (IF IsWrong(opt) THEN {"errflg"} ELSE Sets(opt))
      /\ dir' = IF opt = "-t" THEN "test" ELSE dir
  BY DEF GetOption, Goto
<1>2. Len(argv) \in Nat /\ DOMAIN argv = 1 .. Len(argv) /\ optind \in 0 .. Len(argv)
  BY LenProperties DEF ActInv, StartInv, MainTypeOK
<1>3. optind' \in DOMAIN argv /\ \A i \in 1 .. optind' : i = optind' \/ i \in 1 .. optind
  BY <1>1, <1>2
<1>4. /\ OnlyReports(opt) => flags' \cap {"DONT_IPTABLE", "errflg"} # {}
      /\ opt = "--print-lfn" => "PRINT_LOGFILE_NAMES" \in flags'
      /\ opt = "-t" => dir' = "test"
      /\ "FLUSH_CACHE" \in flags' => "FLUSH_CACHE" \in flags \/ opt = "-F"
  <2>1. CASE IsWrong(opt)
    BY <1>1, <2>1 DEF IsWrong
  <2>2. CASE ~IsWrong(opt)
    <3>1. flags' = flags \cup Sets(opt)
      BY <1>1, <2>2
    <3>2. /\ OnlyReports(opt) => "DONT_IPTABLE" \in Sets(opt)
          /\ opt = "--print-lfn" => "PRINT_LOGFILE_NAMES" \in Sets(opt)
          /\ "FLUSH_CACHE" \in Sets(opt) => opt = "-F"
      BY DEF Sets
    <3>3. QED
      BY <1>1, <3>1, <3>2
  <2>3. QED
    BY <2>1, <2>2
<1>5. OptionsInv'
  <2>1. ASSUME NEW i \in 1 .. optind'
        PROVE  /\ OnlyReports(argv[i]) => flags' \cap {"DONT_IPTABLE", "errflg"} # {}
               /\ argv[i] = "--print-lfn" => "PRINT_LOGFILE_NAMES" \in flags'
               /\ argv[i] = "-t" => dir' = "test"
    <3>1. CASE i = optind'
      BY <1>4, <3>1
    <3>2. CASE i \in 1 .. optind
      BY <1>1, <3>2 DEF ActInv, OptionsInv
    <3>3. QED
      BY <1>3, <3>1, <3>2
  <2>2. "FLUSH_CACHE" \in flags' => Given("-F")'
    BY <1>1, <1>3, <1>4 DEF ActInv, OptionsInv, Given
  <2>3. QED
    BY <1>1, <2>1, <2>2 DEF OptionsInv, OnlyReports
<1>6. CacheInv'
  BY <1>1 DEF ActInv, CacheInv, Given, confVars
<1>7. QED
  BY <1>5, <1>6

\* Later the options, and what they did, stay as they are.
LEMMA OptionsStay ==
  ASSUME OptionsInv, UNCHANGED <<argv, optind, flags, dir>>,
         pc' \in {"parse", "configure", "report", "block"} => optind = Len(argv) /\ "errflg" \notin flags,
         pc' = "block" => "DONT_IPTABLE" \notin flags
  PROVE  OptionsInv'
BY DEF OptionsInv, Given

\* As long as the cache is left alone it is as it was.
LEMMA CacheStays ==
  ASSUME OptionsInv, CacheInv, UNCHANGED <<argv, optind, flags, dir, cacheDirs, found>>,
         pc' \in {"options", "parse"} => pc \in {"options", "parse"},
         pc' = "configure" => pc \in {"parse", "configure"},
         pc' \notin {"report", "block"}
  PROVE  CacheInv'
BY DEF CacheInv, Given

LEMMA OptionsDoneAct == ActInv /\ OptionsDone => OptionsInv' /\ CacheInv'
<1> SUFFICES ASSUME ActInv, OptionsDone PROVE OptionsInv' /\ CacheInv'
  OBVIOUS
<1>1. /\ UNCHANGED <<argv, optind, flags, dir, cacheDirs, found>>
      /\ pc = "options" /\ optind = Len(argv)
      /\ pc' = IF "errflg" \in flags THEN "failed" ELSE "parse"
  BY DEF OptionsDone, Goto, confVars
<1>2. QED
  BY <1>1, OptionsStay, CacheStays DEF ActInv

LEMMA FileAct == ActInv /\ (ReadLine \/ SkipLine) => OptionsInv' /\ CacheInv'
<1> SUFFICES ASSUME ActInv, ReadLine \/ SkipLine PROVE OptionsInv' /\ CacheInv'
  OBVIOUS
<1>1. /\ UNCHANGED <<argv, optind, flags, dir, cacheDirs, found>>
      /\ pc = "parse" /\ pc' \in {"parse", "failed"}
  BY DEF ReadLine, SkipLine, Goto, confVars
<1>2. QED
  BY <1>1, OptionsStay, CacheStays DEF ActInv, OptionsInv

LEMMA FileEndsAct == ActInv /\ FileEnds => OptionsInv' /\ CacheInv'
<1> SUFFICES ASSUME ActInv, FileEnds PROVE OptionsInv' /\ CacheInv'
  OBVIOUS
<1>1. /\ UNCHANGED <<argv, optind, flags, dir, found>>
      /\ pc = "parse" /\ pc' \in {"failed", "configure", "parse"}
      /\ "FLUSH_CACHE" \notin flags => UNCHANGED cacheDirs
  BY DEF FileEnds, Goto
<1>2. OptionsInv'
  BY <1>1, OptionsStay DEF ActInv, OptionsInv
<1>3. CacheInv'
  <2>1. CASE "FLUSH_CACHE" \in flags
    BY <1>1, <2>1 DEF ActInv, OptionsInv, CacheInv, Given
  <2>2. CASE "FLUSH_CACHE" \notin flags
    BY <1>1, <2>2, CacheStays DEF ActInv
  <2>3. QED
    BY <2>1, <2>2
<1>4. QED
  BY <1>2, <1>3

LEMMA ConfigureAct == ActInv /\ Configure => OptionsInv' /\ CacheInv'
<1> SUFFICES ASSUME ActInv, Configure PROVE OptionsInv' /\ CacheInv'
  OBVIOUS
<1>1. /\ UNCHANGED <<argv, optind, flags, dir, found>> /\ pc = "configure"
      /\ pc' \in {"configure", "failed", "crashed"}
  BY DEF Configure, WalkSection, InitMaxOff, InitLogType, LogTypeUnopened, Doing, Crashes, Goto
<1>2. OptionsInv'
  BY <1>1, OptionsStay DEF ActInv, OptionsInv
<1>3. \/ UNCHANGED cacheDirs
      \/ /\ "PRINT_LOGFILE_NAMES" \notin flags /\ pc' \in {"configure", "failed"}
         /\ \E t : cacheDirs' = [cacheDirs EXCEPT ![dir] = @ \cup {t}]
  BY <1>1 DEF Configure, WalkSection, InitMaxOff, InitLogType, LogTypeUnopened, Crashes, Goto, confVars
<1>4. CASE UNCHANGED cacheDirs
  BY <1>1, <1>2, <1>4, CacheStays DEF ActInv
<1>5. ASSUME "PRINT_LOGFILE_NAMES" \notin flags, pc' \in {"configure", "failed"},
             NEW t, cacheDirs' = [cacheDirs EXCEPT ![dir] = @ \cup {t}]
      PROVE  CacheInv'
  <2>1. DOMAIN cacheDirs = CacheKinds /\ dir \in CacheKinds /\ optind = Len(argv)
    BY <1>1 DEF ActInv, StartInv, MainTypeOK, OptionsInv
  <2>2. /\ \A k \in CacheKinds \ {dir} : cacheDirs'[k] = cacheDirs[k]
        /\ cacheDirs'[dir] = cacheDirs[dir] \cup {t}
    BY <1>5, <2>1
  <2>3. QED
    BY <1>1, <1>5, <2>1, <2>2 DEF ActInv, CacheInv, Given
<1>6. QED
  BY <1>2, <1>3, <1>4, <1>5

LEMMA ConfiguredAct == ActInv /\ Configured => OptionsInv' /\ CacheInv'
<1> SUFFICES ASSUME ActInv, Configured PROVE OptionsInv' /\ CacheInv'
  OBVIOUS
<1>1. /\ UNCHANGED <<argv, optind, flags, dir, found, logType_map>> /\ pc = "configure"
  BY DEF Configured
<1>2. CASE MayPrune
  <2>1. /\ cacheDirs' = [cacheDirs EXCEPT ![dir] = @ \cap ToSet(logType_map)]
        /\ pc' = IF "DONT_IPTABLE" \in flags THEN "report" ELSE "block"
    BY <1>2 DEF Configured, Goto
  <2>2. OptionsInv'
    BY <1>1, <2>1, OptionsStay DEF ActInv, OptionsInv
  <2>3. DOMAIN cacheDirs = CacheKinds /\ dir \in CacheKinds /\ optind = Len(argv)
    BY <1>1 DEF ActInv, StartInv, MainTypeOK, OptionsInv
  <2>4. /\ \A k \in CacheKinds \ {dir} : cacheDirs'[k] = cacheDirs[k]
        /\ cacheDirs'[dir] = cacheDirs[dir] \cap ToSet(logType_map)
    BY <2>1, <2>3
  <2>5. CacheInv'
    BY <1>1, <1>2, <2>1, <2>3, <2>4 DEF ActInv, CacheInv, Given, MayPrune
  <2>6. QED
    BY <2>2, <2>5
<1>3. CASE ~MayPrune
  <2>1. pc' = "stopped" /\ UNCHANGED cacheDirs
    BY <1>3 DEF Configured, Goto
  <2>2. QED
    BY <1>1, <2>1, OptionsStay, CacheStays DEF ActInv, OptionsInv
<1>4. QED
  BY <1>2, <1>3

LEMMA ActNext == ActInv /\ [Next]_vars => ActInv'
<1> SUFFICES ASSUME ActInv, [Next]_vars PROVE ActInv'
  OBVIOUS
<1>1. StartInv'
  BY StartNext DEF ActInv
<1>2. OptionsInv' /\ CacheInv'
  <2>1. CASE UNCHANGED vars
    <3>1. UNCHANGED <<pc, argv, optind, flags, dir, cacheDirs, logType_map, found>>
      BY <2>1 DEF vars, mainVars, confVars
    <3>2. QED
      BY <3>1 DEF ActInv, OptionsInv, CacheInv, Given
  <2>2. CASE Next
    BY <2>2, GetOptionAct, OptionsDoneAct, FileAct, FileEndsAct, ConfigureAct, ConfiguredAct
       DEF Next
  <2>3. QED
    BY <2>1, <2>2
<1>3. QED
  BY <1>1, <1>2 DEF ActInv

\* What the next rests on: the options looked at have had their effect, and a cache
\* directory was only removed after the last of them.
THEOREM ActInvariant == Spec => []ActInv
BY ActInit, ActNext, PTL DEF Spec

LEMMA ActInvImplies == ActInv => OnlyProductionActs
<1> SUFFICES ASSUME ActInv PROVE OnlyProductionActs
  OBVIOUS
<1>1. DOMAIN argv = 1 .. Len(argv)
  BY LenProperties DEF ActInv, StartInv
<1>2. pc = "block" => ~ \E i \in DOMAIN argv : argv[i] \notin {"-F", "-v", "-t:"}
  BY <1>1 DEF ActInv, OptionsInv, OnlyReports
<1>3. ASSUME ~Given("-F")
      PROVE  /\ Done => found[dir] \cap ToSet(logType_map) \subseteq cacheDirs[dir]
             /\ Given("-t") => cacheDirs["production"] = found["production"]
             /\ Given("--print-lfn") => cacheDirs = found
  <2>1. CASE cacheDirs = found
    BY <2>1
  <2>2. CASE cacheDirs # found
    <3>1. optind = Len(argv)
      BY <1>3, <2>2 DEF ActInv, CacheInv
    <3>2. ~Given("--print-lfn")
      BY <1>1, <1>3, <2>2, <3>1 DEF ActInv, OptionsInv, CacheInv, Given
    <3>3. Given("-t") => "production" \in CacheKinds \ {dir}
      BY <1>1, <3>1 DEF ActInv, OptionsInv, Given, CacheKinds
    <3>4. QED
      BY <1>3, <3>2, <3>3 DEF ActInv, CacheInv, Done
  <2>3. QED
    BY <2>1, <2>2
<1>4. QED
  BY <1>2, <1>3 DEF OnlyProductionActs, Given

\* For any command line: a run that reports changes no rules, and without -F the
\* cache loses nothing a log type needs, a test leaves that of production alone and
\* to print names leaves both.
THEOREM OnlyProductionCorrect == Spec => []OnlyProductionActs
BY ActInvariant, ActInvImplies, PTL

---------------------------------------------------------------------------
(* The blocks configure() comes to.                                        *)

SectionWords == {"MAX_OFFENSES", "LOGTYPE"}
Names(B, sym) == ToSet(Strs(Append(B, sym)))

\* A path put together is taken apart again.
LEMMA AppendParts ==
  ASSUME NEW B \in Seq(STRING), NEW w
  PROVE  /\ Front(Append(B, w)) = B /\ Last(Append(B, w)) = w
         /\ Append(B, w) # <<>> /\ Len(Append(B, w)) = Len(B) + 1 /\ Len(B) \in Nat
         /\ \A i \in 1 .. Len(B) : Append(B, w)[i] = B[i]
<1> DEFINE S == STRING \cup {w}
           n == Len(B)
           A == Append(B, w)
<1>1. B \in Seq(S) /\ w \in S /\ n \in Nat
  BY SeqMonotonic, LenProperties
<1> HIDE DEF S
<1>2. /\ A \in Seq(S) /\ Len(A) = n + 1 /\ A[n + 1] = w
      /\ \A i \in 1 .. n : A[i] = B[i]
  BY <1>1, AppendProperties
<1>3. A # <<>>
  BY <1>1, <1>2, EmptySeq
<1>4. Last(A) = w
  BY <1>2 DEF Last
<1>5. Front(A) = SubSeq(A, 1, n)
  <2>1. Len(A) - 1 = n
    BY <1>1, <1>2
  <2>2. QED
    BY <2>1 DEF Front
<1> HIDE DEF A, n
<1>6. \A i \in 1 .. n : A[i] \in S
  BY <1>1, <1>2, ElementOfSeq
<1>7. /\ SubSeq(A, 1, n) \in Seq(S) /\ Len(SubSeq(A, 1, n)) = n
      /\ \A i \in 1 .. n : SubSeq(A, 1, n)[i] = A[i]
  BY <1>1, <1>6, SubSeqProperties
<1>8. SubSeq(A, 1, n) = B
  BY <1>1, <1>2, <1>7, SeqEqual DEF n
<1>9. QED
  BY <1>1, <1>2, <1>3, <1>4, <1>5, <1>8 DEF A, n

LEMMA PathParts ==
  ASSUME NEW p \in Seq(STRING), p # <<>>
  PROVE  Front(p) \in Seq(STRING) /\ Last(p) \in STRING /\ p = Append(Front(p), Last(p))
<1> DEFINE n == Len(p) - 1
<1>1. /\ n \in Nat /\ Len(p) = n + 1 /\ \A i \in 1 .. n + 1 : p[i] \in STRING
  BY LenProperties, ElementOfSeq, EmptySeq
<1>2. Front(p) = SubSeq(p, 1, n) /\ Last(p) = p[n + 1]
  BY <1>1 DEF Front, Last
<1> HIDE DEF n
<1>3. Last(p) \in STRING
  BY <1>1, <1>2
<1>4. /\ Front(p) \in Seq(STRING) /\ Len(Front(p)) = n
      /\ \A i \in 1 .. n : Front(p)[i] = p[i]
  BY <1>1, <1>2, SubSeqProperties
<1>5. /\ Append(Front(p), Last(p)) \in Seq(STRING) /\ Len(Append(Front(p), Last(p))) = n + 1
      /\ \A i \in 1 .. n : Append(Front(p), Last(p))[i] = Front(p)[i]
      /\ Append(Front(p), Last(p))[n + 1] = Last(p)
  BY <1>3, <1>4, AppendProperties
<1>6. \A i \in 1 .. n + 1 : Append(Front(p), Last(p))[i] = p[i]
  <2>1. \A i \in 1 .. n + 1 : i \in 1 .. n \/ i = n + 1
    BY <1>1
  <2>2. QED
    BY <1>2, <1>4, <1>5, <2>1
<1>7. QED
  BY <1>1, <1>3, <1>4, <1>5, <1>6, SeqEqual

\* Products: what Visits() is the result of.
IsProduct(g, n, w) == g = [k \in 0 .. n |-> IF k = 0 THEN 1 ELSE g[k - 1] * w[k]]

LEMMA ProductExists ==
  ASSUME NEW w, NEW n \in Nat
  PROVE  \E g : IsProduct(g, n, w)
<1> DEFINE bad == {k \in Nat : ~ \E g : IsProduct(g, k, w)}
<1> SUFFICES ASSUME bad # {} PROVE FALSE
  OBVIOUS
<1>1. PICK k \in bad : \A j \in bad : k <= j
  <2>1. bad \in SUBSET Nat
    OBVIOUS
  <2> HIDE DEF bad
  <2>2. QED
    BY <2>1, Least
<1>2. k \in Nat
  OBVIOUS
<1>3. CASE k = 0
  <2>1. \A i \in 0 .. 0 : i = 0
    OBVIOUS
  <2>2. IsProduct([i \in 0 .. 0 |-> 1], 0, w)
    BY <2>1 DEF IsProduct
  <2>3. QED
    BY <1>1, <1>3, <2>2
<1>4. CASE k # 0
  <2>1. k - 1 \in Nat /\ k - 1 \notin bad
    BY <1>1, <1>2, <1>4
  <2>2. PICK g : IsProduct(g, k - 1, w)
    BY <2>1
  <2> DEFINE h == [i \in 0 .. k |-> IF i = 0 THEN 1 ELSE g[i - 1] * w[i]]
  <2>3. \A i \in 0 .. k - 1 : g[i] = IF i = 0 THEN 1 ELSE g[i - 1] * w[i]
    BY <2>2 DEF IsProduct
  <2>4. \A i \in 0 .. k : i # 0 => i - 1 \in 0 .. k - 1 /\ i - 1 \in 0 .. k
    BY <1>2
  <2>5. \A i \in 0 .. k : i # 0 => h[i - 1] = g[i - 1]
    BY <2>3, <2>4
  <2>6. h = [i \in 0 .. k |-> IF i = 0 THEN 1 ELSE h[i - 1] * w[i]]
    BY <2>5
  <2> HIDE DEF h
  <2>7. IsProduct(h, k, w)
    BY <2>6 DEF IsProduct
  <2>8. QED
    BY <1>1, <2>7
<1>5. QED
  BY <1>3, <1>4

\* Products of the same factors are the same, as far as both go.
LEMMA ProductUnique ==
  ASSUME NEW m \in Nat, NEW n \in Nat, m <= n, NEW v, NEW w, NEW g, NEW h,
         IsProduct(g, m, v), IsProduct(h, n, w), \A k \in 1 .. m : v[k] = w[k]
  PROVE  \A k \in 0 .. m : g[k] = h[k]
<1> DEFINE bad == {k \in 0 .. m : g[k] # h[k]}
<1> SUFFICES ASSUME bad # {} PROVE FALSE
  OBVIOUS
<1>1. PICK k \in bad : \A j \in bad : k <= j
  <2>1. bad \in SUBSET Nat
    OBVIOUS
  <2> HIDE DEF bad
  <2>2. QED
    BY <2>1, Least
<1>2. k \in 0 .. m /\ k \in 0 .. n /\ g[k] # h[k]
  OBVIOUS
<1>3. /\ g[k] = IF k = 0 THEN 1 ELSE g[k - 1] * v[k]
      /\ h[k] = IF k = 0 THEN 1 ELSE h[k - 1] * w[k]
  BY <1>2 DEF IsProduct
<1>4. k # 0
  BY <1>2, <1>3
<1>5. k - 1 \in 0 .. m /\ k - 1 \notin bad /\ k \in 1 .. m
  BY <1>1, <1>2, <1>4
<1>6. g[k - 1] = h[k - 1] /\ v[k] = w[k]
  BY <1>5
<1>7. QED
  BY <1>2, <1>3, <1>4, <1>6

LEMMA ProductNat ==
  ASSUME NEW n \in Nat, NEW w, \A k \in 1 .. n : w[k] \in Nat, NEW g, IsProduct(g, n, w)
  PROVE  \A k \in 0 .. n : g[k] \in Nat
<1> DEFINE bad == {k \in 0 .. n : g[k] \notin Nat}
<1> SUFFICES ASSUME bad # {} PROVE FALSE
  OBVIOUS
<1>1. PICK k \in bad : \A j \in bad : k <= j
  <2>1. bad \in SUBSET Nat
    OBVIOUS
  <2> HIDE DEF bad
  <2>2. QED
    BY <2>1, Least
<1>2. k \in 0 .. n /\ g[k] \notin Nat
  OBVIOUS
<1>3. g[k] = IF k = 0 THEN 1 ELSE g[k - 1] * w[k]
  BY <1>2 DEF IsProduct
<1>4. k # 0
  BY <1>2, <1>3
<1>5. k - 1 \in 0 .. n /\ k - 1 \notin bad /\ k \in 1 .. n
  BY <1>1, <1>2, <1>4
<1>6. g[k - 1] \in Nat /\ w[k] \in Nat
  BY <1>5
<1>7. g[k - 1] * w[k] \in Nat
  BY <1>6
<1>8. QED
  BY <1>2, <1>3, <1>4, <1>7

\* A block is named as often as its name is among the values of the symbol.
LEMMA NamedByIs ==
  ASSUME CfgTypeOK, NEW B \in Seq(STRING), NEW v, NEW sym
  PROVE  /\ NamedBy(Append(B, v), sym) \in Nat
         /\ NamedBy(Append(B, v), sym) > 0 <=> v \in Names(B, sym)
<1> DEFINE vals == Strs(Append(B, sym))
           named == {i \in DOMAIN vals : vals[i] = v}
<1>1. NamedBy(Append(B, v), sym) = Cardinality(named)
  BY AppendParts DEF NamedBy
<1>2. IsFiniteSet(named)
  <2>1. DOMAIN vals = 1 .. Len(Vals(Append(B, sym))) /\ Len(Vals(Append(B, sym))) \in Nat
    BY StrsTyped
  <2>2. IsFiniteSet(DOMAIN vals)
    BY <2>1, FS_Interval
  <2> HIDE DEF vals
  <2>3. QED
    BY <2>2, FS_Subset
<1>3. Cardinality(named) \in Nat /\ (Cardinality(named) = 0 <=> named = {})
  BY <1>2, FS_CardinalityType, FS_EmptySet
<1>4. named # {} <=> v \in Names(B, sym)
  BY DEF Names, ToSet
<1> HIDE DEF named, vals
<1>5. QED
  BY <1>1, <1>3, <1>4

\* Of each block on the way to a path, how many lines name it.
Factors(path) ==
  [n \in 1 .. Len(path) |-> NamedBy(SubSeq(path, 1, n), "MAX_OFFENSES")
                              + NamedBy(SubSeq(path, 1, n), "LOGTYPE")]

LEMMA VisitsIs ==
  ASSUME NEW path, Len(path) \in Nat
  PROVE  \E g : IsProduct(g, Len(path), Factors(path)) /\ Visits(path) = g[Len(path)]
<1> DEFINE Is(g) == g = [n \in 0 .. Len(path) |->
                           IF n = 0 THEN 1
                           ELSE g[n - 1] * (NamedBy(SubSeq(path, 1, n), "MAX_OFFENSES")
                                              + NamedBy(SubSeq(path, 1, n), "LOGTYPE"))]
<1>1. Visits(path) = (CHOOSE g : Is(g))[Len(path)]
  BY Zenon DEF Visits
<1>2. ASSUME NEW g
      PROVE  Is(g) <=> IsProduct(g, Len(path), Factors(path))
  <2>1. \A n \in 0 .. Len(path) : n # 0 => n \in 1 .. Len(path)
    OBVIOUS
  <2>2. \A n \in 1 .. Len(path) :
          Factors(path)[n] = NamedBy(SubSeq(path, 1, n), "MAX_OFFENSES")
                               + NamedBy(SubSeq(path, 1, n), "LOGTYPE")
    BY DEF Factors
  <2>3. QED
    BY <2>1, <2>2 DEF IsProduct
<1> HIDE DEF Is
<1>3. \E g : Is(g)
  BY <1>2, ProductExists
<1>4. Is(CHOOSE g : Is(g))
  BY <1>3, Zenon
<1>5. QED
  BY <1>1, <1>2, <1>4

\* The map is walked from the top, and from each block to the blocks its values name.
LEMMA VisitsTop == Visits(<<>>) = 1
<1>1. Len(<<>>) = 0
  BY EmptySeq
<1>2. PICK g : IsProduct(g, 0, Factors(<<>>)) /\ Visits(<<>>) = g[0]
  BY <1>1, VisitsIs
<1>3. QED
  BY <1>2 DEF IsProduct

LEMMA FactorsNat ==
  ASSUME CfgTypeOK, NEW B \in Seq(STRING)
  PROVE  Len(B) \in Nat /\ \A k \in 1 .. Len(B) : Factors(B)[k] \in Nat
<1>1. Len(B) \in Nat /\ \A i \in 1 .. Len(B) : B[i] \in STRING
  BY LenProperties, ElementOfSeq
<1>2. ASSUME NEW k \in 1 .. Len(B)
      PROVE  Factors(B)[k] \in Nat
  <2> DEFINE p == SubSeq(B, 1, k)
  <2>1. p \in Seq(STRING) /\ Len(p) = k
    <3>1. \A i \in 1 .. k : B[i] \in STRING
      BY <1>1
    <3>2. QED
      BY <1>1, <3>1, SubSeqProperties
  <2> HIDE DEF p
  <2>2. p # <<>>
    BY <1>1, <2>1, EmptySeq
  <2>3. Front(p) \in Seq(STRING) /\ Last(p) \in STRING /\ p = Append(Front(p), Last(p))
    BY <2>1, <2>2, PathParts
  <2>4. \A sym : NamedBy(p, sym) \in Nat
    BY <2>3, NamedByIs
  <2>5. NamedBy(p, "MAX_OFFENSES") \in Nat /\ NamedBy(p, "LOGTYPE") \in Nat
    BY <2>4
  <2>6. Factors(B)[k] = NamedBy(p, "MAX_OFFENSES") + NamedBy(p, "LOGTYPE")
    BY DEF Factors, p
  <2>7. QED
    BY <2>5, <2>6
<1>3. QED
  BY <1>1, <1>2

LEMMA VisitsNat ==
  ASSUME CfgTypeOK, NEW B \in Seq(STRING)
  PROVE  Visits(B) \in Nat
<1>1. Len(B) \in Nat /\ \A k \in 1 .. Len(B) : Factors(B)[k] \in Nat
  BY FactorsNat
<1>2. PICK g : IsProduct(g, Len(B), Factors(B)) /\ Visits(B) = g[Len(B)]
  BY <1>1, VisitsIs
<1>3. \A k \in 0 .. Len(B) : g[k] \in Nat
  BY <1>1, <1>2, ProductNat
<1>4. QED
  BY <1>1, <1>2, <1>3

LEMMA VisitsTimes ==
  ASSUME CfgTypeOK, NEW B \in Seq(STRING), NEW v \in STRING
  PROVE  Visits(Append(B, v)) = Visits(B) * (NamedBy(Append(B, v), "MAX_OFFENSES")
                                               + NamedBy(Append(B, v), "LOGTYPE"))
<1> DEFINE A == Append(B, v)
           n == Len(B)
<1>1. /\ n \in Nat /\ A \in Seq(STRING) /\ Len(A) = n + 1
      /\ \A i \in 1 .. n : A[i] = B[i]
      /\ \A i \in 1 .. n + 1 : A[i] \in STRING
  <2>1. n \in Nat
    BY LenProperties
  <2>2. /\ Append(B, v) \in Seq(STRING) /\ Len(Append(B, v)) = Len(B) + 1
        /\ \A i \in 1 .. Len(B) : Append(B, v)[i] = B[i]
    <3>1. Append(B, v) \in Seq(STRING)
      BY AppendProperties
    <3>2. QED
      BY <3>1, AppendParts
  <2>3. \A i \in 1 .. n + 1 : A[i] \in STRING
    BY <2>2, ElementOfSeq
  <2>4. QED
    BY <2>1, <2>2, <2>3
<1>2. ASSUME NEW k \in 1 .. n
      PROVE  SubSeq(A, 1, k) = SubSeq(B, 1, k)
  <2> HIDE DEF A, n
  <2>1. k \in Nat /\ \A i \in 1 .. k : A[i] = B[i] /\ A[i] \in STRING /\ B[i] \in STRING
    BY <1>1
  <2>2. /\ SubSeq(A, 1, k) \in Seq(STRING) /\ Len(SubSeq(A, 1, k)) = k
        /\ \A i \in 1 .. k : SubSeq(A, 1, k)[i] = A[i]
    BY <2>1, SubSeqProperties
  <2>3. /\ SubSeq(B, 1, k) \in Seq(STRING) /\ Len(SubSeq(B, 1, k)) = k
        /\ \A i \in 1 .. k : SubSeq(B, 1, k)[i] = B[i]
    BY <2>1, SubSeqProperties
  <2>4. QED
    BY <2>1, <2>2, <2>3, SeqEqual
<1>3. SubSeq(A, 1, n + 1) = A
  <2> HIDE DEF A, n
  <2>1. /\ SubSeq(A, 1, n + 1) \in Seq(STRING) /\ Len(SubSeq(A, 1, n + 1)) = n + 1
        /\ \A i \in 1 .. n + 1 : SubSeq(A, 1, n + 1)[i] = A[i]
    BY <1>1, SubSeqProperties
  <2>2. QED
    BY <1>1, <2>1, SeqEqual
<1> DEFINE w == NamedBy(A, "MAX_OFFENSES") + NamedBy(A, "LOGTYPE")
<1>4. /\ \A k \in 1 .. n : Factors(A)[k] = Factors(B)[k]
      /\ Factors(A)[n + 1] = w
  <2> HIDE DEF A, n
  <2>1. /\ \A k \in 1 .. n + 1 : Factors(A)[k] = NamedBy(SubSeq(A, 1, k), "MAX_OFFENSES")
                                                   + NamedBy(SubSeq(A, 1, k), "LOGTYPE")
        /\ \A k \in 1 .. n : Factors(B)[k] = NamedBy(SubSeq(B, 1, k), "MAX_OFFENSES")
                                               + NamedBy(SubSeq(B, 1, k), "LOGTYPE")
    BY <1>1 DEF Factors, n
  <2>2. n + 1 \in 1 .. n + 1 /\ \A k \in 1 .. n : k \in 1 .. n + 1
    BY <1>1
  <2>3. ASSUME NEW k \in 1 .. n
        PROVE  Factors(A)[k] = Factors(B)[k]
    BY <1>2, <2>1, <2>2
  <2>4. QED
    BY <1>3, <2>1, <2>2, <2>3
<1> HIDE DEF w, A
<1>5. PICK g : IsProduct(g, n, Factors(B)) /\ Visits(B) = g[n]
  BY <1>1, VisitsIs
<1>6. PICK h : IsProduct(h, n + 1, Factors(A)) /\ Visits(A) = h[n + 1]
  BY <1>1, VisitsIs
<1>7. g[n] = h[n]
  <2>1. n + 1 \in Nat /\ n <= n + 1 /\ \A k \in 1 .. n : Factors(B)[k] = Factors(A)[k]
    BY <1>1, <1>4
  <2>2. \A k \in 0 .. n : g[k] = h[k]
    BY <1>1, <1>5, <1>6, <2>1, ProductUnique
  <2>3. QED
    BY <1>1, <2>2
<1>8. h[n + 1] = h[n] * w
  <2>1. n + 1 \in 0 .. n + 1 /\ n + 1 # 0 /\ (n + 1) - 1 = n
    BY <1>1
  <2>2. h[n + 1] = h[(n + 1) - 1] * Factors(A)[n + 1]
    BY <1>6, <2>1 DEF IsProduct
  <2>3. QED
    BY <1>4, <2>1, <2>2
<1>9. QED
  BY <1>5, <1>6, <1>7, <1>8 DEF w, A

\* Of two numbers and their sum, and their product.
LEMMA Positive ==
  ASSUME NEW a \in Nat, NEW b \in Nat, NEW c \in Nat
  PROVE  /\ a * b \in Nat /\ (a * b > 0 <=> a > 0 /\ b > 0)
         /\ b + c \in Nat /\ (b + c > 0 <=> b > 0 \/ c > 0)
<1>1. a * b \in Nat
  OBVIOUS
<1>2. a = 0 \/ b = 0 => a * b = 0
  OBVIOUS
<1>3. a > 0 /\ b > 0 => a * b > 0
  OBVIOUS
<1>4. QED
  BY <1>1, <1>2, <1>3

LEMMA VisitsBlock ==
  ASSUME CfgTypeOK, NEW B \in Seq(STRING), NEW v \in STRING
  PROVE  Visits(Append(B, v)) > 0 <=> Visits(B) > 0 /\ \E sym \in SectionWords : v \in Names(B, sym)
<1> DEFINE m == NamedBy(Append(B, v), "MAX_OFFENSES")
           l == NamedBy(Append(B, v), "LOGTYPE")
           u == Visits(B)
<1>1. /\ m \in Nat /\ (m > 0 <=> v \in Names(B, "MAX_OFFENSES"))
      /\ l \in Nat /\ (l > 0 <=> v \in Names(B, "LOGTYPE"))
  BY NamedByIs
<1>2. u \in Nat /\ Visits(Append(B, v)) = u * (m + l)
  BY VisitsNat, VisitsTimes
<1> HIDE DEF m, l, u
<1>3. u * (m + l) > 0 <=> u > 0 /\ (m > 0 \/ l > 0)
  BY <1>1, <1>2, Positive
<1>4. QED
  BY <1>1, <1>2, <1>3 DEF SectionWords, u

LEMMA SectionVisitsIs ==
  ASSUME CfgTypeOK, NEW B \in Seq(STRING), NEW v \in STRING, NEW sym
  PROVE  SectionVisits(Append(B, v), sym) > 0 <=> Visits(B) > 0 /\ v \in Names(B, sym)
<1> DEFINE m == NamedBy(Append(B, v), sym)
           u == Visits(B)
<1>1. m \in Nat /\ (m > 0 <=> v \in Names(B, sym)) /\ u \in Nat
  BY NamedByIs, VisitsNat
<1>2. SectionVisits(Append(B, v), sym) = u * m
  BY AppendParts DEF SectionVisits
<1> HIDE DEF m, u
<1>3. QED
  BY <1>1, <1>2, Positive DEF u

LEMMA SectionVisitsTop ==
  ASSUME NEW sym
  PROVE  ~(SectionVisits(<<>>, sym) > 0)
BY DEF SectionVisits

LEMMA StrsAre ==
  ASSUME CfgTypeOK, NEW path
  PROVE  /\ Strs(path) \in Seq(STRING) /\ Len(Strs(path)) = Len(Vals(path)) /\ Len(Strs(path)) \in Nat
         /\ (Vals(path) = <<>> <=> Len(Strs(path)) = 0)
         /\ \A i \in DOMAIN Vals(path) : Strs(path)[i] = Vals(path)[i].str
<1> DEFINE n == Len(Vals(path))
<1>1. DOMAIN Strs(path) = 1 .. n /\ n \in Nat /\ \A i \in 1 .. n : Strs(path)[i] \in STRING
  BY StrsTyped
<1>2. Strs(path) = [i \in DOMAIN Vals(path) |-> Vals(path)[i].str]
  BY DEF Strs
<1>3. Strs(path) \in Seq(STRING)
  <2>1. Strs(path) \in [1 .. n -> STRING]
    BY <1>1, <1>2
  <2> HIDE DEF n
  <2>2. QED
    BY <1>1, <2>1, SeqDef
<1>4. Len(Strs(path)) = n
  BY <1>1, <1>3, LenProperties
<1>5. Vals(path) = <<>> <=> n = 0
  <2>1. Vals(path) \in Seq(Values(serial_no_seq))
    <3>1. CASE path \in DOMAIN entry_map
      BY <3>1 DEF Vals, CfgTypeOK, Values
    <3>2. CASE path \notin DOMAIN entry_map
      BY <3>2, EmptySeq DEF Vals
    <3>3. QED
      BY <3>1, <3>2
  <2>2. QED
    BY <2>1, EmptySeq
<1>6. QED
  BY <1>1, <1>2, <1>3, <1>4, <1>5

LEMMA NamesTyped ==
  ASSUME CfgTypeOK, NEW B, NEW sym
  PROVE  Names(B, sym) \subseteq STRING
BY StrsTyped DEF Names, ToSet

\* A symbol with a value is in the map.
LEMMA NamesFiled ==
  ASSUME CfgTypeOK, NEW B, NEW sym, Names(B, sym) # {}
  PROVE  Append(B, sym) \in DOMAIN entry_map
<1> DEFINE p == Append(B, sym)
<1>1. PICK i \in DOMAIN Strs(p) : TRUE
  BY DEF Names, ToSet
<1>2. DOMAIN Strs(p) = DOMAIN Vals(p)
  BY DEF Strs
<1>3. p \notin DOMAIN entry_map => Vals(p) = <<>>
  BY DEF Vals
<1> HIDE DEF p
<1>4. QED
  BY <1>1, <1>2, <1>3 DEF p

\* The value CFGMAP_find_last_value() returns is the one given last.
LEMMA LastValueIs ==
  ASSUME CfgTypeOK, NEW path, NEW name \in STRING
  PROVE  LastValue(path) = name <=> IsSuffix(<<name>>, Strs(path))
<1> DEFINE t == Strs(path)
           n == Len(t)
           r == Reverse(t)
           one == Reverse(<<name>>)
<1>1. /\ t \in Seq(STRING) /\ n = Len(Vals(path)) /\ n \in Nat
      /\ Vals(path) = <<>> <=> n = 0
      /\ \A i \in DOMAIN Vals(path) : t[i] = Vals(path)[i].str
  BY StrsAre
<1>2. /\ one \in Seq(STRING) /\ Len(one) = 1 /\ one[1] = name
  <2>1. one = [i \in 1 .. 1 |-> <<name>>[(1 - i) + 1]]
    BY DEF Reverse
  <2>2. \A i \in 1 .. 1 : i = 1
    OBVIOUS
  <2> HIDE DEF one
  <2>3. one \in [1 .. 1 -> STRING] /\ one[1] = name
    <3> DEFINE f == <<name>>
    <3>1. f[1] = name
      OBVIOUS
    <3> HIDE DEF f
    <3>2. one = [i \in 1 .. 1 |-> f[(1 - i) + 1]]
      BY <2>1 DEF f
    <3>3. \A i \in 1 .. 1 : i = 1 /\ (1 - i) + 1 = 1
      BY <2>2
    <3>4. \A i \in 1 .. 1 : f[(1 - i) + 1] = name
      BY <3>1, <3>3
    <3>5. \A i \in 1 .. 1 : f[(1 - i) + 1] \in STRING
      BY <3>4, Zenon
    <3>6. one \in [1 .. 1 -> STRING]
      BY <3>2, <3>5, Zenon
    <3>7. 1 \in 1 .. 1 /\ one[1] = f[(1 - 1) + 1]
      BY <3>2
    <3>8. QED
      BY <3>4, <3>6, <3>7, Zenon
  <2>4. one \in Seq(STRING)
    BY <2>3, SeqDef
  <2>5. QED
    BY <2>3, <2>4, LenProperties
<1>3. r \in Seq(STRING) /\ Len(r) = n /\ (n > 0 => r[1] = t[n])
  <2>1. r = [i \in 1 .. n |-> t[(n - i) + 1]]
    BY DEF Reverse
  <2> HIDE DEF r, n
  <2>2. \A i \in 1 .. n : (n - i) + 1 \in 1 .. n
    BY <1>1
  <2>3. \A i \in 1 .. n : t[i] \in STRING
    BY <1>1, ElementOfSeq DEF n
  <2> HIDE DEF t
  <2>4. r \in [1 .. n -> STRING]
    BY <2>1, <2>2, <2>3
  <2>5. r \in Seq(STRING)
    BY <1>1, <2>4, SeqDef
  <2>6. Len(r) = n
    BY <1>1, <2>4, <2>5, LenProperties
  <2>7. n > 0 => (n - 1) + 1 = n /\ 1 \in 1 .. n
    BY <1>1
  <2>8. QED
    BY <2>1, <2>5, <2>6, <2>7
<1>4. IsSuffix(<<name>>, t) <=> 1 <= n /\ SubSeq(one, 1, 1) = SubSeq(r, 1, 1)
  BY <1>2, <1>3 DEF IsSuffix, IsPrefix
<1> HIDE DEF r, one
<1>5. n > 0 => (SubSeq(one, 1, 1) = SubSeq(r, 1, 1) <=> name = t[n])
  <2> SUFFICES ASSUME n > 0 PROVE SubSeq(one, 1, 1) = SubSeq(r, 1, 1) <=> name = t[n]
    OBVIOUS
  <2>0. n > 0
    OBVIOUS
  <2>1. \A i \in 1 .. 1 : i = 1 /\ one[i] \in STRING /\ r[i] \in STRING
    BY <1>1, <1>2, <1>3, ElementOfSeq
  <2>2. /\ SubSeq(one, 1, 1) \in Seq(STRING) /\ Len(SubSeq(one, 1, 1)) = 1
        /\ \A i \in 1 .. 1 : SubSeq(one, 1, 1)[i] = one[i]
    BY <2>1, SubSeqProperties
  <2>3. /\ SubSeq(r, 1, 1) \in Seq(STRING) /\ Len(SubSeq(r, 1, 1)) = 1
        /\ \A i \in 1 .. 1 : SubSeq(r, 1, 1)[i] = r[i]
    BY <2>1, SubSeqProperties
  <2>4. SubSeq(one, 1, 1)[1] = name /\ SubSeq(r, 1, 1)[1] = t[n]
    <3>1. 1 \in 1 .. 1
      OBVIOUS
    <3>2. SubSeq(one, 1, 1)[1] = one[1] /\ SubSeq(r, 1, 1)[1] = r[1]
      BY <2>2, <2>3, <3>1
    <3>3. QED
      BY <1>2, <1>3, <2>0, <3>2
  <2>5. name = t[n] => SubSeq(one, 1, 1) = SubSeq(r, 1, 1)
    <3>1. name = t[n] => \A i \in 1 .. 1 : SubSeq(one, 1, 1)[i] = SubSeq(r, 1, 1)[i]
      BY <2>1, <2>4
    <3>2. QED
      BY <2>2, <2>3, <3>1, SeqEqual
  <2>6. QED
    BY <2>4, <2>5
<1>6. LastValue(path) = IF n = 0 THEN NULL ELSE t[n]
  <2>1. n > 0 => n \in DOMAIN Vals(path) /\ Last(Vals(path)) = Vals(path)[n]
    <3>1. Last(Vals(path)) = Vals(path)[n]
      BY <1>1 DEF Last
    <3>2. DOMAIN Vals(path) = DOMAIN t /\ DOMAIN t = 1 .. n
      BY <1>1, LenProperties DEF Strs
    <3>3. QED
      BY <1>1, <3>1, <3>2
  <2>2. QED
    BY <1>1, <2>1 DEF LastValue
<1>7. QED
  BY <1>1, <1>4, <1>5, <1>6, GarbageAssumption

\* A last value is one of the values.
LEMMA LastValueNamed ==
  ASSUME CfgTypeOK, NEW B, NEW sym, LastValue(Append(B, sym)) # NULL
  PROVE  LastValue(Append(B, sym)) \in Names(B, sym)
<1> DEFINE p == Append(B, sym)
<1>1. /\ DOMAIN Strs(p) = 1 .. Len(Vals(p)) /\ Len(Vals(p)) \in Nat /\ DOMAIN Strs(p) = DOMAIN Vals(p)
      /\ Strs(p) = [i \in DOMAIN Vals(p) |-> Vals(p)[i].str]
      /\ Vals(p) = <<>> <=> Len(Strs(p)) = 0
      /\ Len(Strs(p)) = Len(Vals(p))
  BY StrsTyped, StrsAre DEF Strs
<1>2. Vals(p) # <<>> /\ LastValue(p) = Vals(p)[Len(Vals(p))].str
  BY DEF LastValue, Last
<1> HIDE DEF p
<1>3. Len(Vals(p)) \in DOMAIN Strs(p)
  BY <1>1, <1>2
<1>4. LastValue(p) = Strs(p)[Len(Vals(p))]
  BY <1>1, <1>2, <1>3
<1>5. QED
  BY <1>3, <1>4 DEF Names, ToSet, p

---------------------------------------------------------------------------
(* What -v prints.                                                         *)

\* Recognised(), for a symbol in a block.
LEMMA RecognisedIs ==
  ASSUME NEW B \in Seq(STRING), NEW w
  PROVE  Recognised(Append(B, w)) <=>
           \/ w \in SectionWords /\ Visits(B) > 0
           \/ w \in {"IP", "COUNTRY"} /\ SectionVisits(B, "MAX_OFFENSES") > 0
           \/ w \in {"DIR", "PREFIX", "TIMESTAMP", "TARGET"} /\ SectionVisits(B, "LOGTYPE") > 0
           \/ /\ Len(B) > 1 /\ SectionVisits(Front(B), "LOGTYPE") > 0
              /\ \/ /\ w \in {"REGEX", "STRPTIME", "FLAGS"}
                    /\ Last(B) \in Names(Front(B), "TIMESTAMP")
                    /\ IsSuffix(<<Last(B)>>, Strs(Append(Front(B), "TIMESTAMP")))
                 \/ w \in {"SEVERITY", "REGEX"} /\ Last(B) \in Names(Front(B), "TARGET")
<1> DEFINE p == Append(B, w)
           In(sym) == SectionVisits(B, sym) > 0
           InPart(sym) == /\ Len(B) > 1 /\ SectionVisits(Front(B), "LOGTYPE") > 0
                          /\ Last(B) \in Range(Strs(Append(Front(B), sym)))
           Suffix == IsSuffix(<<Last(B)>>, Strs(Append(Front(B), "TIMESTAMP")))
<1>1. Front(p) = B /\ Last(p) = w
  BY AppendParts
<1>2. Recognised(p) =
        CASE w \in {"MAX_OFFENSES", "LOGTYPE"} -> Visits(B) > 0
          [] w \in {"IP", "COUNTRY"} -> In("MAX_OFFENSES")
          [] w \in {"DIR", "PREFIX", "TIMESTAMP", "TARGET"} -> In("LOGTYPE")
          [] w \in {"STRPTIME", "FLAGS", "SEVERITY", "REGEX"} ->
               \/ w # "SEVERITY" /\ InPart("TIMESTAMP") /\ Suffix
               \/ w \in {"SEVERITY", "REGEX"} /\ InPart("TARGET")
          [] OTHER -> FALSE
  BY <1>1 DEF Recognised
<1>3. \A sym : Range(Strs(Append(Front(B), sym))) = Names(Front(B), sym)
  BY DEF Range, Names, ToSet
<1>4. /\ InPart("TIMESTAMP") <=> /\ Len(B) > 1 /\ SectionVisits(Front(B), "LOGTYPE") > 0
                                 /\ Last(B) \in Names(Front(B), "TIMESTAMP")
      /\ InPart("TARGET") <=> /\ Len(B) > 1 /\ SectionVisits(Front(B), "LOGTYPE") > 0
                              /\ Last(B) \in Names(Front(B), "TARGET")
  BY <1>3
<1>5. /\ In("MAX_OFFENSES") <=> SectionVisits(B, "MAX_OFFENSES") > 0
      /\ In("LOGTYPE") <=> SectionVisits(B, "LOGTYPE") > 0
  OBVIOUS
<1> HIDE DEF p, In, InPart, Suffix
<1>6. Recognised(p) <=>
        \/ w \in {"MAX_OFFENSES", "LOGTYPE"} /\ Visits(B) > 0
        \/ w \in {"IP", "COUNTRY"} /\ In("MAX_OFFENSES")
        \/ w \in {"DIR", "PREFIX", "TIMESTAMP", "TARGET"} /\ In("LOGTYPE")
        \/ w \in {"REGEX", "STRPTIME", "FLAGS"} /\ InPart("TIMESTAMP") /\ Suffix
        \/ w \in {"SEVERITY", "REGEX"} /\ InPart("TARGET")
  <2>1. CASE w \in {"MAX_OFFENSES", "LOGTYPE"}
    BY <1>2, <2>1
  <2>2. CASE w \in {"IP", "COUNTRY"}
    BY <1>2, <2>2
  <2>3. CASE w \in {"DIR", "PREFIX", "TIMESTAMP", "TARGET"}
    BY <1>2, <2>3
  <2>4. CASE w \in {"STRPTIME", "FLAGS", "SEVERITY", "REGEX"}
    BY <1>2, <2>4
  <2>5. CASE w \notin {"MAX_OFFENSES", "LOGTYPE", "IP", "COUNTRY", "DIR", "PREFIX", "TIMESTAMP",
                       "TARGET", "STRPTIME", "FLAGS", "SEVERITY", "REGEX"}
    BY <1>2, <2>5
  <2>6. QED
    BY <2>1, <2>2, <2>3, <2>4, <2>5
<1>7. QED
  BY <1>4, <1>5, <1>6 DEF SectionWords, p, Suffix

\* The symbols LOGTYPE_init() and MAXOFF_init() look up for a block.
Needed(B, sym) ==
  IF sym = "LOGTYPE" THEN LogTypeSymbols(B) ELSE {Append(B, "IP"), Append(B, "COUNTRY")}

LEMMA NeededByLogType ==
  ASSUME NEW B, NEW p
  PROVE  p \in Needed(B, "LOGTYPE") <=>
           \/ \E w \in {"DIR", "PREFIX", "TIMESTAMP", "TARGET"} : p = Append(B, w)
           \/ /\ LastValue(Append(B, "TIMESTAMP")) # NULL
              /\ \E w \in {"REGEX", "STRPTIME", "FLAGS"} :
                    p = Append(Append(B, LastValue(Append(B, "TIMESTAMP"))), w)
           \/ \E name \in Names(B, "TARGET") : \E w \in {"SEVERITY", "REGEX"} :
                p = Append(Append(B, name), w)
<1> DEFINE ts == LastValue(Append(B, "TIMESTAMP"))
           main == Under(B, {"DIR", "PREFIX", "TIMESTAMP", "TARGET"})
           stamp == IF ts = NULL THEN {} ELSE Under(Append(B, ts), {"REGEX", "STRPTIME", "FLAGS"})
           targets == UNION {Under(Append(B, t), {"SEVERITY", "REGEX"}) : t \in Names(B, "TARGET")}
<1>1. Needed(B, "LOGTYPE") = main \cup stamp \cup targets
  BY DEF Needed, LogTypeSymbols, Names
<1>2. p \in main <=> \E w \in {"DIR", "PREFIX", "TIMESTAMP", "TARGET"} : p = Append(B, w)
  BY DEF Under
<1>3. p \in stamp <=> /\ ts # NULL
                      /\ \E w \in {"REGEX", "STRPTIME", "FLAGS"} : p = Append(Append(B, ts), w)
  BY DEF Under
<1>4. p \in targets <=> \E name \in Names(B, "TARGET") : \E w \in {"SEVERITY", "REGEX"} :
                          p = Append(Append(B, name), w)
  BY DEF Under
<1> HIDE DEF main, stamp, targets, ts
<1>5. QED
  BY <1>1, <1>2, <1>3, <1>4 DEF ts

\* Each of them has a word of its own, and is one the program has a use for.
LEMMA NeededRecognised ==
  ASSUME CfgTypeOK, NEW B \in Seq(STRING), NEW sym \in SectionWords, SectionVisits(B, sym) > 0,
         NEW p \in Needed(B, sym)
  PROVE  Recognised(p) /\ Last(p) \notin SectionWords
<1>1. CASE sym = "MAX_OFFENSES"
  <2>1. PICK w \in {"IP", "COUNTRY"} : p = Append(B, w)
    BY <1>1 DEF Needed
  <2>2. Recognised(p)
    BY <1>1, <2>1, RecognisedIs
  <2>3. Last(p) = w
    BY <2>1, AppendParts
  <2>4. QED
    BY <2>1, <2>2, <2>3 DEF SectionWords
<1>2. CASE sym = "LOGTYPE"
  <2>1. p \in Needed(B, "LOGTYPE") /\ SectionVisits(B, "LOGTYPE") > 0
    BY <1>2
  <2>2. B # <<>> /\ Len(B) \in Nat /\ Len(B) # 0
    BY <1>2, SectionVisitsTop, LenProperties, EmptySeq
  <2>3. CASE \E w \in {"DIR", "PREFIX", "TIMESTAMP", "TARGET"} : p = Append(B, w)
    <3>1. PICK w \in {"DIR", "PREFIX", "TIMESTAMP", "TARGET"} : p = Append(B, w)
      BY <2>3
    <3>2. Recognised(p)
      BY <2>1, <3>1, RecognisedIs
    <3>3. Last(p) = w
      BY <3>1, AppendParts
    <3>4. QED
      BY <3>1, <3>2, <3>3 DEF SectionWords
  <2>4. ASSUME NEW name \in STRING, NEW w, p = Append(Append(B, name), w),
               \/ /\ w \in {"REGEX", "STRPTIME", "FLAGS"} /\ name \in Names(B, "TIMESTAMP")
                  /\ IsSuffix(<<name>>, Strs(Append(B, "TIMESTAMP")))
               \/ w \in {"SEVERITY", "REGEX"} /\ name \in Names(B, "TARGET")
        PROVE  Recognised(p) /\ Last(p) \notin SectionWords
    <3> DEFINE C == Append(B, name)
    <3>1. C \in Seq(STRING)
      BY AppendProperties
    <3>2. Front(C) = B /\ Last(C) = name /\ Len(C) = Len(B) + 1
      BY AppendParts
    <3> HIDE DEF C
    <3>3. Len(C) > 1
      BY <2>2, <3>2
    <3>4. p = Append(C, w)
      BY <2>4 DEF C
    <3>5. Recognised(Append(C, w))
      BY <2>1, <2>4, <3>1, <3>2, <3>3, RecognisedIs
    <3>6. Last(p) = w
      BY <3>1, <3>4, AppendParts
    <3>7. w \notin SectionWords
      BY <2>4 DEF SectionWords
    <3>8. QED
      BY <3>4, <3>5, <3>6, <3>7
  <2>5. CASE /\ LastValue(Append(B, "TIMESTAMP")) # NULL
             /\ \E w \in {"REGEX", "STRPTIME", "FLAGS"} :
                   p = Append(Append(B, LastValue(Append(B, "TIMESTAMP"))), w)
    <3> DEFINE name == LastValue(Append(B, "TIMESTAMP"))
    <3>1. name \in Names(B, "TIMESTAMP")
      BY <2>5, LastValueNamed
    <3>2. name \in STRING
      BY <3>1, NamesTyped
    <3>3. IsSuffix(<<name>>, Strs(Append(B, "TIMESTAMP")))
      BY <3>2, LastValueIs
    <3>4. PICK w \in {"REGEX", "STRPTIME", "FLAGS"} : p = Append(Append(B, name), w)
      BY <2>5
    <3> HIDE DEF name
    <3>5. QED
      BY <2>4, <3>1, <3>2, <3>3, <3>4
  <2>6. CASE \E name \in Names(B, "TARGET") : \E w \in {"SEVERITY", "REGEX"} :
               p = Append(Append(B, name), w)
    <3>1. PICK name \in Names(B, "TARGET"), w \in {"SEVERITY", "REGEX"} :
            p = Append(Append(B, name), w)
      BY <2>6
    <3>2. name \in STRING
      BY <3>1, NamesTyped
    <3>3. QED
      BY <2>4, <3>1, <3>2
  <2>7. QED
    BY <2>1, <2>3, <2>5, <2>6, NeededByLogType
<1>3. QED
  BY <1>1, <1>2 DEF SectionWords

---------------------------------------------------------------------------
(* What is in a list of work.                                              *)

LEMMA InSet ==
  ASSUME NEW S, NEW s \in Seq(S), NEW e
  PROVE  /\ e \in ToSet(s) <=> \E i \in 1 .. Len(s) : s[i] = e
         /\ ToSet(s) \subseteq S /\ Len(s) \in Nat
<1>1. DOMAIN s = 1 .. Len(s) /\ Len(s) \in Nat /\ \A i \in 1 .. Len(s) : s[i] \in S
  BY LenProperties, ElementOfSeq
<1>2. QED
  BY <1>1 DEF ToSet

LEMMA ConcatSet ==
  ASSUME NEW S, NEW a \in Seq(S), NEW b \in Seq(S)
  PROVE  a \o b \in Seq(S) /\ ToSet(a \o b) = ToSet(a) \cup ToSet(b)
<1>1. /\ a \o b \in Seq(S) /\ Len(a \o b) = Len(a) + Len(b)
      /\ Len(a) \in Nat /\ Len(b) \in Nat
      /\ \A i \in 1 .. Len(a) + Len(b) :
           (a \o b)[i] = IF i <= Len(a) THEN a[i] ELSE b[i - Len(a)]
  BY ConcatProperties, LenProperties
<1> DEFINE c == a \o b
<1> HIDE DEF c
<1>2. ASSUME NEW e \in ToSet(c)
      PROVE  e \in ToSet(a) \cup ToSet(b)
  <2>1. PICK i \in 1 .. Len(a) + Len(b) : c[i] = e
    BY <1>1, InSet DEF c
  <2>2. CASE i <= Len(a)
    <3>1. i \in 1 .. Len(a) /\ a[i] = e
      BY <1>1, <2>1, <2>2 DEF c
    <3>2. QED
      BY <3>1, InSet
  <2>3. CASE ~(i <= Len(a))
    <3>1. i - Len(a) \in 1 .. Len(b) /\ b[i - Len(a)] = e
      BY <1>1, <2>1, <2>3 DEF c
    <3>2. QED
      BY <3>1, InSet
  <2>4. QED
    BY <2>2, <2>3
<1>3. ASSUME NEW e \in ToSet(a)
      PROVE  e \in ToSet(c)
  <2>1. PICK i \in 1 .. Len(a) : a[i] = e
    BY InSet
  <2>2. i \in 1 .. Len(a) + Len(b) /\ c[i] = e
    BY <1>1, <2>1 DEF c
  <2>3. QED
    BY <1>1, <2>2, InSet DEF c
<1>4. ASSUME NEW e \in ToSet(b)
      PROVE  e \in ToSet(c)
  <2>1. PICK i \in 1 .. Len(b) : b[i] = e
    BY InSet
  <2>2. Len(a) + i \in 1 .. Len(a) + Len(b) /\ ~(Len(a) + i <= Len(a)) /\ (Len(a) + i) - Len(a) = i
    BY <1>1, <2>1
  <2>3. c[Len(a) + i] = e
    BY <1>1, <2>1, <2>2 DEF c
  <2>4. QED
    BY <1>1, <2>2, <2>3, InSet DEF c
<1>5. QED
  BY <1>1, <1>2, <1>3, <1>4 DEF c

LEMMA HeadSet ==
  ASSUME NEW S, NEW s \in Seq(S), s # <<>>
  PROVE  ToSet(s) = {Head(s)} \cup ToSet(Tail(s))
<1>1. /\ Len(s) \in Nat /\ Len(s) # 0 /\ Head(s) = s[1]
      /\ Tail(s) \in Seq(S) /\ Len(Tail(s)) = Len(s) - 1
      /\ \A i \in 1 .. Len(Tail(s)) : Tail(s)[i] = s[i + 1]
  BY LenProperties, EmptySeq, HeadTailProperties
<1> DEFINE t == Tail(s)
<1> HIDE DEF t
<1>2. ASSUME NEW e \in ToSet(s)
      PROVE  e = Head(s) \/ e \in ToSet(t)
  <2>1. PICK i \in 1 .. Len(s) : s[i] = e
    BY InSet
  <2>2. CASE i = 1
    BY <1>1, <2>1, <2>2
  <2>3. CASE i # 1
    <3>1. i - 1 \in 1 .. Len(t) /\ (i - 1) + 1 = i
      BY <1>1, <2>1, <2>3 DEF t
    <3>2. t[i - 1] = e
      BY <1>1, <2>1, <3>1 DEF t
    <3>3. \E j \in 1 .. Len(t) : t[j] = e
      BY <3>1, <3>2
    <3>4. t \in Seq(S)
      BY <1>1 DEF t
    <3>5. QED
      BY <3>3, <3>4, InSet
  <2>4. QED
    BY <2>2, <2>3
<1>3. Head(s) \in ToSet(s)
  <2>1. 1 \in 1 .. Len(s)
    BY <1>1
  <2>2. QED
    BY <1>1, <2>1, InSet
<1>4. ASSUME NEW e \in ToSet(t)
      PROVE  e \in ToSet(s)
  <2>1. PICK i \in 1 .. Len(t) : t[i] = e
    BY <1>1, InSet DEF t
  <2>2. i + 1 \in 1 .. Len(s) /\ s[i + 1] = e
    BY <1>1, <2>1 DEF t
  <2>3. QED
    BY <2>2, InSet
<1>5. QED
  BY <1>2, <1>3, <1>4 DEF t

\* Nothing is lost where sequences are put together.
LEMMA FlattenHolds ==
  ASSUME NEW S, NEW seqs \in Seq(Seq(S)), NEW i \in 1 .. Len(seqs)
  PROVE  ToSet(seqs[i]) \subseteq ToSet(FlattenSeq(seqs))
<1> DEFINE n == Len(seqs)
<1>1. n \in Nat /\ n # 0 /\ i \in 1 .. n /\ \A j \in 1 .. n : seqs[j] \in Seq(S)
  BY LenProperties, ElementOfSeq
<1>2. FlattenSeq(seqs) = (CHOOSE h : IsFlat(h, n, seqs))[n]
  <2>1. n # 0
    BY <1>1
  <2>2. QED
    BY <2>1, Zenon DEF FlattenSeq, IsFlat
<1> HIDE DEF n
<1>3. PICK h : h = (CHOOSE f : IsFlat(f, n, seqs)) /\ IsFlat(h, n, seqs)
  BY <1>1, FlatExists, Zenon
<1>4. \A j \in 1 .. n : h[j] = IF j = 1 THEN seqs[j] ELSE h[j - 1] \o seqs[j]
  BY <1>3 DEF IsFlat
<1> DEFINE Holds(k) == h[k] \in Seq(S) /\ (i <= k => ToSet(seqs[i]) \subseteq ToSet(h[k]))
           bad == {k \in 1 .. n : ~Holds(k)}
<1>5. bad = {}
  <2> SUFFICES ASSUME bad # {} PROVE FALSE
    OBVIOUS
  <2>1. PICK k \in bad : \A j \in bad : k <= j
    <3>1. bad \in SUBSET Nat
      OBVIOUS
    <3> HIDE DEF bad
    <3>2. QED
      BY <3>1, Least
  <2>2. k \in 1 .. n /\ ~Holds(k)
    OBVIOUS
  <2>3. CASE k = 1
    <3>1. h[k] = seqs[k] /\ seqs[k] \in Seq(S)
      BY <1>1, <1>4, <2>2, <2>3
    <3>2. i <= k => i = k
      BY <1>1, <2>3
    <3>3. QED
      BY <2>2, <3>1, <3>2
  <2>4. CASE k # 1
    <3>1. k - 1 \in 1 .. n /\ k - 1 \notin bad
      BY <1>1, <2>1, <2>2, <2>4
    <3>2. Holds(k - 1)
      BY <3>1
    <3>3. h[k] = h[k - 1] \o seqs[k] /\ seqs[k] \in Seq(S) /\ h[k - 1] \in Seq(S)
      BY <1>1, <1>4, <2>2, <2>4, <3>2
    <3>4. h[k] \in Seq(S) /\ ToSet(h[k]) = ToSet(h[k - 1]) \cup ToSet(seqs[k])
      BY <3>3, ConcatSet
    <3>5. i <= k => i = k \/ i <= k - 1
      BY <1>1, <2>2
    <3>6. QED
      BY <2>2, <3>2, <3>4, <3>5
  <2>5. QED
    BY <2>3, <2>4
<1>6. Holds(n)
  <2>1. n \in 1 .. n /\ n \notin bad
    BY <1>1, <1>5
  <2>2. QED
    BY <2>1
<1>7. QED
  BY <1>1, <1>2, <1>3, <1>6

---------------------------------------------------------------------------
(* The map is walked as it is.                                             *)

\* While the map stays what it is, so does what it means for the run.
LEMMA SameMap ==
  ASSUME UNCHANGED entry_map
  PROVE  /\ \A p : Strs(p)' = Strs(p) /\ LastValue(p)' = LastValue(p)
         /\ \A B, sym : Names(B, sym)' = Names(B, sym)
         /\ \A p, sym : NamedBy(p, sym)' = NamedBy(p, sym)
         /\ \A B, sym : Needed(B, sym)' = Needed(B, sym)
<1>1. \A p : Vals(p)' = Vals(p)
  BY DEF Vals
<1>2. \A p : Strs(p)' = Strs(p) /\ LastValue(p)' = LastValue(p)
  BY <1>1 DEF Strs, LastValue
<1>3. \A B, sym : Names(B, sym)' = Names(B, sym)
  BY <1>2 DEF Names, ToSet
<1>4. ASSUME NEW p, NEW sym
      PROVE  NamedBy(p, sym)' = NamedBy(p, sym)
  BY <1>2 DEF NamedBy
<1>5. ASSUME NEW B, NEW sym
      PROVE  Needed(B, sym)' = Needed(B, sym)
  <2>1. LogTypeSymbols(B)' = LogTypeSymbols(B)
    BY <1>2 DEF LogTypeSymbols, Under, ToSet
  <2>2. QED
    BY <2>1 DEF Needed
<1>6. QED
  BY <1>2, <1>3, <1>4, <1>5

LEMMA SameVisits ==
  ASSUME UNCHANGED entry_map, NEW p
  PROVE  Visits(p)' = Visits(p)
<1> DEFINE Is(g) == g = [n \in 0 .. Len(p) |->
                           IF n = 0 THEN 1
                           ELSE g[n - 1] * (NamedBy(SubSeq(p, 1, n), "MAX_OFFENSES")
                                              + NamedBy(SubSeq(p, 1, n), "LOGTYPE"))]
<1>1. Visits(p) = (CHOOSE g : Is(g))[Len(p)]
  BY Zenon DEF Visits
<1>2. Visits(p)' = (CHOOSE g : Is(g)')[Len(p)]
  BY Zenon DEF Visits
<1>3. \A b, sym : NamedBy(b, sym)' = NamedBy(b, sym)
  BY SameMap
<1>4. \A g : Is(g)' <=> Is(g)
  BY <1>3
<1> HIDE DEF Is
<1>5. (CHOOSE g : Is(g)') = (CHOOSE g : Is(g))
  BY <1>4, Zenon
<1>6. QED
  BY <1>1, <1>2, <1>5

\* What is to be done is to be done for a block the values name, and what has been
\* looked up is of use.
GoodItem(t) == Visits(t.path) > 0 /\ (t.step = "init" => SectionVisits(t.path, t.sym) > 0)
SoundInv ==
  /\ \A t \in ToSet(todo) : GoodItem(t)
  /\ \A p \in looked : Recognised(p)

\* Of a section looked up, each block has been initialised and its own sections have
\* been looked up, or that is yet to be done.
Pending(step, B, sym) == [step |-> step, sym |-> sym, path |-> B] \in ToSet(todo)
Walked(B, sym) ==
  \/ Pending("section", B, sym)
  \/ Append(B, sym) \in DOMAIN entry_map => Append(B, sym) \in looked
Inited(B, sym) ==
  \/ Pending("init", B, sym)
  \/ Needed(B, sym) \cap DOMAIN entry_map \subseteq looked
CompleteInv ==
  /\ \A sym \in SectionWords : Walked(<<>>, sym)
  /\ \A B \in Seq(STRING), sym \in SectionWords : Append(B, sym) \in looked =>
       \A v \in Names(B, sym) :
         Inited(Append(B, v), sym) /\ \A s \in SectionWords : Walked(Append(B, v), s)

LEMMA SameWalk ==
  ASSUME UNCHANGED entry_map
  PROVE  /\ \A p, sym : SectionVisits(p, sym)' = SectionVisits(p, sym)
         /\ \A p : Visits(p)' = Visits(p)
         /\ \A t : GoodItem(t)' <=> GoodItem(t)
         /\ \A p : Recognised(p)' <=> Recognised(p)
         /\ \A B, sym : Names(B, sym)' = Names(B, sym)
         /\ \A B, sym : Needed(B, sym)' = Needed(B, sym)
<1>1. \A p : Visits(p)' = Visits(p)
  BY SameVisits
<1>2. /\ \A p : Strs(p)' = Strs(p)
      /\ \A B, sym : Names(B, sym)' = Names(B, sym)
      /\ \A p, sym : NamedBy(p, sym)' = NamedBy(p, sym)
      /\ \A B, sym : Needed(B, sym)' = Needed(B, sym)
  BY SameMap
<1>3. \A p, sym : SectionVisits(p, sym)' = SectionVisits(p, sym)
  BY <1>1, <1>2 DEF SectionVisits
<1>4. \A t : GoodItem(t)' <=> GoodItem(t)
  BY <1>1, <1>3 DEF GoodItem
<1>5. \A p : Recognised(p)' <=> Recognised(p)
  BY <1>1, <1>2, <1>3 DEF Recognised
<1>6. QED
  BY <1>1, <1>2, <1>3, <1>4, <1>5

\* What each block of a section is put on the list for.
NewItems(sym, C) ==
  {[step |-> "init", sym |-> sym, path |-> C]}
    \cup {[step |-> "section", sym |-> s, path |-> C] : s \in SectionWords}

LEMMA StepsAre ==
  ASSUME NEW sym \in SectionWords, NEW C \in Seq(STRING)
  PROVE  /\ NewItems(sym, C) \subseteq Work
         /\ Steps(sym, C) \in Seq(NewItems(sym, C))
         /\ ToSet(Steps(sym, C)) = NewItems(sym, C)
<1> DEFINE i == [step |-> "init", sym |-> sym, path |-> C]
           m == [step |-> "section", sym |-> "MAX_OFFENSES", path |-> C]
           l == [step |-> "section", sym |-> "LOGTYPE", path |-> C]
           S == NewItems(sym, C)
<1>1. NewItems(sym, C) = {i, m, l}
  BY DEF NewItems, SectionWords
<1>2. i \in Work /\ m \in Work /\ l \in Work
  BY DEF Work, SectionWords
<1>3. Steps(sym, C) = <<i>> \o <<m, l>>
  BY DEF Steps, Sections
<1> HIDE DEF i, m, l
<1>4. <<i>> \in Seq(S) /\ <<m, l>> \in Seq(S)
  BY <1>1
<1> HIDE DEF S
<1>5. Steps(sym, C) \in Seq(S) /\ ToSet(Steps(sym, C)) = ToSet(<<i>>) \cup ToSet(<<m, l>>)
  <2> DEFINE a == <<i>>
             b == <<m, l>>
  <2>1. a \in Seq(S) /\ b \in Seq(S)
    BY <1>4
  <2>2. Steps(sym, C) = a \o b
    BY <1>3
  <2> HIDE DEF a, b
  <2>3. Steps(sym, C) \in Seq(S) /\ ToSet(Steps(sym, C)) = ToSet(a) \cup ToSet(b)
    BY <2>1, <2>2, ConcatSet
  <2>4. QED
    BY <2>3 DEF a, b
<1>6. ToSet(<<i>>) = {i} /\ ToSet(<<m, l>>) = {m, l}
  BY DEF ToSet
<1>7. QED
  BY <1>1, <1>2, <1>5, <1>6 DEF S

\* The list of work after a section has been walked.
WalkedList(B, sym) ==
  LET p == Append(B, sym)
  IN  FlattenSeq([i \in DOMAIN Strs(p) |-> Steps(sym, Append(B, Strs(p)[i]))]) \o Tail(todo)

LEMMA SectionList ==
  ASSUME StartInv, pc = "configure", todo # <<>>, NEW sym \in SectionWords,
         NEW B \in Seq(STRING), todo' = WalkedList(B, sym)
  PROVE  /\ ToSet(Tail(todo)) \subseteq ToSet(todo')
         /\ \A v \in Names(B, sym) : NewItems(sym, Append(B, v)) \subseteq ToSet(todo')
         /\ \A t \in ToSet(todo') : \/ t \in ToSet(Tail(todo))
                                    \/ \E v \in Names(B, sym) : t \in NewItems(sym, Append(B, v))
<1> DEFINE p == Append(B, sym)
           n == Len(Vals(p))
           seqs == [i \in DOMAIN Strs(p) |-> Steps(sym, Append(B, Strs(p)[i]))]
           S == UNION {NewItems(sym, Append(B, v)) : v \in Names(B, sym)}
<1>1. /\ n \in Nat /\ DOMAIN Strs(p) = 1 .. n
      /\ \A i \in DOMAIN Strs(p) : Strs(p)[i] \in STRING
  BY StrsTyped DEF StartInv, MapInv
<1>2. Names(B, sym) = {Strs(p)[i] : i \in 1 .. n}
  BY <1>1 DEF Names, ToSet
<1>3. \A v \in Names(B, sym) : v \in STRING /\ Append(B, v) \in Seq(STRING)
  <2>1. \A v \in STRING : Append(B, v) \in Seq(STRING)
    BY AppendProperties
  <2>2. Names(B, sym) \subseteq STRING
    BY <1>1, <1>2
  <2>3. QED
    BY <2>1, <2>2
<1>4. ASSUME NEW v \in Names(B, sym)
      PROVE  /\ NewItems(sym, Append(B, v)) \subseteq Work
             /\ Steps(sym, Append(B, v)) \in Seq(S)
             /\ ToSet(Steps(sym, Append(B, v))) = NewItems(sym, Append(B, v))
  <2>1. /\ NewItems(sym, Append(B, v)) \subseteq Work
        /\ Steps(sym, Append(B, v)) \in Seq(NewItems(sym, Append(B, v)))
        /\ ToSet(Steps(sym, Append(B, v))) = NewItems(sym, Append(B, v))
    BY <1>3, StepsAre
  <2>2. NewItems(sym, Append(B, v)) \subseteq S
    OBVIOUS
  <2> HIDE DEF S
  <2>3. QED
    BY <2>1, <2>2, SeqMonotonic
<1>5. S \subseteq Work
  BY <1>4
<1>6. seqs \in [1 .. n -> Seq(S)]
  BY <1>1, <1>2, <1>4
<1>7. \A i \in 1 .. n : seqs[i] = Steps(sym, Append(B, Strs(p)[i]))
  BY <1>1
<1>8. todo' = FlattenSeq(seqs) \o Tail(todo)
  BY DEF WalkedList
<1> HIDE DEF seqs, n
<1>9. seqs \in Seq(Seq(S)) /\ Len(seqs) = n
  <2> HIDE DEF S
  <2>1. seqs \in Seq(Seq(S))
    BY <1>1, <1>6, SeqDef
  <2>2. QED
    BY <1>1, <1>6, <2>1, LenProperties
<1>10. FlattenSeq(seqs) \in Seq(S) /\ FlattenSeq(seqs) \in Seq(Work) /\ Tail(todo) \in Seq(Work)
  <2> HIDE DEF S
  <2>1. FlattenSeq(seqs) \in Seq(S)
    BY <1>9, FlattenTyped
  <2>2. FlattenSeq(seqs) \in Seq(Work)
    BY <1>5, <2>1, SeqMonotonic
  <2>3. QED
    BY <2>1, <2>2, ItemTyped DEF StartInv
<1>11. ToSet(todo') = ToSet(FlattenSeq(seqs)) \cup ToSet(Tail(todo))
  BY <1>8, <1>10, ConcatSet
<1>12. ToSet(FlattenSeq(seqs)) \subseteq S
  <2> HIDE DEF S
  <2>1. QED
    BY <1>10, InSet
<1>13. ASSUME NEW v \in Names(B, sym)
       PROVE  NewItems(sym, Append(B, v)) \subseteq ToSet(FlattenSeq(seqs))
  <2>1. PICK i \in 1 .. n : v = Strs(p)[i]
    BY <1>2
  <2>2. ToSet(seqs[i]) = NewItems(sym, Append(B, v))
    BY <1>4, <1>7, <2>1
  <2>3. i \in 1 .. Len(seqs)
    BY <1>9
  <2> HIDE DEF S
  <2>4. ToSet(seqs[i]) \subseteq ToSet(FlattenSeq(seqs))
    BY <1>9, <2>3, FlattenHolds
  <2>5. QED
    BY <2>2, <2>4
<1>14. QED
  BY <1>11, <1>12, <1>13

\* A step of what is to be done: its parts, and the rest of the list.
LEMMA ItemIs ==
  ASSUME StartInv, todo # <<>>
  PROVE  /\ Item \in Work /\ Item.path \in Seq(STRING)
         /\ Item = [step |-> Item.step, sym |-> Item.sym, path |-> Item.path]
         /\ ToSet(todo) = {Item} \cup ToSet(Tail(todo))
<1>1. todo \in Seq(Work)
  BY DEF StartInv, MainTypeOK
<1>2. Item \in Work
  BY <1>1, HeadTailProperties DEF Item
<1>3. ToSet(todo) = {Item} \cup ToSet(Tail(todo))
  BY <1>1, HeadSet DEF Item
<1>4. QED
  BY <1>2, <1>3 DEF Work

LEMMA LookedIs ==
  ASSUME NEW paths, Looked(paths)
  PROVE  /\ looked \subseteq looked' /\ paths \cap DOMAIN entry_map \subseteq looked'
         /\ \A p \in looked' : p \in looked \/ (p \in paths /\ p \in DOMAIN entry_map)
BY DEF Looked

\* What is done leaves the list, and all else of it stays.
LEMMA StillPending ==
  ASSUME StartInv, todo # <<>>, UNCHANGED entry_map, looked \subseteq looked',
         ToSet(Tail(todo)) \subseteq ToSet(todo')
  PROVE  /\ \A C, s : Walked(C, s) => \/ Walked(C, s)'
                                      \/ Item = [step |-> "section", sym |-> s, path |-> C]
         /\ \A C, s : Inited(C, s) => \/ Inited(C, s)'
                                      \/ Item = [step |-> "init", sym |-> s, path |-> C]
<1>1. \A t : t \in ToSet(todo) => t \in ToSet(todo') \/ t = Item
  BY ItemIs
<1>2. \A step, C, s : Pending(step, C, s) => \/ Pending(step, C, s)'
                                             \/ Item = [step |-> step, sym |-> s, path |-> C]
  BY <1>1 DEF Pending
<1>3. \A C, s : Needed(C, s)' = Needed(C, s)
  BY SameWalk
<1>4. ASSUME NEW C, NEW s, Walked(C, s)
      PROVE  Walked(C, s)' \/ Item = [step |-> "section", sym |-> s, path |-> C]
  BY <1>2, <1>4 DEF Walked
<1>5. ASSUME NEW C, NEW s, Inited(C, s)
      PROVE  Inited(C, s)' \/ Item = [step |-> "init", sym |-> s, path |-> C]
  BY <1>2, <1>3, <1>5 DEF Inited
<1>6. QED
  BY <1>4, <1>5

LEMMA SectionStep ==
  ASSUME StartInv, SoundInv, CompleteInv, pc = "configure", todo # <<>>, NEW sym \in SectionWords,
         Item.step = "section", Item.sym = sym, UNCHANGED entry_map,
         NEW B, B = Item.path, NEW p, p = Append(B, sym), Looked({p}),
         todo' = WalkedList(B, sym)
  PROVE  SoundInv' /\ CompleteInv'
<1>1. /\ B \in Seq(STRING) /\ Item = [step |-> "section", sym |-> sym, path |-> B]
      /\ ToSet(todo) = {Item} \cup ToSet(Tail(todo)) /\ CfgTypeOK
  BY ItemIs DEF StartInv, MapInv
<1>2. /\ looked \subseteq looked' /\ (p \in DOMAIN entry_map => p \in looked')
      /\ \A q \in looked' : q \in looked \/ q = p
  BY DEF Looked
<1>3. /\ ToSet(Tail(todo)) \subseteq ToSet(todo')
      /\ \A v \in Names(B, sym) : NewItems(sym, Append(B, v)) \subseteq ToSet(todo')
      /\ \A t \in ToSet(todo') : \/ t \in ToSet(Tail(todo))
                                 \/ \E v \in Names(B, sym) : t \in NewItems(sym, Append(B, v))
  BY <1>1, SectionList
<1>4. Visits(B) > 0
  BY <1>1 DEF SoundInv, GoodItem
<1>5. SoundInv'
  <2>1. ASSUME NEW t \in ToSet(todo')
        PROVE  GoodItem(t)
    <3>1. CASE t \in ToSet(Tail(todo))
      BY <1>1, <3>1 DEF SoundInv
    <3>2. ASSUME NEW v \in Names(B, sym), t \in NewItems(sym, Append(B, v))
          PROVE  GoodItem(t)
      <4>1. v \in STRING
        BY <1>1, NamesTyped
      <4>2. Visits(Append(B, v)) > 0 /\ SectionVisits(Append(B, v), sym) > 0
        BY <1>1, <1>4, <4>1, VisitsBlock, SectionVisitsIs
      <4>3. t.path = Append(B, v) /\ (t.step = "init" => t.sym = sym)
        BY <3>2 DEF NewItems
      <4>4. QED
        BY <4>2, <4>3 DEF GoodItem
    <3>3. QED
      BY <1>3, <3>1, <3>2
  <2>2. Recognised(p)
    BY <1>1, <1>4, RecognisedIs
  <2>3. ASSUME NEW q \in looked'
        PROVE  Recognised(q)
    BY <1>2, <2>2 DEF SoundInv
  <2>4. (\A t : GoodItem(t)' <=> GoodItem(t)) /\ \A q : Recognised(q)' <=> Recognised(q)
    BY SameWalk
  <2>5. QED
    BY <2>1, <2>3, <2>4 DEF SoundInv
<1>6. \A C, s : (Walked(C, s) => Walked(C, s)') /\ (Inited(C, s) => Inited(C, s)')
  <2>1. Walked(B, sym)'
    BY <1>2 DEF Walked
  <2>2. ASSUME NEW C, NEW s, Item = [step |-> "section", sym |-> s, path |-> C]
        PROVE  C = B /\ s = sym
    <3>1. Item.path = C /\ Item.sym = s
      BY <2>2
    <3>2. QED
      BY <3>1
  <2>3. \A C, s : Item # [step |-> "init", sym |-> s, path |-> C]
    BY <1>1
  <2>4. /\ \A C, s : Walked(C, s) => \/ Walked(C, s)'
                                     \/ Item = [step |-> "section", sym |-> s, path |-> C]
        /\ \A C, s : Inited(C, s) => \/ Inited(C, s)'
                                     \/ Item = [step |-> "init", sym |-> s, path |-> C]
    BY <1>2, <1>3, StillPending
  <2>5. QED
    BY <2>1, <2>2, <2>3, <2>4
<1>7. ASSUME NEW C \in Seq(STRING), NEW s \in SectionWords, Append(C, s) \in looked',
             NEW v \in Names(C, s)
      PROVE  Inited(Append(C, v), s)' /\ \A s2 \in SectionWords : Walked(Append(C, v), s2)'
  <2>1. CASE Append(C, s) \in looked
    BY <1>6, <2>1 DEF CompleteInv
  <2>2. CASE Append(C, s) = p
    <3>1. C = B /\ s = sym
      <4>1. Front(Append(C, s)) = C /\ Last(Append(C, s)) = s
        BY AppendParts
      <4>2. Front(p) = B /\ Last(p) = sym
        BY <1>1, AppendParts
      <4>3. QED
        BY <2>2, <4>1, <4>2
    <3>2. NewItems(s, Append(C, v)) \subseteq ToSet(todo')
      BY <1>3, <3>1
    <3>3. QED
      BY <3>2 DEF NewItems, Inited, Walked, Pending
  <2>3. QED
    BY <1>2, <1>7, <2>1, <2>2
<1>8. CompleteInv'
  <2>1. \A C, s : Names(C, s)' = Names(C, s)
    BY SameWalk
  <2>2. QED
    BY <1>6, <1>7, <2>1 DEF CompleteInv
<1>9. QED
  BY <1>5, <1>8

LEMMA InitStep ==
  ASSUME StartInv, SoundInv, CompleteInv, todo # <<>>, NEW sym \in SectionWords,
         Item.step = "init", Item.sym = sym, UNCHANGED entry_map,
         NEW B, B = Item.path, Looked(Needed(B, sym)), todo' = Tail(todo)
  PROVE  SoundInv' /\ CompleteInv'
<1>1. /\ B \in Seq(STRING) /\ Item = [step |-> "init", sym |-> sym, path |-> B]
      /\ ToSet(todo) = {Item} \cup ToSet(todo') /\ CfgTypeOK
  BY ItemIs DEF StartInv, MapInv
<1>2. /\ looked \subseteq looked' /\ Needed(B, sym) \cap DOMAIN entry_map \subseteq looked'
      /\ \A q \in looked' : q \in looked \/ q \in Needed(B, sym)
  BY LookedIs
<1>3. SectionVisits(B, sym) > 0
  BY <1>1 DEF SoundInv, GoodItem
<1>4. \A q \in Needed(B, sym) : Recognised(q) /\ Last(q) \notin SectionWords
  BY <1>1, <1>3, NeededRecognised
<1>5. SoundInv'
  <2>1. \A t \in ToSet(todo') : GoodItem(t)
    BY <1>1 DEF SoundInv
  <2>2. \A q \in looked' : Recognised(q)
    BY <1>2, <1>4 DEF SoundInv
  <2>3. (\A t : GoodItem(t)' <=> GoodItem(t)) /\ \A q : Recognised(q)' <=> Recognised(q)
    BY SameWalk
  <2>4. QED
    BY <2>1, <2>2, <2>3 DEF SoundInv
<1>6. \A C, s : (Walked(C, s) => Walked(C, s)') /\ (Inited(C, s) => Inited(C, s)')
  <2>1. Inited(B, sym)'
    <3>1. Needed(B, sym)' = Needed(B, sym)
      BY SameWalk
    <3>2. QED
      BY <1>2, <3>1 DEF Inited
  <2>2. ASSUME NEW C, NEW s, Item = [step |-> "init", sym |-> s, path |-> C]
        PROVE  C = B /\ s = sym
    <3>1. Item.path = C /\ Item.sym = s
      BY <2>2
    <3>2. QED
      BY <3>1
  <2>3. \A C, s : Item # [step |-> "section", sym |-> s, path |-> C]
    BY <1>1
  <2>4. /\ \A C, s : Walked(C, s) => \/ Walked(C, s)'
                                     \/ Item = [step |-> "section", sym |-> s, path |-> C]
        /\ \A C, s : Inited(C, s) => \/ Inited(C, s)'
                                     \/ Item = [step |-> "init", sym |-> s, path |-> C]
    BY <1>2, StillPending
  <2>5. QED
    BY <2>1, <2>2, <2>3, <2>4
<1>7. ASSUME NEW C \in Seq(STRING), NEW s \in SectionWords, Append(C, s) \in looked',
             NEW v \in Names(C, s)
      PROVE  Inited(Append(C, v), s)' /\ \A s2 \in SectionWords : Walked(Append(C, v), s2)'
  <2>1. Last(Append(C, s)) = s
    BY AppendParts
  <2>2. Append(C, s) \in looked
    BY <1>2, <1>4, <1>7, <2>1
  <2>3. QED
    BY <1>6, <2>2 DEF CompleteInv
<1>8. CompleteInv'
  <2>1. \A C, s : Names(C, s)' = Names(C, s)
    BY SameWalk
  <2>2. QED
    BY <1>6, <1>7, <2>1 DEF CompleteInv
<1>9. QED
  BY <1>5, <1>8

WalkInv ==
  /\ <<>> \notin DOMAIN entry_map
  /\ pc \in {"options", "parse"} => looked = {}
  /\ pc \in {"configure", "report", "block"} => SoundInv /\ CompleteInv
  /\ pc \in {"report", "block"} => todo = <<>>
ReportInv == StartInv /\ WalkInv

LEMMA SameInv ==
  ASSUME SoundInv, CompleteInv, UNCHANGED <<entry_map, looked, todo>>
  PROVE  SoundInv' /\ CompleteInv'
<1>1. /\ \A t : GoodItem(t)' <=> GoodItem(t)
      /\ \A p : Recognised(p)' <=> Recognised(p)
      /\ \A B, sym : Names(B, sym)' = Names(B, sym)
      /\ \A B, sym : Needed(B, sym)' = Needed(B, sym)
  BY SameWalk
<1>2. SoundInv'
  BY <1>1 DEF SoundInv
<1>3. \A B, sym : (Walked(B, sym)' <=> Walked(B, sym)) /\ (Inited(B, sym)' <=> Inited(B, sym))
  BY <1>1 DEF Walked, Inited, Pending
<1>4. CompleteInv'
  BY <1>1, <1>3 DEF CompleteInv
<1>5. QED
  BY <1>2, <1>4

\* No line files anything under the empty path.
LEMMA LineFiles ==
  ASSUME StartInv, pc = "parse", <<>> \notin DOMAIN entry_map,
         NEW l \in Lines, NEW rest, NEW ok \in BOOLEAN, Line(l, rest, ok)
  PROVE  <<>> \notin DOMAIN entry_map' /\ UNCHANGED looked
<1>1. CASE Pair(l, rest, ok)
  <2>1. UNCHANGED looked /\ l.kind = "pair" /\ ok = (Ends(l) <= Len(curlyBlock_lst))
    BY <1>1 DEF Pair
  <2>2. CASE ~ok
    BY <1>1, <2>1, <2>2 DEF Pair, readVars
  <2>3. CASE ok
    <3> DEFINE blocks == Closed(Ends(l))
               path == blocks \o l.sym
               v == [str |-> l.val, serial_no |-> serial_no_seq']
    <3>1. entry_map' = Entry(entry_map, path) \/ entry_map' = AppendValue(entry_map, path, v)
      BY <1>1, <2>3 DEF Pair
    <3> HIDE DEF v
    <3>2. DOMAIN entry_map' = DOMAIN entry_map \cup {path}
      BY <3>1 DEF AppendValue, Entry
    <3>3. l.sym \in Seq(STRING) /\ Len(l.sym) = 1
      BY <2>1 DEF Lines
    <3>4. blocks \in Seq(STRING)
      <4>1. Ends(l) \in 0 .. Len(curlyBlock_lst) /\ curlyBlock_lst \in Seq(STRING)
        <5>1. curlyBlock_lst \in Seq(STRING)
          BY DEF StartInv, MapInv, CfgTypeOK
        <5>2. Ends(l) \in {0, 1, 2} /\ Len(curlyBlock_lst) \in Nat
          BY <5>1, EndsIs, LenProperties
        <5>3. Ends(l) <= Len(curlyBlock_lst)
          BY <2>1, <2>3
        <5>4. QED
          BY <5>1, <5>2, <5>3
      <4>2. QED
        BY <4>1, ClosedTyped
    <3> HIDE DEF blocks
    <3>5. Len(path) # 0
      <4>1. Len(path) = Len(blocks) + Len(l.sym) /\ Len(blocks) \in Nat
        BY <3>3, <3>4, ConcatProperties, LenProperties
      <4>2. QED
        BY <3>3, <4>1
    <3>6. path # <<>>
      BY <3>5, EmptySeq
    <3>7. QED
      BY <2>1, <3>2, <3>6
  <2>4. QED
    BY <2>2, <2>3
<1>2. CASE Replace(l, rest, ok)
  <2>1. UNCHANGED looked /\ DOMAIN entry_map' = DOMAIN entry_map
    BY <1>2 DEF Replace, queryVars
  <2>2. QED
    BY <2>1
<1>3. CASE Close(l, rest, ok) \/ Include(l, rest, ok) \/ Broken(l, ok)
  BY <1>3 DEF Close, Include, Broken, readVars, queryVars, cfgVars
<1>4. QED
  BY <1>1, <1>2, <1>3 DEF Line

LEMMA ReportInit == Init => ReportInv
<1> SUFFICES ASSUME Init PROVE ReportInv
  OBVIOUS
<1>1. pc = "options" /\ entry_map = <<>> /\ looked = {}
  BY DEF Init, CfgInit
<1>2. DOMAIN entry_map = {}
  BY <1>1
<1>3. QED
  BY <1>1, <1>2, StartInit DEF ReportInv, WalkInv

LEMMA OptionsWalk == ReportInv /\ (GetOption \/ OptionsDone) => WalkInv'
<1> SUFFICES ASSUME ReportInv, GetOption \/ OptionsDone PROVE WalkInv'
  OBVIOUS
<1>1. /\ UNCHANGED <<entry_map, looked>> /\ pc = "options"
      /\ pc' \in {"options", "parse", "failed", "stopped"}
  BY DEF GetOption, OptionsDone, Goto, cfgVars
<1>2. QED
  BY <1>1 DEF ReportInv, WalkInv

LEMMA ReadWalk == ReportInv /\ (ReadLine \/ SkipLine) => WalkInv'
<1> SUFFICES ASSUME ReportInv, ReadLine \/ SkipLine PROVE WalkInv'
  OBVIOUS
<1>1. /\ pc = "parse" /\ pc' \in {"parse", "failed"} /\ StartInv
      /\ <<>> \notin DOMAIN entry_map /\ looked = {}
  BY DEF ReadLine, SkipLine, Goto, ReportInv, WalkInv
<1>2. CASE ReadLine
  <2>1. PICK next \in NextLines, ok \in BOOLEAN : Line(next[1], next[2], ok)
    BY <1>2 DEF ReadLine
  <2>2. next[1] \in Lines
    BY <1>1, <2>1, NextLineTyped, DeviantAssumption DEF NextLines, StartInv, MapInv
  <2>3. <<>> \notin DOMAIN entry_map' /\ UNCHANGED looked
    BY <1>1, <2>1, <2>2, LineFiles
  <2>4. QED
    BY <1>1, <2>3 DEF WalkInv
<1>3. CASE SkipLine
  <2>1. UNCHANGED <<entry_map, looked>>
    BY <1>3 DEF SkipLine, readVars, queryVars
  <2>2. QED
    BY <1>1, <2>1 DEF WalkInv
<1>4. QED
  BY <1>2, <1>3

LEMMA FileEndsWalk == ReportInv /\ FileEnds => WalkInv'
<1> SUFFICES ASSUME ReportInv, FileEnds PROVE WalkInv'
  OBVIOUS
<1>1. /\ pc = "parse" /\ pc' \in {"parse", "failed", "configure"}
      /\ UNCHANGED <<entry_map, looked>> /\ looked = {} /\ <<>> \notin DOMAIN entry_map
      /\ pc' = "configure" => todo' = Sections(<<>>)
  <2>1. PICK ok \in BOOLEAN :
          /\ EndOfFile(ok)
          /\ Goto(IF ~ok THEN "failed" ELSE IF fhs' = <<>> THEN "configure" ELSE "parse")
    BY DEF FileEnds
  <2>2. UNCHANGED <<entry_map, looked>>
    BY <2>1 DEF EndOfFile, readVars, queryVars
  <2>3. pc' \in {"parse", "failed", "configure"} /\ (pc' = "configure" => fhs' = <<>>)
    BY <2>1 DEF Goto
  <2>4. QED
    BY <2>2, <2>3 DEF FileEnds, ReportInv, WalkInv
<1>2. CASE pc' = "configure"
  <2> DEFINE Top(s) == [step |-> "section", sym |-> s, path |-> <<>>]
  <2>1. ToSet(todo') = {Top(s) : s \in SectionWords}
    <3> DEFINE m == Top("MAX_OFFENSES")
               l == Top("LOGTYPE")
    <3>1. todo' = <<m, l>>
      BY <1>1, <1>2 DEF Sections
    <3>2. {Top(s) : s \in SectionWords} = {m, l}
      BY DEF SectionWords
    <3> HIDE DEF m, l
    <3>3. ToSet(<<m, l>>) = {m, l}
      BY DEF ToSet
    <3>4. QED
      BY <3>1, <3>2, <3>3
  <2>2. \A t : GoodItem(t)' <=> GoodItem(t)
    BY <1>1, SameWalk
  <2>3. \A t \in ToSet(todo') : GoodItem(t)
    <3>1. Visits(<<>>) > 0
      BY VisitsTop
    <3>2. QED
      BY <2>1, <3>1 DEF GoodItem
  <2>4. SoundInv'
    BY <1>1, <2>2, <2>3 DEF SoundInv
  <2>5. \A s \in SectionWords : Walked(<<>>, s)'
    BY <2>1 DEF Walked, Pending
  <2>6. CompleteInv'
    BY <1>1, <2>5 DEF CompleteInv
  <2>7. QED
    BY <1>1, <1>2, <2>4, <2>6 DEF WalkInv
<1>3. CASE pc' # "configure"
  BY <1>1, <1>3 DEF WalkInv
<1>4. QED
  BY <1>2, <1>3

\* A run that fails or crashes reports nothing.
LEMMA OverWalk ==
  ASSUME ReportInv, UNCHANGED entry_map, pc' \in {"failed", "crashed"}
  PROVE  WalkInv'
BY DEF ReportInv, WalkInv

LEMMA ConfigureWalk == ReportInv /\ Configure => WalkInv'
<1> SUFFICES ASSUME ReportInv, Configure PROVE WalkInv'
  OBVIOUS
<1>1. /\ StartInv /\ UNCHANGED entry_map /\ pc = "configure" /\ todo # <<>>
      /\ SoundInv /\ CompleteInv /\ <<>> \notin DOMAIN entry_map
  BY DEF Configure, WalkSection, InitMaxOff, InitLogType, LogTypeUnopened, Doing, readVars,
         ReportInv, WalkInv
<1>2. PICK B : B = Item.path
  OBVIOUS
<1>3. ASSUME NEW sym \in SectionWords, WalkSection(sym)
      PROVE  WalkInv'
  <2>1. PICK p : p = Append(B, sym)
    OBVIOUS
  <2>2. CASE Crashes({p})
    BY <1>1, <2>2, OverWalk DEF Crashes, Goto
  <2>3. CASE ~Crashes({p})
    <3>1. /\ todo' = WalkedList(B, sym)
          /\ Looked({p}) /\ UNCHANGED pc /\ Item.step = "section" /\ Item.sym = sym
      BY <1>2, <1>3, <2>1, <2>3 DEF WalkSection, Doing, WalkedList
    <3>2. SoundInv' /\ CompleteInv'
      BY <1>1, <1>2, <2>1, <3>1, SectionStep
    <3>3. QED
      BY <1>1, <3>1, <3>2 DEF WalkInv
  <2>4. QED
    BY <2>2, <2>3
<1>4. ASSUME NEW sym \in SectionWords, Item.step = "init", Item.sym = sym,
             Looked(Needed(B, sym)), todo' = Tail(todo), UNCHANGED pc
      PROVE  WalkInv'
  <2>1. SoundInv' /\ CompleteInv'
    BY <1>1, <1>2, <1>4, InitStep
  <2>2. QED
    BY <1>1, <1>4, <2>1 DEF WalkInv
<1>5. CASE InitMaxOff
  <2>1. Item.step = "init" /\ Item.sym = "MAX_OFFENSES" /\ "MAX_OFFENSES" \in SectionWords
    BY <1>5 DEF InitMaxOff, Doing, SectionWords
  <2>2. Needed(B, "MAX_OFFENSES") = {Append(B, "IP"), Append(B, "COUNTRY")}
    BY DEF Needed
  <2>3. \/ pc' \in {"failed", "crashed"}
        \/ Looked({Append(B, "IP"), Append(B, "COUNTRY")}) /\ todo' = Tail(todo) /\ UNCHANGED pc
    BY <1>2, <1>5 DEF InitMaxOff, Crashes, Goto
  <2>4. QED
    BY <1>1, <1>4, <2>1, <2>2, <2>3, OverWalk
<1>6. CASE InitLogType
  <2>1. Item.step = "init" /\ Item.sym = "LOGTYPE" /\ "LOGTYPE" \in SectionWords
    BY <1>6 DEF InitLogType, Doing, SectionWords
  <2>2. Needed(B, "LOGTYPE") = LogTypeSymbols(B)
    BY DEF Needed
  <2>3. \/ pc' \in {"failed", "crashed"}
        \/ Looked(LogTypeSymbols(B)) /\ todo' = Tail(todo) /\ UNCHANGED pc
    BY <1>2, <1>6 DEF InitLogType, Crashes, Goto
  <2>4. QED
    BY <1>1, <1>4, <2>1, <2>2, <2>3, OverWalk
<1>7. CASE LogTypeUnopened
  <2>1. pc' = "failed"
    BY <1>7 DEF LogTypeUnopened, Goto
  <2>2. QED
    BY <1>1, <2>1, OverWalk
<1>8. QED
  BY <1>3, <1>5, <1>6, <1>7 DEF Configure, SectionWords

LEMMA ConfiguredWalk == ReportInv /\ Configured => WalkInv'
<1> SUFFICES ASSUME ReportInv, Configured PROVE WalkInv'
  OBVIOUS
<1>1. /\ UNCHANGED <<entry_map, looked, todo>> /\ pc = "configure" /\ todo = <<>>
      /\ pc' \in {"report", "block", "stopped"}
      /\ SoundInv /\ CompleteInv /\ <<>> \notin DOMAIN entry_map
  BY DEF Configured, Goto, cfgVars, ReportInv, WalkInv
<1>2. SoundInv' /\ CompleteInv'
  BY <1>1, SameInv
<1>3. QED
  BY <1>1, <1>2 DEF WalkInv

LEMMA ReportNext == ReportInv /\ [Next]_vars => ReportInv'
<1> SUFFICES ASSUME ReportInv, [Next]_vars PROVE ReportInv'
  OBVIOUS
<1>1. StartInv'
  BY StartNext DEF ReportInv
<1>2. WalkInv'
  <2>1. CASE UNCHANGED vars
    <3>1. UNCHANGED <<pc, entry_map, looked, todo>>
      BY <2>1 DEF vars, cfgVars, mainVars
    <3>2. CASE pc \in {"configure", "report", "block"}
      <4>1. SoundInv' /\ CompleteInv'
        BY <3>1, <3>2, SameInv DEF ReportInv, WalkInv
      <4>2. QED
        BY <3>1, <4>1 DEF ReportInv, WalkInv
    <3>3. CASE pc \notin {"configure", "report", "block"}
      BY <3>1, <3>3 DEF ReportInv, WalkInv
    <3>4. QED
      BY <3>2, <3>3
  <2>2. CASE Next
    BY <2>2, OptionsWalk, ReadWalk, FileEndsWalk, ConfigureWalk, ConfiguredWalk DEF Next
  <2>3. QED
    BY <2>1, <2>2
<1>3. QED
  BY <1>1, <1>2 DEF ReportInv

\* What the next rests on: while the map is walked, what has been looked up is of use,
\* and what is of use has been looked up or will be.
THEOREM ReportInvariant == Spec => []ReportInv
BY ReportInit, ReportNext, PTL DEF Spec

---------------------------------------------------------------------------
(* When nothing is left to be done, all that is of use has been looked up. *)

LEMMA NothingPending ==
  ASSUME todo = <<>>
  PROVE  \A step, B, sym : ~Pending(step, B, sym)
<1>1. ToSet(todo) = {}
  <2>1. DOMAIN todo = {}
    OBVIOUS
  <2>2. QED
    BY <2>1 DEF ToSet
<1>2. QED
  BY <1>1 DEF Pending

LEMMA AllWalked ==
  ASSUME CfgTypeOK, CompleteInv, todo = <<>>, NEW B \in Seq(STRING), Visits(B) > 0
  PROVE  \A sym \in SectionWords : Walked(B, sym)
<1> DEFINE bad == {C \in Seq(STRING) : Visits(C) > 0 /\ ~ \A sym \in SectionWords : Walked(C, sym)}
           lens == {Len(C) : C \in bad}
<1> SUFFICES ASSUME bad # {} PROVE FALSE
  OBVIOUS
<1>1. \A C \in Seq(STRING) : Len(C) \in Nat
  BY LenProperties
<1>2. PICK C \in bad : \A E \in bad : Len(C) <= Len(E)
  <2>1. lens \in SUBSET Nat /\ lens # {}
    BY <1>1
  <2> HIDE DEF lens
  <2>2. PICK m \in lens : \A k \in lens : m <= k
    BY <2>1, Least
  <2>3. QED
    BY <2>2 DEF lens
<1>3. C \in Seq(STRING) /\ Visits(C) > 0 /\ ~ \A sym \in SectionWords : Walked(C, sym)
  OBVIOUS
<1>4. C # <<>>
  BY <1>3 DEF CompleteInv
<1>5. PICK A \in Seq(STRING), v \in STRING : C = Append(A, v)
  BY <1>3, <1>4, PathParts
<1>6. Len(C) = Len(A) + 1 /\ Len(A) \in Nat
  BY <1>5, AppendParts
<1>7. PICK sym \in SectionWords : Visits(A) > 0 /\ v \in Names(A, sym)
  BY <1>3, <1>5, VisitsBlock
<1>8. Append(A, sym) \in DOMAIN entry_map
  BY <1>7, NamesFiled
<1>9. A \notin bad
  BY <1>2, <1>6
<1>10. Walked(A, sym)
  BY <1>7, <1>9
<1>11. Append(A, sym) \in looked
  BY <1>8, <1>10, NothingPending DEF Walked
<1>12. \A s \in SectionWords : Walked(C, s)
  BY <1>5, <1>7, <1>11 DEF CompleteInv
<1>13. QED
  BY <1>3, <1>12

LEMMA AllInited ==
  ASSUME CfgTypeOK, CompleteInv, todo = <<>>, NEW B \in Seq(STRING), NEW sym \in SectionWords,
         SectionVisits(B, sym) > 0
  PROVE  Needed(B, sym) \cap DOMAIN entry_map \subseteq looked
<1>1. B # <<>>
  BY SectionVisitsTop
<1>2. PICK A \in Seq(STRING), v \in STRING : B = Append(A, v)
  BY <1>1, PathParts
<1>3. Visits(A) > 0 /\ v \in Names(A, sym)
  BY <1>2, SectionVisitsIs
<1>4. Append(A, sym) \in DOMAIN entry_map
  BY <1>3, NamesFiled
<1>5. Append(A, sym) \in looked
  BY <1>3, <1>4, AllWalked, NothingPending DEF Walked
<1>6. Inited(B, sym)
  BY <1>2, <1>3, <1>5 DEF CompleteInv
<1>7. QED
  BY <1>6, NothingPending DEF Inited

LEMMA RecognisedLooked ==
  ASSUME CfgTypeOK, CompleteInv, todo = <<>>, NEW p \in DOMAIN entry_map, p # <<>>, Recognised(p)
  PROVE  p \in looked
<1>1. p \in Seq(STRING)
  BY DEF CfgTypeOK
<1>2. PICK B \in Seq(STRING), w \in STRING : p = Append(B, w)
  BY <1>1, PathParts
<1>3. CASE w \in SectionWords /\ Visits(B) > 0
  BY <1>2, <1>3, AllWalked, NothingPending DEF Walked
<1>4. CASE w \in {"IP", "COUNTRY"} /\ SectionVisits(B, "MAX_OFFENSES") > 0
  <2>1. p \in Needed(B, "MAX_OFFENSES")
    BY <1>2, <1>4 DEF Needed
  <2>2. QED
    BY <1>4, <2>1, AllInited DEF SectionWords
<1>5. ASSUME NEW C \in Seq(STRING), SectionVisits(C, "LOGTYPE") > 0, p \in Needed(C, "LOGTYPE")
      PROVE  p \in looked
  BY <1>5, AllInited DEF SectionWords
<1>6. CASE w \in {"DIR", "PREFIX", "TIMESTAMP", "TARGET"} /\ SectionVisits(B, "LOGTYPE") > 0
  BY <1>2, <1>5, <1>6, NeededByLogType
<1>7. CASE Len(B) > 1 /\ SectionVisits(Front(B), "LOGTYPE") > 0
  <2>1. B # <<>>
    BY <1>7, EmptySeq
  <2>2. Front(B) \in Seq(STRING) /\ Last(B) \in STRING /\ B = Append(Front(B), Last(B))
    BY <2>1, PathParts
  <2>3. PICK C, name : C = Front(B) /\ name = Last(B)
    OBVIOUS
  <2>4. C \in Seq(STRING) /\ name \in STRING /\ p = Append(Append(C, name), w)
    BY <1>2, <2>2, <2>3
  <2>5. CASE w \in {"REGEX", "STRPTIME", "FLAGS"} /\ IsSuffix(<<name>>, Strs(Append(C, "TIMESTAMP")))
    <3>1. LastValue(Append(C, "TIMESTAMP")) = name /\ name # NULL
      BY <2>4, <2>5, LastValueIs, GarbageAssumption
    <3>2. p \in Needed(C, "LOGTYPE")
      BY <2>4, <2>5, <3>1, NeededByLogType
    <3>3. QED
      BY <1>5, <1>7, <2>3, <2>4, <3>2
  <2>6. CASE w \in {"SEVERITY", "REGEX"} /\ name \in Names(C, "TARGET")
    <3>1. p \in Needed(C, "LOGTYPE")
      BY <2>4, <2>6, NeededByLogType
    <3>2. QED
      BY <1>5, <1>7, <2>3, <2>4, <3>1
  <2>7. QED
    BY <1>2, <1>3, <1>4, <1>6, <2>3, <2>5, <2>6, RecognisedIs
<1>8. QED
  BY <1>2, <1>3, <1>4, <1>6, <1>7, RecognisedIs

LEMMA ReportInvImplies == ReportInv => UnrecognisedReported
<1> SUFFICES ASSUME ReportInv, Done PROVE Unused = {p \in DOMAIN entry_map : ~Recognised(p)}
  BY DEF UnrecognisedReported
<1>1. CfgTypeOK /\ SoundInv /\ CompleteInv /\ todo = <<>> /\ <<>> \notin DOMAIN entry_map
  BY DEF ReportInv, StartInv, MapInv, WalkInv, Done
<1>2. ASSUME NEW p \in DOMAIN entry_map
      PROVE  p \in looked <=> Recognised(p)
  BY <1>1, RecognisedLooked DEF SoundInv
<1>3. QED
  BY <1>2 DEF Unused

\* For any files: what -v prints is the symbols that stand where the program has no
\* use for them, and all of those; however the blocks nest, LOGTYPE_init() and
\* MAXOFF_init() look up what they use for each block there is, and nothing else.
THEOREM UnrecognisedCorrect == Spec => []UnrecognisedReported
BY ReportInvariant, ReportInvImplies, PTL

---------------------------------------------------------------------------
(* Bits.                                                                   *)

LEMMA Pow2Is ==
  /\ Pow2[0] = 1
  /\ \A n \in 0 .. Width : Pow2[n] \in Nat /\ Pow2[n] > 0
  /\ \A n \in 1 .. Width : Pow2[n] = Pow2[n - 1] * 2
<1> DEFINE Is(g) == g = [n \in 0 .. Width |-> IF n = 0 THEN 1 ELSE g[n - 1] * 2]
           w == [k \in 1 .. Width |-> 2]
<1>1. Width \in Nat
  BY WidthAssumption
<1>2. PICK h : IsProduct(h, Width, w)
  BY <1>1, ProductExists
<1>3. Is(h)
  <2>1. \A n \in 0 .. Width : n # 0 => w[n] = 2
    BY <1>1
  <2> HIDE DEF w
  <2>2. QED
    BY <1>2, <2>1 DEF IsProduct
<1>4. Pow2 = CHOOSE g : Is(g)
  BY Zenon DEF Pow2
<1> HIDE DEF Is
<1>5. Is(Pow2)
  BY <1>3, <1>4, Zenon
<1>6. \A n \in 0 .. Width : Pow2[n] = IF n = 0 THEN 1 ELSE Pow2[n - 1] * 2
  BY <1>5 DEF Is
<1> DEFINE bad == {n \in 0 .. Width : ~(Pow2[n] \in Nat /\ Pow2[n] > 0)}
<1>7. bad = {}
  <2> SUFFICES ASSUME bad # {} PROVE FALSE
    OBVIOUS
  <2>1. PICK k \in bad : \A j \in bad : k <= j
    <3>1. bad \in SUBSET Nat
      BY <1>1
    <3> HIDE DEF bad
    <3>2. QED
      BY <3>1, Least
  <2>2. k \in 0 .. Width /\ k # 0
    BY <1>6
  <2>3. k - 1 \in 0 .. Width /\ k - 1 \notin bad
    BY <1>1, <2>1, <2>2
  <2>4. Pow2[k] = Pow2[k - 1] * 2 /\ Pow2[k - 1] \in Nat /\ Pow2[k - 1] > 0
    BY <1>6, <2>2, <2>3
  <2>5. QED
    BY <2>4
<1>8. QED
  BY <1>1, <1>6, <1>7

LEMMA Pow2Sum ==
  ASSUME NEW m \in 0 .. Width, NEW n \in 0 .. Width, m + n <= Width
  PROVE  Pow2[m + n] = Pow2[m] * Pow2[n]
<1> DEFINE bad == {k \in 0 .. n : Pow2[m + k] # Pow2[m] * Pow2[k]}
<1> SUFFICES ASSUME bad # {} PROVE FALSE
  <2>1. n \in 0 .. n
    BY WidthAssumption
  <2>2. QED
    BY <2>1
<1>1. Width \in Nat
  BY WidthAssumption
<1>2. PICK k \in bad : \A j \in bad : k <= j
  <2>1. bad \in SUBSET Nat
    BY <1>1
  <2> HIDE DEF bad
  <2>2. QED
    BY <2>1, Least
<1>3. k \in 0 .. n /\ Pow2[m + k] # Pow2[m] * Pow2[k]
  OBVIOUS
<1>4. /\ Pow2[0] = 1
      /\ \A i \in 0 .. Width : Pow2[i] \in Nat
      /\ \A i \in 1 .. Width : Pow2[i] = Pow2[i - 1] * 2
  BY Pow2Is
<1>5. k # 0
  <2>1. m + 0 = m /\ Pow2[m] * 1 = Pow2[m]
    BY <1>1, <1>4
  <2>2. QED
    BY <1>3, <1>4, <2>1
<1>6. k - 1 \in 0 .. n /\ k - 1 \notin bad
  BY <1>1, <1>2, <1>3, <1>5
<1>7. Pow2[m + (k - 1)] = Pow2[m] * Pow2[k - 1]
  BY <1>6
<1>8. /\ m + k \in 1 .. Width /\ (m + k) - 1 = m + (k - 1) /\ m + (k - 1) \in 0 .. Width
      /\ k \in 1 .. Width /\ k - 1 \in 0 .. Width
  BY <1>1, <1>3, <1>5
<1>9. Pow2[m + k] = (Pow2[m] * Pow2[k - 1]) * 2 /\ Pow2[k] = Pow2[k - 1] * 2
  BY <1>4, <1>7, <1>8
<1>10. \A a, b \in Nat : (a * b) * 2 = a * (b * 2)
  OBVIOUS
<1>11. QED
  BY <1>3, <1>4, <1>8, <1>9, <1>10

\* The quotient and the rest, and that there are no others.
LEMMA DivisionIs ==
  ASSUME NEW x \in Nat, NEW d \in Nat, NEW q \in Nat, NEW r \in 0 .. d - 1, x = q * d + r
  PROVE  x \div d = q /\ x % d = r
<1>1. x \div d = q
  OBVIOUS
<1>2. x % d = r
  OBVIOUS
<1>3. QED
  BY <1>1, <1>2

LEMMA Division ==
  ASSUME NEW x \in Nat, NEW d \in Nat, d > 0
  PROVE  \E q \in Nat, r \in 0 .. d - 1 : x = q * d + r /\ x \div d = q /\ x % d = r
<1> DEFINE Is(y) == \E q \in Nat, r \in 0 .. d - 1 : y = q * d + r
           bad == {y \in Nat : ~Is(y)}
<1>1. bad = {}
  <2> SUFFICES ASSUME bad # {} PROVE FALSE
    OBVIOUS
  <2>1. PICK k \in bad : \A j \in bad : k <= j
    <3> HIDE DEF Is
    <3>1. bad \in SUBSET Nat
      OBVIOUS
    <3> HIDE DEF bad
    <3>2. QED
      BY <3>1, Least
  <2>2. k \in Nat /\ ~Is(k)
    OBVIOUS
  <2>3. k >= d
    <3>1. k = 0 * d + k
      BY <2>2
    <3>2. QED
      BY <2>2, <3>1
  <2>4. k - d \in Nat /\ Is(k - d)
    <3>1. k - d \in Nat /\ k - d < k
      BY <2>2, <2>3
    <3> HIDE DEF Is
    <3>2. QED
      BY <2>1, <2>2, <3>1
  <2>5. PICK q \in Nat, r \in 0 .. d - 1 : k - d = q * d + r
    BY <2>4
  <2>6. k = (q + 1) * d + r
    BY <2>2, <2>5
  <2>7. q + 1 \in Nat /\ r \in 0 .. d - 1
    BY <2>5
  <2>8. QED
    BY <2>2, <2>6, <2>7
<1>2. PICK q \in Nat, r \in 0 .. d - 1 : x = q * d + r
  BY <1>1
<1>3. QED
  BY <1>2, DivisionIs

LEMMA DivideAgain ==
  ASSUME NEW x \in Nat, NEW d \in Nat, d > 0
  PROVE  x \div (d * 2) = (x \div 2) \div d
<1>1. PICK y \in Nat, s \in 0 .. 1 : x = y * 2 + s /\ x \div 2 = y
  <2>1. 2 \in Nat /\ 2 > 0 /\ 2 - 1 = 1
    OBVIOUS
  <2>2. QED
    BY <2>1, Division
<1>2. PICK q \in Nat, r \in 0 .. d - 1 : y = q * d + r /\ y \div d = q
  BY Division
<1>3. x = q * (d * 2) + (r * 2 + s)
  <2>1. (q * d + r) * 2 + s = q * (d * 2) + (r * 2 + s)
    OBVIOUS
  <2>2. QED
    BY <1>1, <1>2, <2>1
<1>4. d * 2 \in Nat /\ r * 2 + s \in 0 .. d * 2 - 1
  OBVIOUS
<1>5. x \div (d * 2) = q
  BY <1>3, <1>4, DivisionIs
<1>6. QED
  BY <1>1, <1>2, <1>5

\* Numbers with the same bits are the same.
LEMMA SameBits ==
  ASSUME NEW n \in 0 .. Width, NEW x \in 0 .. Pow2[n] - 1, NEW y \in 0 .. Pow2[n] - 1,
         \A b \in 0 .. n - 1 : HasBit(x, b) <=> HasBit(y, b)
  PROVE  x = y
<1> DEFINE Same(m, u, v) == \A b \in 0 .. m - 1 : HasBit(u, b) <=> HasBit(v, b)
           Unique(m) == \A u, v \in 0 .. Pow2[m] - 1 : Same(m, u, v) => u = v
           bad == {m \in 0 .. Width : ~Unique(m)}
<1>1. Width \in Nat
  BY WidthAssumption
<1>2. /\ Pow2[0] = 1 /\ \A m \in 0 .. Width : Pow2[m] \in Nat /\ Pow2[m] > 0
      /\ \A m \in 1 .. Width : Pow2[m] = Pow2[m - 1] * 2
  BY Pow2Is
<1>3. bad = {}
  <2> SUFFICES ASSUME bad # {} PROVE FALSE
    OBVIOUS
  <2>1. PICK k \in bad : \A j \in bad : k <= j
    <3>1. bad \in SUBSET Nat
      BY <1>1
    <3> HIDE DEF bad
    <3>2. QED
      BY <3>1, Least
  <2>2. k \in 0 .. Width /\ ~Unique(k)
    OBVIOUS
  <2>3. PICK u, v \in 0 .. Pow2[k] - 1 : Same(k, u, v) /\ u # v
    BY <2>2
  <2>4. k # 0
    BY <1>2, <2>3
  <2>5. k - 1 \in 0 .. Width /\ k - 1 \notin bad
    BY <1>1, <2>1, <2>2, <2>4
  <2>6. Unique(k - 1)
    BY <2>5
  <2> HIDE DEF bad
  <2>7. \A z \in 0 .. Pow2[k] - 1 :
          \E q \in 0 .. Pow2[k - 1] - 1, r \in 0 .. 1 :
            z = q * 2 + r /\ z \div 2 = q /\ z % 2 = r
    <3> DEFINE p == Pow2[k - 1]
    <3>1. Pow2[k] = p * 2 /\ p \in Nat
      BY <1>1, <1>2, <2>2, <2>4, <2>5
    <3> HIDE DEF p
    <3> SUFFICES ASSUME NEW z \in 0 .. Pow2[k] - 1
                 PROVE  \E q \in 0 .. p - 1, r \in 0 .. 1 :
                          z = q * 2 + r /\ z \div 2 = q /\ z % 2 = r
      BY DEF p
    <3>2. z \in Nat /\ z < p * 2
      BY <3>1
    <3>3. PICK q \in Nat, r \in 0 .. 1 : z = q * 2 + r /\ z \div 2 = q /\ z % 2 = r
      <4>1. 2 \in Nat /\ 2 > 0 /\ 2 - 1 = 1
        OBVIOUS
      <4>2. QED
        BY <3>2, <4>1, Division
    <3>4. q \in 0 .. p - 1
      BY <3>1, <3>2, <3>3
    <3>5. QED
      BY <3>3, <3>4
  <2>8. \A z \in 0 .. Pow2[k] - 1 : HasBit(z, 0) <=> z % 2 = 1
    <3>1. \A z \in Nat : z \div 1 = z
      OBVIOUS
    <3>2. QED
      BY <1>2, <2>2, <3>1 DEF HasBit
  <2>9. ASSUME NEW z \in 0 .. Pow2[k] - 1, NEW b \in 0 .. (k - 1) - 1
        PROVE  HasBit(z, b + 1) <=> HasBit(z \div 2, b)
    <3>1. b + 1 \in 1 .. Width /\ (b + 1) - 1 = b /\ b \in 0 .. Width
      BY <1>1, <2>2
    <3>2. Pow2[b + 1] = Pow2[b] * 2 /\ Pow2[b] \in Nat /\ Pow2[b] > 0 /\ z \in Nat
      BY <1>2, <2>2, <3>1
    <3>3. z \div (Pow2[b] * 2) = (z \div 2) \div Pow2[b]
      BY <3>2, DivideAgain
    <3>4. QED
      BY <3>2, <3>3 DEF HasBit
  <2>10. u % 2 = v % 2
    <3>1. 0 \in 0 .. k - 1
      BY <2>2, <2>4
    <3>2. HasBit(u, 0) <=> HasBit(v, 0)
      BY <2>3, <3>1
    <3>3. QED
      BY <2>3, <2>7, <2>8, <3>2
  <2>11. Same(k - 1, u \div 2, v \div 2)
    <3>1. \A b \in 0 .. (k - 1) - 1 : b + 1 \in 0 .. k - 1
      BY <2>2
    <3>2. QED
      BY <2>3, <2>9, <3>1
  <2>12. u \div 2 = v \div 2
    <3>1. u \div 2 \in 0 .. Pow2[k - 1] - 1 /\ v \div 2 \in 0 .. Pow2[k - 1] - 1
      BY <2>3, <2>7
    <3>2. QED
      BY <2>6, <2>11, <3>1
  <2>13. QED
    BY <2>3, <2>7, <2>10, <2>12
<1>4. Unique(n)
  BY <1>3
<1>5. QED
  BY <1>4

\* To add what is below a bit of the other sets the bits of both.
LEMMA BitsOfSum ==
  ASSUME NEW k \in 0 .. Width, NEW u \in Nat, NEW i \in 0 .. Pow2[k] - 1,
         NEW b \in 0 .. Width - 1
  PROVE  HasBit(u * Pow2[k] + i, b) <=> HasBit(u * Pow2[k], b) \/ HasBit(i, b)
<1>1. Width \in Nat /\ b \in 0 .. Width
  BY WidthAssumption
<1>2. /\ \A n \in 0 .. Width : Pow2[n] \in Nat /\ Pow2[n] > 0
      /\ \A n \in 1 .. Width : Pow2[n] = Pow2[n - 1] * 2
  BY Pow2Is
<1> DEFINE top == Pow2[k]
           bit == Pow2[b]
<1>3. top \in Nat /\ top > 0 /\ bit \in Nat /\ bit > 0 /\ i \in 0 .. top - 1
      /\ i \in Nat /\ u * top \in Nat
  BY <1>1, <1>2
<1>4. CASE b < k
  <2>1. k - b \in 1 .. Width /\ (k - b) - 1 \in 0 .. Width /\ b + (k - b) = k /\ b + (k - b) <= Width
        /\ k - b \in 0 .. Width
    BY <1>1, <1>4
  <2>2. Pow2[b + (k - b)] = Pow2[b] * Pow2[k - b]
    BY <1>1, <2>1, Pow2Sum
  <2>3. PICK e \in Nat : top = bit * (e * 2)
    <3>1. top = bit * (Pow2[(k - b) - 1] * 2)
      BY <1>2, <2>1, <2>2
    <3>2. QED
      BY <1>2, <2>1, <3>1
  <2> HIDE DEF top, bit
  <2>4. PICK q \in Nat, r \in 0 .. bit - 1 : i = q * bit + r /\ i \div bit = q
    BY <1>3, Division
  <2>5. u * top = ((u * e) * 2) * bit + 0
    BY <1>3, <2>3
  <2>6. u * top + i = ((u * e) * 2 + q) * bit + r
    <3>1. ((u * e) * 2) * bit + (q * bit + r) = ((u * e) * 2 + q) * bit + r
      BY <1>3
    <3>2. QED
      BY <1>3, <2>4, <2>5, <3>1
  <2>7. u * e \in Nat /\ (u * e) * 2 \in Nat /\ (u * e) * 2 + q \in Nat /\ 0 \in 0 .. bit - 1
    BY <1>3
  <2>8. (u * top) \div bit = (u * e) * 2
    BY <1>3, <2>5, <2>7, DivisionIs
  <2>9. u * top + i \in Nat /\ (u * top + i) \div bit = (u * e) * 2 + q
    BY <1>3, <2>6, <2>7, DivisionIs
  <2>10. ((u * e) * 2) % 2 = 0 /\ ((u * e) * 2 + q) % 2 = q % 2
    <3>1. \A m \in Nat : (m * 2) % 2 = 0 /\ (m * 2 + q) % 2 = q % 2
      OBVIOUS
    <3>2. QED
      BY <2>7, <3>1
  <2>11. QED
    BY <2>4, <2>8, <2>9, <2>10 DEF HasBit, top, bit
<1>5. CASE b >= k
  <2>1. b - k \in 0 .. Width /\ k + (b - k) = b /\ k + (b - k) <= Width
    BY <1>1, <1>5
  <2>2. Pow2[k + (b - k)] = Pow2[k] * Pow2[b - k]
    BY <1>1, <2>1, Pow2Sum
  <2>3. PICK c \in Nat : bit = top * c /\ c > 0
    BY <1>2, <2>1, <2>2
  <2> HIDE DEF top, bit
  <2>4. PICK q \in Nat, r \in 0 .. c - 1 : u = q * c + r
    <3>1. c \in Nat /\ c > 0 /\ u \in Nat
      BY <2>3
    <3>2. QED
      BY <3>1, Division
  <2>5. ASSUME NEW j \in 0 .. top - 1
        PROVE  (u * top + j) \div bit = q
    <3>1. u * top + j = q * bit + (r * top + j)
      <4>1. (q * c + r) * top + j = q * (top * c) + (r * top + j)
        BY <1>3
      <4>2. QED
        BY <2>3, <2>4, <4>1
    <3>2. r * top + j \in 0 .. bit - 1
      <4>1. (r + 1) * top <= c * top
        BY <1>3
      <4>2. r * top + j < (r + 1) * top /\ r * top \in Nat
        BY <1>3
      <4>3. c * top = bit
        BY <1>3, <2>3
      <4>4. QED
        BY <1>3, <4>1, <4>2, <4>3
    <3> DEFINE s == r * top + j
               x == u * top + j
    <3>3. x \in Nat /\ s \in 0 .. bit - 1 /\ x = q * bit + s
      BY <1>3, <3>1, <3>2
    <3> HIDE DEF s, x
    <3>4. x \div bit = q
      BY <1>3, <3>3, DivisionIs
    <3>5. QED
      BY <3>4 DEF x
  <2>6. (u * top) \div bit = q
    <3>1. 0 \in 0 .. top - 1 /\ u * top + 0 = u * top
      BY <1>3
    <3>2. QED
      BY <2>5, <3>1
  <2>7. i \div bit = 0
    <3>1. top <= bit
      BY <1>3, <2>3
    <3>2. i = 0 * bit + i /\ i \in 0 .. bit - 1
      BY <1>3, <3>1
    <3>3. QED
      BY <1>3, <3>2, DivisionIs
  <2>8. 0 % 2 = 0
    OBVIOUS
  <2>9. QED
    BY <1>3, <2>5, <2>6, <2>7, <2>8 DEF HasBit, top, bit
<1>6. QED
  BY <1>1, <1>4, <1>5

\* What is or'ed with the net is added to it.
LEMMA OrIsSum ==
  ASSUME NEW k \in 0 .. Width, NEW u \in Nat, NEW i \in 0 .. Pow2[k] - 1,
         NEW y \in 0 .. Pow2[Width] - 1, u * Pow2[k] + i < Pow2[Width]
  PROVE  IsOr(y, u * Pow2[k], i) <=> y = u * Pow2[k] + i
<1> DEFINE s == u * Pow2[k] + i
<1>1. Width \in Nat /\ Width \in 0 .. Width
  BY WidthAssumption
<1>2. Pow2[k] \in Nat /\ Pow2[Width] \in Nat
  BY <1>1, Pow2Is
<1>3. s \in 0 .. Pow2[Width] - 1
  <2>1. u * Pow2[k] \in Nat
    BY <1>2
  <2>2. QED
    BY <1>2, <2>1
<1>4. \A b \in 0 .. Width - 1 : HasBit(s, b) <=> HasBit(u * Pow2[k], b) \/ HasBit(i, b)
  BY BitsOfSum
<1> HIDE DEF s
<1>5. IsOr(y, u * Pow2[k], i) <=> \A b \in 0 .. Width - 1 : HasBit(y, b) <=> HasBit(s, b)
  BY <1>4 DEF IsOr
<1>6. (\A b \in 0 .. Width - 1 : HasBit(y, b) <=> HasBit(s, b)) => y = s
  BY <1>1, <1>3, SameBits
<1>7. QED
  BY <1>5, <1>6 DEF s

\* The net of a block, which lies within the addresses, and how many it stands for.
LEMMA NetIs ==
  ASSUME NEW spec, spec \in [kind : {"cidr"}, base : 0 .. Pow2[Width] - 1, bits : Nat],
         spec.bits >= MinBits, spec.bits < Width
  PROVE  /\ Width - spec.bits \in 0 .. Width
         /\ \E u \in Nat : /\ Net(spec) = u * Pow2[Width - spec.bits]
                           /\ u * Pow2[Width - spec.bits] + Pow2[Width - spec.bits] <= Pow2[Width]
         /\ \A shifts \in BOOLEAN : NAddr(spec.bits, shifts) = Pow2[Width - spec.bits] - 1
<1> DEFINE n == spec.bits
           k == Width - n
           base == spec.base
<1>1. /\ Width \in Nat /\ n \in Nat /\ n \in 0 .. Width /\ k \in 0 .. Width /\ n + k = Width
      /\ n < Width /\ k < Width /\ n + k <= Width /\ base \in 0 .. Pow2[Width] - 1
  BY WidthAssumption
<1>2. \A m \in 0 .. Width : Pow2[m] \in Nat /\ Pow2[m] > 0
  BY Pow2Is
<1>3. Pow2[Width] = Pow2[n] * Pow2[k]
  BY <1>1, Pow2Sum
<1>4. n % Width = n /\ k % Width = k
  <2>1. \A m \in 0 .. Width - 1 : m = 0 * Width + m /\ m \in Nat
    BY <1>1
  <2>2. 0 \in Nat
    OBVIOUS
  <2> HIDE DEF n, k
  <2>3. n \in 0 .. Width - 1 /\ k \in 0 .. Width - 1
    BY <1>1
  <2>4. QED
    BY <1>1, <2>1, <2>2, <2>3, DivisionIs
<1> DEFINE top == Pow2[Width]
           ps == Pow2[n]
           pk == Pow2[k]
<1>5. Net(spec) = base - (base % pk)
  BY <1>4 DEF Net
<1>6. \A shifts \in BOOLEAN : NAddr(n, shifts) = (top - 1) \div ps
  <2> HIDE DEF n
  <2>1. ~(n >= Width)
    BY <1>1
  <2>2. QED
    BY <1>4, <2>1 DEF NAddr
<1>7. ps \in Nat /\ ps > 0 /\ pk \in Nat /\ pk > 0 /\ top = ps * pk /\ top \in Nat
  BY <1>1, <1>2, <1>3
<1>8. base \in Nat /\ base < top
  BY <1>1, <1>7
<1> HIDE DEF top, ps, pk, base
<1>9. PICK u \in Nat, r \in 0 .. pk - 1 : base = u * pk + r /\ base % pk = r
  BY <1>7, <1>8, Division
<1>10. base - (base % pk) = u * pk
  <2>1. u * pk \in Nat
    BY <1>7
  <2> DEFINE v == u * pk
  <2> HIDE DEF v
  <2>2. v \in Nat /\ base = v + r
    BY <1>9, <2>1 DEF v
  <2>3. base - r = v
    BY <2>2
  <2>4. QED
    BY <1>9, <2>3, Zenon DEF v
<1>11. u * pk + pk <= top
  <2>1. u < ps
    <3> SUFFICES ASSUME u >= ps PROVE FALSE
      BY <1>7
    <3>1. u * pk >= ps * pk
      BY <1>7
    <3>2. QED
      BY <1>7, <1>8, <1>9, <3>1
  <2>2. (u + 1) * pk <= ps * pk
    BY <1>7, <2>1
  <2>3. (u + 1) * pk = u * pk + pk
    BY <1>7
  <2>4. QED
    BY <1>7, <2>2, <2>3
<1>12. (top - 1) \div ps = pk - 1
  <2> DEFINE q == pk - 1
             r1 == ps - 1
             x == top - 1
  <2>1. q \in Nat /\ r1 \in 0 .. ps - 1
    BY <1>7
  <2>2. x = q * ps + r1
    <3>1. (pk - 1) * ps + (ps - 1) = ps * pk - 1
      BY <1>7
    <3>2. QED
      BY <1>7, <3>1
  <2>3. x \in Nat
    BY <1>7, <1>8
  <2> HIDE DEF q, r1, x
  <2>4. x \div ps = q
    BY <1>7, <2>1, <2>2, <2>3, DivisionIs
  <2>5. QED
    BY <2>4 DEF x, q
<1>13. QED
  BY <1>1, <1>5, <1>6, <1>10, <1>11, <1>12, Zenon DEF pk, top, n, k

\* The addresses that are put into the map for a value are those it covers.
LEMMA ListedIsCovers ==
  ASSUME NEW val \in DOMAIN IpSpecs, ~IsRefused(val),
         IsCidr(IpSpecs[val]) => IpSpecs[val].bits < Width,
         NEW shifts \in BOOLEAN, NEW a
  PROVE  a \in Listed(IpSpecs[val], shifts) <=> Covers(val, a)
<1> DEFINE spec == IpSpecs[val]
<1>1. CASE IsAddress(spec)
  <2>1. ~IsCidr(spec)
    BY <1>1 DEF IsAddress, IsCidr
  <2>2. QED
    BY <1>1, <2>1 DEF Listed, Covers
<1>2. CASE ~IsAddress(spec)
  <2>1. /\ spec \in [kind : {"cidr"}, base : 0 .. Pow2[Width] - 1, bits : Nat]
        /\ IsCidr(spec)
    BY <1>2, SpecsAssumption DEF IsAddress, IsCidr
  <2>2. MinBits \in Nat /\ Width \in Nat
    BY WidthAssumption
  <2>3. spec.bits >= MinBits /\ spec.bits < Width
    <3>1. ~(spec.bits < MinBits) /\ spec.bits \in Nat
      BY <2>1 DEF IsRefused
    <3>2. QED
      BY <2>1, <2>2, <3>1
  <2> DEFINE k == Width - spec.bits
             top == Pow2[Width]
             pk == Pow2[k]
             net == Net(spec)
  <2> HIDE DEF spec
  <2>4. PICK u \in Nat : net = u * pk /\ u * pk + pk <= top
    BY <2>1, <2>3, NetIs
  <2>5. k \in 0 .. Width /\ NAddr(spec.bits, shifts) = pk - 1
    BY <2>1, <2>3, NetIs
  <2>6. pk \in Nat /\ pk > 0 /\ top \in Nat /\ u * pk \in Nat
    <3>1. Width \in 0 .. Width
      BY <2>2
    <3> HIDE DEF k
    <3>2. pk \in Nat /\ pk > 0 /\ top \in Nat
      BY <2>5, <3>1, Pow2Is
    <3>3. QED
      BY <3>2
  <2>7. \A y \in 0 .. top - 1, i \in 0 .. pk - 1 - 1 : IsOr(y, net, i) <=> y = net + i
    <3> SUFFICES ASSUME NEW y \in 0 .. top - 1, NEW i \in 0 .. pk - 1 - 1
                 PROVE  IsOr(y, net, i) <=> y = net + i
      OBVIOUS
    <3> HIDE DEF k
    <3>1. i \in 0 .. pk - 1
      BY <2>6
    <3>2. u * pk + i < top
      BY <2>4, <2>6, <3>1
    <3>3. IsOr(y, u * pk, i) <=> y = u * pk + i
      BY <2>5, <3>1, <3>2, OrIsSum
    <3>4. QED
      BY <2>4, <3>3
  <2>8. Listed(spec, shifts)
          = {Quads[z + 1] : z \in {y \in 0 .. top - 1 : \E i \in 0 .. pk - 1 - 1 : IsOr(y, net, i)}}
    BY <1>2, <2>5 DEF Listed, spec
  <2>9. \A y : (y \in 0 .. top - 1 /\ \E i \in 0 .. pk - 1 - 1 : IsOr(y, net, i))
                 <=> y \in net .. net + pk - 2
    <3> SUFFICES ASSUME NEW y
                 PROVE  (y \in 0 .. top - 1 /\ \E i \in 0 .. pk - 1 - 1 : IsOr(y, net, i))
                          <=> y \in net .. net + pk - 2
      OBVIOUS
    <3> HIDE DEF pk, top, net
    <3>1. net \in Nat /\ net + pk <= top
      BY <2>4, <2>6
    <3>2. ASSUME y \in 0 .. top - 1, NEW i \in 0 .. pk - 1 - 1, IsOr(y, net, i)
          PROVE  y \in net .. net + pk - 2
      <4>1. y = net + i
        BY <2>7, <3>2
      <4>2. QED
        BY <2>6, <3>1, <4>1
    <3>3. ASSUME y \in net .. net + pk - 2
          PROVE  y \in 0 .. top - 1 /\ \E i \in 0 .. pk - 1 - 1 : IsOr(y, net, i)
      <4>1. y \in 0 .. top - 1 /\ y - net \in 0 .. pk - 1 - 1 /\ y = net + (y - net)
        BY <2>6, <3>1, <3>3
      <4>2. QED
        BY <2>7, <4>1
    <3>4. QED
      BY <3>2, <3>3
  <2> DEFINE P(y) == y \in 0 .. top - 1 /\ \E i \in 0 .. pk - 1 - 1 : IsOr(y, net, i)
  <2>10. a \in Listed(spec, shifts) <=> \E z : P(z) /\ a = Quads[z + 1]
    <3> HIDE DEF net, pk, top
    <3>1. QED
      BY <2>8
  <2>11. Covers(val, a) <=> \E z \in net .. net + pk - 2 : Quads[z + 1] = a
    <3>1. ~IsAddress(spec)
      BY <1>2 DEF spec
    <3>2. QED
      BY <2>1, <3>1 DEF Covers, spec
  <2> HIDE DEF net, pk, top
  <2>12. QED
    BY <2>9, <2>10, <2>11 DEF spec
<1>3. QED
  BY <1>1, <1>2

---------------------------------------------------------------------------
(* What a block allows is registered for all it lists.                     *)

ListsAddr(C, a) ==
  \E val \in Names(C, "IP") :
    /\ val \in DOMAIN IpSpecs /\ ~IsRefused(val)
    /\ \E shifts \in BOOLEAN : a \in Listed(IpSpecs[val], shifts)
Gives(C, n) ==
  SectionVisits(C, "MAX_OFFENSES") > 0 /\ Last(C) \in DOMAIN Numbers /\ n = Numbers[Last(C)]

\* What an address or a country is allowed is the number of a block that lists it.
AllowSound ==
  /\ \A a \in DOMAIN addr_map :
       \E C \in Seq(STRING) : Gives(C, addr_map[a]) /\ ListsAddr(C, a)
  /\ \A c \in DOMAIN cntry_map :
       \E C \in Seq(STRING) : Gives(C, cntry_map[c]) /\ c \in Names(C, "COUNTRY")

\* Of a block that was initialised, all that it lists is in the maps.
Registered(C) ==
  /\ Last(C) \in DOMAIN Numbers
  /\ \A val \in Names(C, "IP") :
       /\ ~IsRefused(val)
       /\ \E shifts \in BOOLEAN : Listed(IpSpecs[val], shifts) \subseteq DOMAIN addr_map
  /\ Names(C, "COUNTRY") \subseteq DOMAIN cntry_map
AllowComplete ==
  \A B \in Seq(STRING) : Append(B, "MAX_OFFENSES") \in looked =>
    \A v \in Names(B, "MAX_OFFENSES") :
      Pending("init", Append(B, v), "MAX_OFFENSES") \/ Registered(Append(B, v))

RegisterInv ==
  /\ pc \in {"options", "parse"} => DOMAIN addr_map = {} /\ DOMAIN cntry_map = {}
  /\ pc \in {"configure", "report", "block"} => AllowSound /\ AllowComplete
AllowInv == ReportInv /\ RegisterInv

LEMMA SameAllow ==
  ASSUME UNCHANGED entry_map
  PROVE  /\ \A C, a : ListsAddr(C, a)' <=> ListsAddr(C, a)
         /\ \A C, n : Gives(C, n)' <=> Gives(C, n)
         /\ \A C, sym : Names(C, sym)' = Names(C, sym)
<1>1. /\ \A p, sym : SectionVisits(p, sym)' = SectionVisits(p, sym)
      /\ \A B, sym : Names(B, sym)' = Names(B, sym)
  BY SameWalk
<1>2. QED
  BY <1>1 DEF ListsAddr, Gives

\* The maps grow, and with them what is registered.
LEMMA RegisteredStays ==
  ASSUME UNCHANGED entry_map, DOMAIN addr_map \subseteq DOMAIN addr_map',
         DOMAIN cntry_map \subseteq DOMAIN cntry_map'
  PROVE  \A C : Registered(C) => Registered(C)'
<1>1. \A C, sym : Names(C, sym)' = Names(C, sym)
  BY SameWalk
<1> SUFFICES ASSUME NEW C, Registered(C) PROVE Registered(C)'
  OBVIOUS
<1>2. ASSUME NEW val \in Names(C, "IP")
      PROVE  \E shifts \in BOOLEAN : Listed(IpSpecs[val], shifts) \subseteq DOMAIN addr_map'
  BY DEF Registered
<1>3. QED
  BY <1>1, <1>2 DEF Registered

LEMMA SoundStays ==
  ASSUME AllowSound, UNCHANGED <<entry_map, addr_map, cntry_map>>
  PROVE  AllowSound'
<1>1. /\ \A C, a : ListsAddr(C, a)' <=> ListsAddr(C, a)
      /\ \A C, n : Gives(C, n)' <=> Gives(C, n)
      /\ \A C, sym : Names(C, sym)' = Names(C, sym)
  BY SameAllow
<1>2. QED
  BY <1>1 DEF AllowSound

LEMMA AllowInit == Init => AllowInv
<1> SUFFICES ASSUME Init PROVE AllowInv
  OBVIOUS
<1>1. addr_map = <<>> /\ cntry_map = <<>> /\ pc = "options"
  BY DEF Init
<1>2. DOMAIN addr_map = {} /\ DOMAIN cntry_map = {}
  BY <1>1
<1>3. QED
  BY <1>1, <1>2, ReportInit DEF AllowInv, RegisterInv

LEMMA OptionsRegister == AllowInv /\ (GetOption \/ OptionsDone) => RegisterInv'
<1> SUFFICES ASSUME AllowInv, GetOption \/ OptionsDone PROVE RegisterInv'
  OBVIOUS
<1>1. /\ UNCHANGED <<addr_map, cntry_map>> /\ pc = "options"
      /\ pc' \in {"options", "parse", "failed", "stopped"}
  BY DEF GetOption, OptionsDone, Goto, confVars
<1>2. QED
  BY <1>1 DEF AllowInv, RegisterInv

LEMMA ReadRegister == AllowInv /\ (ReadLine \/ SkipLine) => RegisterInv'
<1> SUFFICES ASSUME AllowInv, ReadLine \/ SkipLine PROVE RegisterInv'
  OBVIOUS
<1>1. UNCHANGED <<addr_map, cntry_map>> /\ pc = "parse" /\ pc' \in {"parse", "failed"}
  BY DEF ReadLine, SkipLine, Goto, confVars
<1>2. QED
  BY <1>1 DEF AllowInv, RegisterInv

LEMMA FileEndsRegister == AllowInv /\ FileEnds => RegisterInv'
<1> SUFFICES ASSUME AllowInv, FileEnds PROVE RegisterInv'
  OBVIOUS
<1>1. /\ UNCHANGED <<addr_map, cntry_map, looked>> /\ pc = "parse"
      /\ pc' \in {"parse", "failed", "configure"}
  BY DEF FileEnds, EndOfFile, Goto, queryVars
<1>2. looked = {} /\ DOMAIN addr_map = {} /\ DOMAIN cntry_map = {}
  BY <1>1 DEF AllowInv, RegisterInv, ReportInv, WalkInv
<1>3. AllowSound' /\ AllowComplete'
  BY <1>1, <1>2 DEF AllowSound, AllowComplete
<1>4. QED
  BY <1>1, <1>2, <1>3 DEF RegisterInv

\* A run that fails or crashes allows nothing.
LEMMA OverRegister ==
  ASSUME pc' \in {"failed", "crashed"}
  PROVE  RegisterInv'
BY DEF RegisterInv

\* A section that is looked up has its blocks put on the list.
LEMMA SectionRegister ==
  ASSUME AllowInv, pc = "configure", todo # <<>>, NEW sym \in SectionWords,
         Item.step = "section", Item.sym = sym, UNCHANGED <<pc, entry_map, addr_map, cntry_map>>,
         NEW B, B = Item.path, NEW p, p = Append(B, sym), Looked({p}),
         todo' = WalkedList(B, sym)
  PROVE  RegisterInv'
<1>1. StartInv /\ AllowSound /\ AllowComplete
  BY DEF AllowInv, ReportInv, RegisterInv
<1>2. /\ B \in Seq(STRING) /\ ToSet(todo) = {Item} \cup ToSet(Tail(todo))
  BY <1>1, ItemIs
<1>3. \A q \in looked' : q \in looked \/ q = p
  BY DEF Looked
<1>4. /\ ToSet(Tail(todo)) \subseteq ToSet(todo')
      /\ \A v \in Names(B, sym) : NewItems(sym, Append(B, v)) \subseteq ToSet(todo')
  BY <1>1, <1>2, SectionList
<1>5. \A C, s : Pending("init", C, s) => Pending("init", C, s)'
  <2>1. \A C, s : Item # [step |-> "init", sym |-> s, path |-> C]
    <3>1. \A C, s : [step |-> "init", sym |-> s, path |-> C].step = "init"
      OBVIOUS
    <3>2. Item.step # "init"
      OBVIOUS
    <3>3. QED
      BY <3>1, <3>2
  <2>2. QED
    BY <1>2, <1>4, <2>1 DEF Pending
<1>6. \A C : Registered(C) => Registered(C)'
  BY RegisteredStays
<1>7. ASSUME NEW C \in Seq(STRING), Append(C, "MAX_OFFENSES") \in looked',
             NEW v \in Names(C, "MAX_OFFENSES")
      PROVE  Pending("init", Append(C, v), "MAX_OFFENSES")' \/ Registered(Append(C, v))'
  <2>1. CASE Append(C, "MAX_OFFENSES") \in looked
    BY <1>1, <1>5, <1>6, <2>1 DEF AllowComplete
  <2>2. CASE Append(C, "MAX_OFFENSES") = p
    <3>1. C = B /\ sym = "MAX_OFFENSES"
      <4>1. Front(Append(C, "MAX_OFFENSES")) = C /\ Last(Append(C, "MAX_OFFENSES")) = "MAX_OFFENSES"
        BY AppendParts
      <4>2. Front(p) = B /\ Last(p) = sym
        BY <1>2, AppendParts
      <4>3. QED
        BY <2>2, <4>1, <4>2
    <3>2. NewItems(sym, Append(C, v)) \subseteq ToSet(todo')
      BY <1>4, <3>1
    <3>3. QED
      BY <3>1, <3>2 DEF NewItems, Pending
  <2>3. QED
    BY <1>3, <1>7, <2>1, <2>2
<1>8. AllowComplete'
  <2>1. \A C, s : Names(C, s)' = Names(C, s)
    BY SameWalk
  <2>2. QED
    BY <1>7, <2>1 DEF AllowComplete
<1>9. AllowSound'
  BY <1>1, SoundStays
<1>10. QED
  BY <1>8, <1>9 DEF RegisterInv

\* To initialise a log type takes nothing from the maps, and no section is looked up.
LEMMA LogTypeRegister ==
  ASSUME AllowInv, pc = "configure", todo # <<>>,
         Item.step = "init", Item.sym = "LOGTYPE",
         UNCHANGED <<pc, entry_map, addr_map, cntry_map>>,
         NEW B, B = Item.path, Looked(LogTypeSymbols(B)), todo' = Tail(todo)
  PROVE  RegisterInv'
<1>1. StartInv /\ AllowSound /\ AllowComplete /\ SoundInv /\ CfgTypeOK
  BY DEF AllowInv, ReportInv, RegisterInv, WalkInv, StartInv, MapInv
<1>2. /\ B \in Seq(STRING) /\ ToSet(todo) = {Item} \cup ToSet(todo')
      /\ Item = [step |-> "init", sym |-> "LOGTYPE", path |-> B]
  BY <1>1, ItemIs
<1>3. \A q \in looked' : q \in looked \/ q \in Needed(B, "LOGTYPE")
  BY LookedIs DEF Needed
<1>4. \A q \in Needed(B, "LOGTYPE") : Last(q) \notin SectionWords
  <2>1. SectionVisits(B, "LOGTYPE") > 0
    BY <1>1, <1>2 DEF SoundInv, GoodItem
  <2>2. QED
    BY <1>1, <1>2, <2>1, NeededRecognised DEF SectionWords
<1>5. \A C : Pending("init", C, "MAX_OFFENSES") => Pending("init", C, "MAX_OFFENSES")'
  <2>1. \A C : Item # [step |-> "init", sym |-> "MAX_OFFENSES", path |-> C]
    <3>1. \A C : [step |-> "init", sym |-> "MAX_OFFENSES", path |-> C].sym = "MAX_OFFENSES"
      OBVIOUS
    <3>2. Item.sym # "MAX_OFFENSES"
      OBVIOUS
    <3>3. QED
      BY <3>1, <3>2
  <2>2. QED
    BY <1>2, <2>1 DEF Pending
<1>6. \A C : Registered(C) => Registered(C)'
  BY RegisteredStays
<1>7. AllowComplete'
  <2>1. \A C, s : Names(C, s)' = Names(C, s)
    BY SameWalk
  <2>2. ASSUME NEW C \in Seq(STRING), Append(C, "MAX_OFFENSES") \in looked'
        PROVE  Append(C, "MAX_OFFENSES") \in looked
    <3>1. Last(Append(C, "MAX_OFFENSES")) \in SectionWords
      BY AppendParts DEF SectionWords
    <3>2. QED
      BY <1>3, <1>4, <2>2, <3>1
  <2>3. QED
    BY <1>1, <1>5, <1>6, <2>1, <2>2 DEF AllowComplete
<1>8. AllowSound'
  BY <1>1, SoundStays
<1>9. QED
  BY <1>7, <1>8 DEF RegisterInv

KeysOf(C, shifts) == UNION {Listed(IpSpecs[val], shifts) : val \in Names(C, "IP")}

\* A block that is initialised registers its number for all it lists.
LEMMA MaxOffRegister ==
  ASSUME AllowInv, pc = "configure", todo # <<>>,
         Item.step = "init", Item.sym = "MAX_OFFENSES", UNCHANGED <<pc, entry_map>>,
         NEW B, B = Item.path, Last(B) \in DOMAIN Numbers,
         \A val \in Names(B, "IP") : ~IsRefused(val), NEW shifts \in BOOLEAN,
         addr_map' = AddKeys(addr_map, KeysOf(B, shifts), Numbers[Last(B)]),
         cntry_map' = AddKeys(cntry_map, Names(B, "COUNTRY"), Numbers[Last(B)]),
         Looked(Needed(B, "MAX_OFFENSES")), todo' = Tail(todo)
  PROVE  RegisterInv'
<1>1. StartInv /\ AllowSound /\ AllowComplete /\ SoundInv /\ CfgTypeOK
  BY DEF AllowInv, ReportInv, RegisterInv, WalkInv, StartInv, MapInv
<1>2. /\ B \in Seq(STRING) /\ ToSet(todo) = {Item} \cup ToSet(todo')
      /\ Item = [step |-> "init", sym |-> "MAX_OFFENSES", path |-> B]
  BY <1>1, ItemIs
<1>3. \A q \in looked' : q \in looked \/ q \in Needed(B, "MAX_OFFENSES")
  BY LookedIs
<1>4. SectionVisits(B, "MAX_OFFENSES") > 0
  BY <1>1, <1>2 DEF SoundInv, GoodItem
<1>5. \A q \in Needed(B, "MAX_OFFENSES") : Last(q) \notin SectionWords
  BY <1>1, <1>2, <1>4, NeededRecognised DEF SectionWords
<1>6. /\ \A C, a : ListsAddr(C, a)' <=> ListsAddr(C, a)
      /\ \A C, n : Gives(C, n)' <=> Gives(C, n)
      /\ \A C, sym : Names(C, sym)' = Names(C, sym)
  BY SameAllow
<1>7. /\ DOMAIN addr_map' = DOMAIN addr_map \cup KeysOf(B, shifts)
      /\ \A a \in DOMAIN addr_map' :
           addr_map'[a] = IF a \in DOMAIN addr_map THEN addr_map[a] ELSE Numbers[Last(B)]
  <2> DEFINE m == AddKeys(addr_map, KeysOf(B, shifts), Numbers[Last(B)])
  <2>1. addr_map' = m
    OBVIOUS
  <2>2. /\ DOMAIN m = DOMAIN addr_map \cup KeysOf(B, shifts)
        /\ \A k \in DOMAIN m : m[k] = IF k \in DOMAIN addr_map THEN addr_map[k] ELSE Numbers[Last(B)]
    BY Zenon DEF AddKeys
  <2> HIDE DEF m
  <2>3. QED
    BY <2>1, <2>2
<1>8. /\ DOMAIN cntry_map' = DOMAIN cntry_map \cup Names(B, "COUNTRY")
      /\ \A c \in DOMAIN cntry_map' :
           cntry_map'[c] = IF c \in DOMAIN cntry_map THEN cntry_map[c] ELSE Numbers[Last(B)]
  <2> DEFINE m == AddKeys(cntry_map, Names(B, "COUNTRY"), Numbers[Last(B)])
  <2>1. cntry_map' = m
    OBVIOUS
  <2>2. /\ DOMAIN m = DOMAIN cntry_map \cup Names(B, "COUNTRY")
        /\ \A k \in DOMAIN m : m[k] = IF k \in DOMAIN cntry_map THEN cntry_map[k] ELSE Numbers[Last(B)]
    BY Zenon DEF AddKeys
  <2> HIDE DEF m
  <2>3. QED
    BY <2>1, <2>2
<1>9. Gives(B, Numbers[Last(B)])
  BY <1>4 DEF Gives
<1>10. \A val \in Names(B, "IP") : /\ val \in DOMAIN IpSpecs
                                   /\ Listed(IpSpecs[val], shifts) \subseteq KeysOf(B, shifts)
  BY DEF IsRefused, KeysOf
<1>11. \A a \in KeysOf(B, shifts) : ListsAddr(B, a)
  BY <1>10 DEF ListsAddr, KeysOf
<1>12. AllowSound'
  <2>1. ASSUME NEW a \in DOMAIN addr_map'
        PROVE  \E C \in Seq(STRING) : Gives(C, addr_map'[a]) /\ ListsAddr(C, a)
    <3>1. CASE a \in DOMAIN addr_map
      BY <1>1, <1>7, <3>1 DEF AllowSound
    <3>2. CASE a \notin DOMAIN addr_map
      <4>1. addr_map'[a] = Numbers[Last(B)] /\ ListsAddr(B, a)
        BY <1>7, <1>11, <3>2
      <4>2. QED
        BY <1>2, <1>9, <4>1
    <3>3. QED
      BY <3>1, <3>2
  <2>2. ASSUME NEW c \in DOMAIN cntry_map'
        PROVE  \E C \in Seq(STRING) : Gives(C, cntry_map'[c]) /\ c \in Names(C, "COUNTRY")
    <3>1. CASE c \in DOMAIN cntry_map
      BY <1>1, <1>8, <3>1 DEF AllowSound
    <3>2. CASE c \notin DOMAIN cntry_map
      <4>1. cntry_map'[c] = Numbers[Last(B)] /\ c \in Names(B, "COUNTRY")
        BY <1>8, <3>2
      <4>2. QED
        BY <1>2, <1>9, <4>1
    <3>3. QED
      BY <3>1, <3>2
  <2>3. QED
    BY <1>6, <2>1, <2>2 DEF AllowSound
<1>13. Registered(B)'
  <2>1. \A val \in Names(B, "IP") : Listed(IpSpecs[val], shifts) \subseteq DOMAIN addr_map'
    BY <1>7, <1>10
  <2>2. Names(B, "COUNTRY") \subseteq DOMAIN cntry_map'
    BY <1>8
  <2>3. QED
    BY <1>6, <2>1, <2>2 DEF Registered
<1>14. \A C : Registered(C) => Registered(C)'
  BY <1>7, <1>8, RegisteredStays
<1>15. \A C : Pending("init", C, "MAX_OFFENSES") => Pending("init", C, "MAX_OFFENSES")' \/ C = B
  <2> SUFFICES ASSUME NEW C, Pending("init", C, "MAX_OFFENSES")
               PROVE  Pending("init", C, "MAX_OFFENSES")' \/ C = B
    OBVIOUS
  <2> DEFINE t == [step |-> "init", sym |-> "MAX_OFFENSES", path |-> C]
  <2>1. t.path = C
    OBVIOUS
  <2>2. t \in ToSet(todo)
    BY DEF Pending
  <2> HIDE DEF t
  <2>3. t \in ToSet(todo') \/ C = B
    BY <1>2, <2>1, <2>2
  <2>4. QED
    BY <2>3 DEF Pending, t
<1>16. AllowComplete'
  <2>1. ASSUME NEW C \in Seq(STRING), Append(C, "MAX_OFFENSES") \in looked'
        PROVE  Append(C, "MAX_OFFENSES") \in looked
    <3>1. Last(Append(C, "MAX_OFFENSES")) \in SectionWords
      BY AppendParts DEF SectionWords
    <3>2. QED
      BY <1>3, <1>5, <2>1, <3>1
  <2>2. ASSUME NEW C \in Seq(STRING), Append(C, "MAX_OFFENSES") \in looked',
               NEW v \in Names(C, "MAX_OFFENSES")
        PROVE  Pending("init", Append(C, v), "MAX_OFFENSES")' \/ Registered(Append(C, v))'
    <3>1. Pending("init", Append(C, v), "MAX_OFFENSES") \/ Registered(Append(C, v))
      BY <1>1, <2>1, <2>2 DEF AllowComplete
    <3>2. QED
      BY <1>13, <1>14, <1>15, <3>1
  <2>3. QED
    BY <1>6, <2>2 DEF AllowComplete
<1>17. QED
  BY <1>12, <1>16 DEF RegisterInv

LEMMA ConfigureRegister == AllowInv /\ Configure => RegisterInv'
<1> SUFFICES ASSUME AllowInv, Configure PROVE RegisterInv'
  OBVIOUS
<1>1. UNCHANGED entry_map /\ pc = "configure" /\ todo # <<>>
  BY DEF Configure, WalkSection, InitMaxOff, InitLogType, LogTypeUnopened, Doing, readVars
<1>2. PICK B : B = Item.path
  OBVIOUS
<1>3. ASSUME NEW sym \in SectionWords, WalkSection(sym)
      PROVE  RegisterInv'
  <2>1. PICK p : p = Append(B, sym)
    OBVIOUS
  <2>2. CASE Crashes({p})
    BY <2>2, OverRegister DEF Crashes, Goto
  <2>3. CASE ~Crashes({p})
    <3>1. /\ todo' = WalkedList(B, sym) /\ Looked({p})
          /\ UNCHANGED <<pc, addr_map, cntry_map>> /\ Item.step = "section" /\ Item.sym = sym
      BY <1>2, <1>3, <2>1, <2>3 DEF WalkSection, Doing, WalkedList, confVars
    <3>2. QED
      BY <1>1, <1>2, <2>1, <3>1, SectionRegister
  <2>4. QED
    BY <2>2, <2>3
<1>4. CASE InitMaxOff
  <2>1. Item.step = "init" /\ Item.sym = "MAX_OFFENSES"
    BY <1>4 DEF InitMaxOff, Doing
  <2>2. /\ Names(B, "IP") = ToSet(Strs(Append(B, "IP")))
        /\ Names(B, "COUNTRY") = ToSet(Strs(Append(B, "COUNTRY")))
        /\ Needed(B, "MAX_OFFENSES") = {Append(B, "IP"), Append(B, "COUNTRY")}
    BY DEF Names, Needed
  <2>3. \/ pc' \in {"failed", "crashed"}
        \/ /\ Last(B) \in DOMAIN Numbers /\ \A val \in Names(B, "IP") : ~IsRefused(val)
           /\ \E shifts \in BOOLEAN :
                addr_map' = AddKeys(addr_map, KeysOf(B, shifts), Numbers[Last(B)])
           /\ cntry_map' = AddKeys(cntry_map, Names(B, "COUNTRY"), Numbers[Last(B)])
           /\ todo' = Tail(todo) /\ UNCHANGED pc
           /\ Looked(Needed(B, "MAX_OFFENSES"))
    BY <1>2, <1>4, <2>2 DEF InitMaxOff, Crashes, Goto, KeysOf
  <2>4. QED
    BY <1>1, <1>2, <2>1, <2>3, OverRegister, MaxOffRegister
<1>5. CASE InitLogType
  <2>1. Item.step = "init" /\ Item.sym = "LOGTYPE"
    BY <1>5 DEF InitLogType, Doing
  <2>2. \/ pc' \in {"failed", "crashed"}
        \/ /\ Looked(LogTypeSymbols(B)) /\ todo' = Tail(todo) /\ UNCHANGED pc
           /\ UNCHANGED <<addr_map, cntry_map>>
    BY <1>2, <1>5 DEF InitLogType, Crashes, Goto
  <2>3. QED
    BY <1>1, <1>2, <2>1, <2>2, OverRegister, LogTypeRegister
<1>6. CASE LogTypeUnopened
  BY <1>6, OverRegister DEF LogTypeUnopened, Goto
<1>7. QED
  BY <1>3, <1>4, <1>5, <1>6 DEF Configure, SectionWords

LEMMA SameRegister ==
  ASSUME RegisterInv, UNCHANGED <<entry_map, looked, todo, addr_map, cntry_map>>,
         pc \in {"configure", "report", "block"}
  PROVE  AllowSound' /\ AllowComplete'
<1>1. AllowSound /\ AllowComplete
  BY DEF RegisterInv
<1>2. \A C : Registered(C) => Registered(C)'
  BY RegisteredStays
<1>3. \A C, sym : Names(C, sym)' = Names(C, sym)
  BY SameWalk
<1>4. \A step, C, sym : Pending(step, C, sym)' <=> Pending(step, C, sym)
  BY DEF Pending
<1>5. AllowComplete'
  BY <1>1, <1>2, <1>3, <1>4 DEF AllowComplete
<1>6. QED
  BY <1>1, <1>5, SoundStays

LEMMA ConfiguredRegister == AllowInv /\ Configured => RegisterInv'
<1> SUFFICES ASSUME AllowInv, Configured PROVE RegisterInv'
  OBVIOUS
<1>1. /\ UNCHANGED <<entry_map, looked, todo, addr_map, cntry_map>> /\ pc = "configure"
      /\ pc' \in {"report", "block", "stopped"} /\ RegisterInv
  BY DEF Configured, Goto, cfgVars, AllowInv
<1>2. AllowSound' /\ AllowComplete'
  BY <1>1, SameRegister
<1>3. QED
  BY <1>1, <1>2 DEF RegisterInv

LEMMA AllowNext == AllowInv /\ [Next]_vars => AllowInv'
<1> SUFFICES ASSUME AllowInv, [Next]_vars PROVE AllowInv'
  OBVIOUS
<1>1. ReportInv'
  BY ReportNext DEF AllowInv
<1>2. RegisterInv'
  <2>1. CASE UNCHANGED vars
    <3>1. UNCHANGED <<pc, entry_map, looked, todo, addr_map, cntry_map>> /\ RegisterInv
      BY <2>1 DEF vars, cfgVars, mainVars, confVars, AllowInv
    <3>2. pc \in {"configure", "report", "block"} => AllowSound' /\ AllowComplete'
      BY <3>1, SameRegister
    <3>3. QED
      BY <3>1, <3>2 DEF RegisterInv
  <2>2. CASE Next
    BY <2>2, OptionsRegister, ReadRegister, FileEndsRegister, ConfigureRegister,
       ConfiguredRegister DEF Next
  <2>3. QED
    BY <2>1, <2>2
<1>3. QED
  BY <1>1, <1>2 DEF AllowInv

\* What the next rests on: while the map is walked, what is registered comes from a
\* block, and of each block that was initialised all it lists is registered.
THEOREM AllowInvariant == Spec => []AllowInv
BY AllowInit, AllowNext, PTL DEF Spec

---------------------------------------------------------------------------
(* When nothing is left to be done, what is written is registered.         *)

\* The blocks of a section are those configure() comes to.
LEMMA BlocksAre ==
  ASSUME CfgTypeOK, <<>> \notin DOMAIN entry_map, NEW sym
  PROVE  /\ \A C \in Blocks(sym) : C \in Seq(STRING) /\ SectionVisits(C, sym) > 0
         /\ \A C \in Seq(STRING) : SectionVisits(C, sym) > 0 => C \in Blocks(sym)
<1>1. \A q : Range(Strs(q)) = ToSet(Strs(q))
  BY DEF Range, ToSet
<1>2. ASSUME NEW C \in Blocks(sym)
      PROVE  C \in Seq(STRING) /\ SectionVisits(C, sym) > 0
  <2>1. PICK q \in DOMAIN entry_map :
          Last(q) = sym /\ Visits(Front(q)) > 0 /\ \E v \in Range(Strs(q)) : C = Append(Front(q), v)
    BY DEF Blocks
  <2>2. q \in Seq(STRING) /\ q # <<>>
    BY <2>1 DEF CfgTypeOK
  <2>3. Front(q) \in Seq(STRING) /\ q = Append(Front(q), Last(q))
    BY <2>2, PathParts
  <2>4. PICK B : B = Front(q)
    OBVIOUS
  <2>5. PICK v : v \in Names(B, sym) /\ C = Append(B, v)
    BY <1>1, <2>1, <2>3, <2>4 DEF Names
  <2>6. v \in STRING
    BY <2>5, NamesTyped
  <2>7. C \in Seq(STRING)
    BY <2>3, <2>4, <2>5, <2>6, AppendProperties
  <2>8. QED
    BY <2>1, <2>3, <2>4, <2>5, <2>6, <2>7, SectionVisitsIs
<1>3. ASSUME NEW C \in Seq(STRING), SectionVisits(C, sym) > 0
      PROVE  C \in Blocks(sym)
  <2>1. C # <<>>
    BY <1>3, SectionVisitsTop
  <2>2. PICK B \in Seq(STRING), v \in STRING : C = Append(B, v)
    BY <2>1, PathParts
  <2>3. Visits(B) > 0 /\ v \in Names(B, sym)
    BY <1>3, <2>2, SectionVisitsIs
  <2>4. PICK q : q = Append(B, sym)
    OBVIOUS
  <2>5. q \in DOMAIN entry_map
    BY <2>3, <2>4, NamesFiled
  <2>6. Front(q) = B /\ Last(q) = sym
    BY <2>4, AppendParts
  <2>7. v \in Range(Strs(q))
    BY <1>1, <2>3, <2>4 DEF Names
  <2>8. q \in {r \in DOMAIN entry_map : Last(r) = sym /\ Visits(Front(r)) > 0}
    BY <2>3, <2>5, <2>6
  <2>9. C \in {Append(Front(q), w) : w \in Range(Strs(q))}
    BY <2>2, <2>6, <2>7
  <2>10. QED
    BY <2>8, <2>9, Zenon DEF Blocks
<1>4. QED
  BY <1>2, <1>3

LEMMA AllRegistered ==
  ASSUME CfgTypeOK, CompleteInv, AllowComplete, todo = <<>>, NEW C \in Seq(STRING),
         SectionVisits(C, "MAX_OFFENSES") > 0
  PROVE  Registered(C)
<1>1. C # <<>>
  BY SectionVisitsTop
<1>2. PICK B \in Seq(STRING), v \in STRING : C = Append(B, v)
  BY <1>1, PathParts
<1>3. Visits(B) > 0 /\ v \in Names(B, "MAX_OFFENSES")
  BY <1>2, SectionVisitsIs
<1>4. Append(B, "MAX_OFFENSES") \in DOMAIN entry_map
  BY <1>3, NamesFiled
<1>5. Append(B, "MAX_OFFENSES") \in looked
  BY <1>3, <1>4, AllWalked, NothingPending DEF Walked, SectionWords
<1>6. QED
  BY <1>2, <1>3, <1>5, NothingPending DEF AllowComplete

LEMMA ShortPrefix ==
  ASSUME CfgTypeOK, NoHostPrefix, NEW C, NEW val \in Names(C, "IP"), val \in DOMAIN IpSpecs
  PROVE  IsCidr(IpSpecs[val]) => IpSpecs[val].bits < Width
<1>1. PICK q : q = Append(C, "IP")
  OBVIOUS
<1>2. q \in DOMAIN entry_map /\ Last(q) = "IP"
  <2>1. Names(C, "IP") # {}
    OBVIOUS
  <2>2. q \in DOMAIN entry_map /\ q \in Seq(STRING)
    BY <1>1, <2>1, NamesFiled DEF CfgTypeOK
  <2>3. QED
    BY <1>1, <2>2, AppendParts
<1>3. val \in Range(Strs(q))
  BY <1>1 DEF Names, ToSet, Range
<1>4. QED
  BY <1>2, <1>3 DEF NoHostPrefix

\* The numbers of the blocks that list an address, and of those that list a country.
ByAddr(a) == {Numbers[Last(C)] : C \in {B \in Blocks("MAX_OFFENSES") :
                                   \E val \in Names(B, "IP") : Covers(val, a)}}
ByCntry(c) == {Numbers[Last(C)] : C \in {B \in Blocks("MAX_OFFENSES") : c \in Names(B, "COUNTRY")}}

LEMMA AddrRegistered ==
  ASSUME CfgTypeOK, <<>> \notin DOMAIN entry_map, CompleteInv, AllowSound, AllowComplete,
         todo = <<>>, NoHostPrefix, NEW a
  PROVE  /\ a \in DOMAIN addr_map => addr_map[a] \in ByAddr(a)
         /\ a \notin DOMAIN addr_map => ByAddr(a) = {}
<1>1. ASSUME a \in DOMAIN addr_map
      PROVE  addr_map[a] \in ByAddr(a)
  <2>1. PICK C \in Seq(STRING) : Gives(C, addr_map[a]) /\ ListsAddr(C, a)
    BY <1>1 DEF AllowSound
  <2>2. PICK val \in Names(C, "IP"), shifts \in BOOLEAN :
          val \in DOMAIN IpSpecs /\ ~IsRefused(val) /\ a \in Listed(IpSpecs[val], shifts)
    BY <2>1 DEF ListsAddr
  <2>3. Covers(val, a)
    BY <2>2, ShortPrefix, ListedIsCovers
  <2>4. C \in Blocks("MAX_OFFENSES")
    BY <2>1, BlocksAre DEF Gives
  <2>5. QED
    BY <2>1, <2>2, <2>3, <2>4 DEF Gives, ByAddr
<1>2. ASSUME NEW n \in ByAddr(a)
      PROVE  a \in DOMAIN addr_map
  <2>0. PICK C \in Blocks("MAX_OFFENSES") : \E val \in Names(C, "IP") : Covers(val, a)
    BY <1>2 DEF ByAddr
  <2>1. PICK val \in Names(C, "IP") : Covers(val, a)
    BY <2>0
  <2>2. C \in Seq(STRING) /\ SectionVisits(C, "MAX_OFFENSES") > 0
    BY BlocksAre
  <2>3. Registered(C)
    BY <2>2, AllRegistered
  <2>4. val \in DOMAIN IpSpecs /\ ~IsRefused(val)
    BY <2>3 DEF Registered, IsRefused
  <2>5. PICK shifts \in BOOLEAN : Listed(IpSpecs[val], shifts) \subseteq DOMAIN addr_map
    BY <2>3 DEF Registered
  <2>6. a \in Listed(IpSpecs[val], shifts)
    BY <2>1, <2>4, ShortPrefix, ListedIsCovers
  <2>7. QED
    BY <2>5, <2>6
<1>3. QED
  BY <1>1, <1>2

LEMMA CntryRegistered ==
  ASSUME CfgTypeOK, <<>> \notin DOMAIN entry_map, CompleteInv, AllowSound, AllowComplete,
         todo = <<>>, NEW c
  PROVE  /\ c \in DOMAIN cntry_map => cntry_map[c] \in ByCntry(c)
         /\ c \notin DOMAIN cntry_map => ByCntry(c) = {}
<1>1. ASSUME c \in DOMAIN cntry_map
      PROVE  cntry_map[c] \in ByCntry(c)
  <2>1. PICK C \in Seq(STRING) : Gives(C, cntry_map[c]) /\ c \in Names(C, "COUNTRY")
    BY <1>1 DEF AllowSound
  <2>2. C \in Blocks("MAX_OFFENSES")
    BY <2>1, BlocksAre DEF Gives
  <2>3. QED
    BY <2>1, <2>2 DEF Gives, ByCntry
<1>2. ASSUME NEW n \in ByCntry(c)
      PROVE  c \in DOMAIN cntry_map
  <2>1. PICK C \in Blocks("MAX_OFFENSES") : c \in Names(C, "COUNTRY")
    BY <1>2 DEF ByCntry
  <2>2. C \in Seq(STRING) /\ SectionVisits(C, "MAX_OFFENSES") > 0
    BY BlocksAre
  <2>3. Registered(C)
    BY <2>2, AllRegistered
  <2>4. QED
    BY <2>1, <2>3 DEF Registered
<1>3. QED
  BY <1>1, <1>2

LEMMA AllowInvImplies == AllowInv => AllowanceFromBlocks
<1> SUFFICES ASSUME AllowInv, Done, NoHostPrefix, NEW a \in DOMAIN CountryOf
             PROVE  LET byAddr  == NumbersBy("IP", LAMBDA val : Covers(val, a))
                        byCntry == NumbersBy("COUNTRY", LAMBDA val : val = CountryOf[a])
                    IN  Allowed(addr_map, cntry_map, a)
                          \in (byAddr \ {0}) \cup (IF byAddr \subseteq {0} \/ 0 \in byAddr
                                                   THEN IF byCntry = {} THEN {0} ELSE byCntry
                                                   ELSE {})
  BY DEF AllowanceFromBlocks
<1> DEFINE c == CountryOf[a]
           A == ByAddr(a)
           K == ByCntry(c)
<1>1. /\ CfgTypeOK /\ <<>> \notin DOMAIN entry_map /\ CompleteInv /\ AllowSound /\ AllowComplete
      /\ todo = <<>>
  BY DEF AllowInv, ReportInv, StartInv, MapInv, WalkInv, RegisterInv, Done
<1>2. \A C, sym : Range(Strs(Append(C, sym))) = Names(C, sym)
  BY DEF Range, Names, ToSet
<1>3. NumbersBy("IP", LAMBDA val : Covers(val, a)) = A
  BY <1>2 DEF NumbersBy, ByAddr
<1>4. NumbersBy("COUNTRY", LAMBDA val : val = CountryOf[a]) = K
  <2>1. NumbersBy("COUNTRY", LAMBDA val : val = CountryOf[a])
          = {Numbers[Last(C)] : C \in {B \in Blocks("MAX_OFFENSES") :
                                         \E val \in Names(B, "COUNTRY") : val = c}}
    BY <1>2 DEF NumbersBy
  <2>2. {B \in Blocks("MAX_OFFENSES") : \E val \in Names(B, "COUNTRY") : val = c}
          = {B \in Blocks("MAX_OFFENSES") : c \in Names(B, "COUNTRY")}
    OBVIOUS
  <2>3. QED
    BY <2>1, <2>2 DEF ByCntry
<1>5. /\ a \in DOMAIN addr_map => addr_map[a] \in A
      /\ a \notin DOMAIN addr_map => A = {}
  BY <1>1, AddrRegistered
<1>6. /\ c \in DOMAIN cntry_map => cntry_map[c] \in K
      /\ c \notin DOMAIN cntry_map => K = {}
  BY <1>1, CntryRegistered
<1> DEFINE n == FindItem(addr_map, a)
           m == FindItem(cntry_map, c)
<1>7. Allowed(addr_map, cntry_map, a) = IF n = 0 THEN m ELSE n
  BY DEF Allowed
<1>8. (n \in A \/ n = 0) /\ (n = 0 => A \subseteq {0} \/ 0 \in A)
  BY <1>5 DEF FindItem
<1>9. m \in IF K = {} THEN {0} ELSE K
  BY <1>6 DEF FindItem
<1> HIDE DEF A, K, n, m, c
<1>10. Allowed(addr_map, cntry_map, a)
         \in (A \ {0}) \cup (IF A \subseteq {0} \/ 0 \in A
                             THEN IF K = {} THEN {0} ELSE K
                             ELSE {})
  BY <1>7, <1>8, <1>9
<1>11. QED
  BY <1>3, <1>4, <1>10

\* For any files, addresses and countries, and whatever a shift by 32 bits does: once
\* the map has been walked, MAXOFF_allowed() grants what a block says that lists the
\* address, and only if none does, or one says 0, what a block says that lists its
\* country.
THEOREM AllowanceCorrect == Spec => []AllowanceFromBlocks
BY AllowInvariant, AllowInvImplies, PTL

---------------------------------------------------------------------------
(* How often something is in a sequence.                                   *)

CountIn(s, x) == Cardinality({i \in DOMAIN s : s[i] = x})

LEMMA CountNat ==
  ASSUME NEW S, NEW s \in Seq(S), NEW x
  PROVE  /\ CountIn(s, x) \in Nat
         /\ CountIn(s, x) = 0 <=> x \notin ToSet(s)
         /\ CountIn(s, x) > 0 <=> x \in ToSet(s)
         /\ DOMAIN s = 1 .. Len(s) /\ Len(s) \in Nat
         /\ IsFiniteSet({i \in DOMAIN s : s[i] = x})
<1> DEFINE at == {i \in DOMAIN s : s[i] = x}
<1>1. DOMAIN s = 1 .. Len(s) /\ Len(s) \in Nat
  BY LenProperties
<1>2. IsFiniteSet(at)
  <2>1. IsFiniteSet(DOMAIN s)
    BY <1>1, FS_Interval
  <2>2. QED
    BY <2>1, FS_Subset
<1>3. at = {} <=> x \notin ToSet(s)
  BY DEF ToSet
<1>4. CountIn(s, x) = Cardinality(at)
  BY DEF CountIn
<1> HIDE DEF at
<1>5. Cardinality(at) \in Nat /\ (Cardinality(at) = 0 <=> at = {})
  BY <1>2, FS_CardinalityType, FS_EmptySet
<1>6. QED
  BY <1>1, <1>2, <1>3, <1>4, <1>5 DEF at

\* Positions that are moved on are as many.
LEMMA Shifted ==
  ASSUME NEW m \in Nat, NEW J \in SUBSET Nat, IsFiniteSet(J)
  PROVE  IsFiniteSet({j + m : j \in J}) /\ Cardinality({j + m : j \in J}) = Cardinality(J)
<1> DEFINE T == {j + m : j \in J}
           f == [j \in J |-> j + m]
<1>1. f \in Bijection(J, T)
  <2>1. f \in [J -> T]
    OBVIOUS
  <2>2. \A a, b \in J : f[a] = f[b] => a = b
    OBVIOUS
  <2>3. \A t \in T : \E j \in J : f[j] = t
    OBVIOUS
  <2> HIDE DEF f, T
  <2>4. QED
    BY <2>1, <2>2, <2>3, Zenon DEF Bijection, Injection, Surjection, IsInjective
<1>2. ExistsBijection(J, T)
  BY <1>1, Zenon DEF ExistsBijection
<1> HIDE DEF T, f
<1>3. IsFiniteSet(T) /\ Cardinality(T) = Cardinality(J)
  BY <1>2, FS_Bijection
<1>4. QED
  BY <1>3 DEF T

\* It is in two sequences put together as often as in both.
LEMMA CountJoin ==
  ASSUME NEW S, NEW a \in Seq(S), NEW b \in Seq(S), NEW x
  PROVE  a \o b \in Seq(S) /\ CountIn(a \o b, x) = CountIn(a, x) + CountIn(b, x)
<1> DEFINE c == a \o b
           m == Len(a)
           n == Len(b)
           A == {i \in DOMAIN a : a[i] = x}
           B == {i \in DOMAIN b : b[i] = x}
           T == {j + m : j \in B}
           C == {i \in DOMAIN c : c[i] = x}
<1>1. /\ c \in Seq(S) /\ Len(c) = m + n /\ m \in Nat /\ n \in Nat
      /\ DOMAIN a = 1 .. m /\ DOMAIN b = 1 .. n /\ DOMAIN c = 1 .. m + n
      /\ \A i \in 1 .. m + n : c[i] = IF i <= m THEN a[i] ELSE b[i - m]
  BY ConcatProperties, LenProperties
<1>2. /\ IsFiniteSet(A) /\ IsFiniteSet(B)
      /\ CountIn(a, x) = Cardinality(A) /\ CountIn(b, x) = Cardinality(B)
      /\ CountIn(c, x) = Cardinality(C)
  BY CountNat DEF CountIn
<1> HIDE DEF c, m, n
<1>3. A \cap T = {}
  BY <1>1
<1>4. C = A \cup T
  <2>1. \A i \in C : i \in A \/ i \in T
    <3> SUFFICES ASSUME NEW i \in C PROVE i \in A \/ i \in T
      OBVIOUS
    <3>1. CASE i <= m
      BY <1>1, <3>1
    <3>2. CASE ~(i <= m)
      <4>1. i - m \in 1 .. n /\ b[i - m] = x /\ (i - m) + m = i
        BY <1>1, <3>2
      <4>2. QED
        BY <1>1, <4>1
    <3>3. QED
      BY <3>1, <3>2
  <2>2. \A i \in A : i \in C
    BY <1>1
  <2>3. ASSUME NEW j \in B PROVE j + m \in C
    <3>1. j + m \in 1 .. m + n /\ ~(j + m <= m) /\ (j + m) - m = j /\ b[j] = x
      BY <1>1
    <3>2. QED
      BY <1>1, <3>1
  <2>4. QED
    BY <2>1, <2>2, <2>3
<1>5. B \in SUBSET Nat
  BY <1>1
<1> HIDE DEF A, B, C
<1>6. IsFiniteSet(T) /\ Cardinality(T) = Cardinality(B)
  BY <1>1, <1>2, <1>5, Shifted
<1> HIDE DEF T
<1>7. Cardinality(A \cup T) = Cardinality(A) + Cardinality(T) - Cardinality(A \cap T)
  BY <1>2, <1>6, FS_Union
<1>8. Cardinality(A \cap T) = 0
  BY <1>3, FS_EmptySet
<1>9. Cardinality(A) \in Nat /\ Cardinality(T) \in Nat
  BY <1>2, <1>6, FS_CardinalityType
<1>10. QED
  BY <1>1, <1>2, <1>4, <1>6, <1>7, <1>8, <1>9 DEF c

LEMMA CountOne ==
  ASSUME NEW e, NEW x
  PROVE  CountIn(<<e>>, x) = IF x = e THEN 1 ELSE 0
<1> DEFINE s == <<e>>
           at == {i \in DOMAIN s : s[i] = x}
<1>1. DOMAIN s = {1} /\ s[1] = e
  OBVIOUS
<1>2. at = IF x = e THEN {1} ELSE {}
  <2> HIDE DEF s
  <2>1. QED
    BY <1>1
<1>3. CountIn(s, x) = Cardinality(at)
  BY DEF CountIn
<1>4. Cardinality({1}) = 1 /\ Cardinality({}) = 0
  BY FS_Singleton, FS_EmptySet
<1> HIDE DEF at
<1>5. QED
  BY <1>2, <1>3, <1>4

LEMMA CountAppend ==
  ASSUME NEW S, NEW s \in Seq(S), NEW e \in S, NEW x
  PROVE  CountIn(Append(s, e), x) = CountIn(s, x) + (IF x = e THEN 1 ELSE 0)
<1> DEFINE one == <<e>>
<1>1. one \in Seq(S) /\ CountIn(one, x) = IF x = e THEN 1 ELSE 0
  BY CountOne
<1>2. Append(s, e) = s \o one
  BY AppendIsConcat
<1> HIDE DEF one
<1>3. CountIn(s \o one, x) = CountIn(s, x) + CountIn(one, x)
  BY <1>1, CountJoin
<1>4. QED
  BY <1>1, <1>2, <1>3

LEMMA FirstJoined ==
  ASSUME NEW S, NEW a \in Seq(S), NEW b \in Seq(S), Len(a) = 1
  PROVE  /\ a \o b \in Seq(S) /\ Len(a \o b) = Len(b) + 1 /\ (a \o b)[1] = a[1]
         /\ \A i \in 1 .. Len(b) : (a \o b)[i + 1] = b[i]
<1>1. PICK c, k : c = a \o b /\ k = Len(a)
  OBVIOUS
<1>2. Len(b) \in Nat
  BY LenProperties
<1>3. /\ c \in Seq(S) /\ Len(c) = k + Len(b)
      /\ \A i \in 1 .. k + Len(b) : c[i] = IF i <= k THEN a[i] ELSE b[i - k]
  BY <1>1, ConcatProperties
<1>4. k = 1
  BY <1>1
<1>5. c[1] = a[1]
  BY <1>2, <1>3, <1>4
<1>6. ASSUME NEW i \in 1 .. Len(b) PROVE c[i + 1] = b[i]
  <2>1. i + 1 \in 1 .. k + Len(b) /\ ~(i + 1 <= k) /\ (i + 1) - k = i
    BY <1>2, <1>4
  <2>2. QED
    BY <1>3, <2>1
<1>7. QED
  BY <1>1, <1>2, <1>3, <1>4, <1>5, <1>6

LEMMA HeadJoined ==
  ASSUME NEW S, NEW s \in Seq(S), NEW one \in Seq(S), NEW t \in Seq(S),
         Len(one) = 1, Len(s) = Len(t) + 1, one[1] = s[1],
         \A i \in 1 .. Len(t) : t[i] = s[i + 1]
  PROVE  s = one \o t
<1>1. Len(s) \in Nat /\ Len(t) \in Nat
  BY LenProperties
<1>2. PICK c : c = one \o t
  OBVIOUS
<1>3. /\ c \in Seq(S) /\ Len(c) = Len(t) + 1 /\ c[1] = one[1]
      /\ \A i \in 1 .. Len(t) : c[i + 1] = t[i]
  BY <1>2, FirstJoined
<1>4. ASSUME NEW i \in 1 .. Len(s) PROVE c[i] = s[i]
  <2>1. CASE i = 1
    BY <1>3, <2>1
  <2>2. CASE i # 1
    <3>1. i - 1 \in 1 .. Len(t) /\ (i - 1) + 1 = i
      BY <1>1, <2>2
    <3>2. c[(i - 1) + 1] = t[i - 1] /\ t[i - 1] = s[(i - 1) + 1]
      BY <1>3, <3>1
    <3>3. QED
      BY <3>1, <3>2
  <2>3. QED
    BY <2>1, <2>2
<1>5. QED
  BY <1>2, <1>3, <1>4, SeqEqual

LEMMA CountHead ==
  ASSUME NEW S, NEW s \in Seq(S), s # <<>>, NEW x
  PROVE  CountIn(s, x) = CountIn(Tail(s), x) + (IF x = Head(s) THEN 1 ELSE 0)
<1>1. PICK h, t : h = Head(s) /\ t = Tail(s)
  OBVIOUS
<1>2. /\ h \in S /\ t \in Seq(S) /\ Len(s) = Len(t) + 1 /\ h = s[1]
      /\ \A i \in 1 .. Len(t) : t[i] = s[i + 1]
  BY <1>1, HeadTailProperties, LenProperties, EmptySeq
<1>3. PICK one : one = <<h>>
  OBVIOUS
<1>4. one \in Seq(S) /\ Len(one) = 1 /\ one[1] = h /\ CountIn(one, x) = IF x = h THEN 1 ELSE 0
  BY <1>2, <1>3, CountOne
<1>5. s = one \o t
  BY <1>2, <1>4, HeadJoined
<1>6. CountIn(s, x) = CountIn(one, x) + CountIn(t, x)
  BY <1>2, <1>4, <1>5, CountJoin
<1>7. CountIn(t, x) \in Nat
  BY <1>2, CountNat
<1>8. QED
  BY <1>1, <1>4, <1>6, <1>7

LEMMA CountTo ==
  ASSUME NEW K \in SUBSET Nat, NEW k \in Nat \ {0}
  PROVE  /\ IsFiniteSet(K \cap 1 .. k) /\ Cardinality(K \cap 1 .. k) \in Nat
         /\ Cardinality(K \cap 1 .. k)
              = Cardinality(K \cap 1 .. k - 1) + (IF k \in K THEN 1 ELSE 0)
<1>1. \A j \in Nat : IsFiniteSet(K \cap 1 .. j)
  <2> SUFFICES ASSUME NEW j \in Nat PROVE IsFiniteSet(K \cap 1 .. j)
    OBVIOUS
  <2>1. IsFiniteSet(1 .. j)
    BY FS_Interval
  <2>2. QED
    BY <2>1, FS_Subset
<1>2. PICK A, B : A = K \cap 1 .. k - 1 /\ B = K \cap 1 .. k
  OBVIOUS
<1>3. IsFiniteSet(A) /\ IsFiniteSet(B) /\ Cardinality(A) \in Nat /\ Cardinality(B) \in Nat
  BY <1>1, <1>2, FS_CardinalityType
<1>4. k \notin A
  BY <1>2
<1>5. k \in K => B = A \cup {k}
  BY <1>2
<1>6. k \notin K => B = A
  BY <1>2
<1>7. Cardinality(A \cup {k}) = Cardinality(A) + 1
  BY <1>3, <1>4, FS_AddElement
<1>8. Cardinality(B) = Cardinality(A) + (IF k \in K THEN 1 ELSE 0)
  <2>1. CASE k \in K
    BY <1>5, <1>7, <2>1
  <2>2. CASE k \notin K
    BY <1>3, <1>6, <2>2
  <2>3. QED
    BY <2>1, <2>2
<1>9. QED
  BY <1>2, <1>3, <1>8

\* What is in some of the sequences that are put together once, and not in the others.
LEMMA CountFlat ==
  ASSUME NEW S, NEW seqs \in Seq(Seq(S)), NEW x, NEW K \in SUBSET (1 .. Len(seqs)),
         \A i \in 1 .. Len(seqs) : CountIn(seqs[i], x) = IF i \in K THEN 1 ELSE 0
  PROVE  CountIn(FlattenSeq(seqs), x) = Cardinality(K)
<1> DEFINE n == Len(seqs)
<1>1. n \in Nat /\ \A i \in 1 .. n : seqs[i] \in Seq(S)
  BY LenProperties, ElementOfSeq
<1>2. CASE n = 0
  <2>1. FlattenSeq(seqs) = <<>>
    BY <1>2, EmptySeq DEF FlattenSeq
  <2>2. CountIn(<<>>, x) = Cardinality({})
    <3>1. {i \in DOMAIN <<>> : <<>>[i] = x} = {}
      OBVIOUS
    <3>2. QED
      BY <3>1 DEF CountIn
  <2>3. K = {}
    BY <1>2
  <2>4. QED
    BY <2>1, <2>2, <2>3
<1>3. CASE n # 0
  <2>1. FlattenSeq(seqs) = (CHOOSE h : IsFlat(h, n, seqs))[n]
    BY <1>3, Zenon DEF FlattenSeq, IsFlat
  <2>2. \A i \in 1 .. n : CountIn(seqs[i], x) = IF i \in K THEN 1 ELSE 0
    OBVIOUS
  <2>3. K \in SUBSET (1 .. n)
    OBVIOUS
  <2> HIDE DEF n
  <2>4. PICK h : h = (CHOOSE f : IsFlat(f, n, seqs)) /\ IsFlat(h, n, seqs)
    BY <1>1, FlatExists, Zenon
  <2>5. \A i \in 1 .. n : h[i] = IF i = 1 THEN seqs[i] ELSE h[i - 1] \o seqs[i]
    BY <2>4 DEF IsFlat
  <2> DEFINE Right(i) == h[i] \in Seq(S) /\ CountIn(h[i], x) = Cardinality(K \cap 1 .. i)
             bad == {i \in 1 .. n : ~Right(i)}
  <2>6. K \in SUBSET Nat
    BY <1>1, <2>3
  <2>7. bad = {}
    <3> SUFFICES ASSUME bad # {} PROVE FALSE
      OBVIOUS
    <3>1. PICK k \in bad : \A j \in bad : k <= j
      <4>1. bad \in SUBSET Nat
        OBVIOUS
      <4> HIDE DEF bad
      <4>2. QED
        BY <4>1, Least
    <3>2. k \in 1 .. n /\ ~Right(k) /\ k \in Nat \ {0}
      OBVIOUS
    <3>3. seqs[k] \in Seq(S) /\ CountIn(seqs[k], x) = IF k \in K THEN 1 ELSE 0
      BY <1>1, <2>2, <3>2
    <3>4. /\ Cardinality(K \cap 1 .. k) = Cardinality(K \cap 1 .. k - 1) + (IF k \in K THEN 1 ELSE 0)
          /\ Cardinality(K \cap 1 .. k) \in Nat
      BY <2>6, <3>2, CountTo
    <3>5. CASE k = 1
      <4>1. h[k] = seqs[k]
        BY <2>5, <3>2, <3>5
      <4>2. K \cap 1 .. k - 1 = {}
        BY <3>5
      <4>3. Cardinality(K \cap 1 .. k - 1) = 0
        BY <4>2, FS_EmptySet
      <4>4. CountIn(h[k], x) = Cardinality(K \cap 1 .. k)
        BY <3>3, <3>4, <4>1, <4>3
      <4>5. QED
        BY <3>2, <3>3, <4>1, <4>4
    <3>6. CASE k # 1
      <4>1. k - 1 \in 1 .. n /\ k - 1 \notin bad
        BY <1>1, <3>1, <3>2, <3>6
      <4>2. Right(k - 1)
        BY <4>1
      <4>3. PICK g, e : g = h[k - 1] /\ e = seqs[k]
        OBVIOUS
      <4>4. g \in Seq(S) /\ e \in Seq(S) /\ CountIn(g, x) = Cardinality(K \cap 1 .. k - 1)
        BY <3>3, <4>2, <4>3
      <4>5. h[k] = g \o e
        BY <2>5, <3>2, <3>6, <4>3
      <4>6. g \o e \in Seq(S) /\ CountIn(g \o e, x) = CountIn(g, x) + CountIn(e, x)
        BY <4>4, CountJoin
      <4>7. CountIn(h[k], x) = Cardinality(K \cap 1 .. k)
        BY <3>3, <3>4, <4>3, <4>4, <4>5, <4>6
      <4>8. QED
        BY <3>2, <4>5, <4>6, <4>7
    <3>7. QED
      BY <3>5, <3>6
  <2>8. CountIn(h[n], x) = Cardinality(K \cap 1 .. n)
    <3>1. n \in 1 .. n
      BY <1>1, <1>3
    <3>2. n \notin bad
      BY <2>7
    <3>3. QED
      BY <3>1, <3>2
  <2>9. K \cap 1 .. n = K
    BY <2>3
  <2>10. QED
    BY <2>1, <2>4, <2>8, <2>9
<1>4. QED
  BY <1>2, <1>3

SectionOf(B, s) == [step |-> "section", sym |-> s, path |-> B]
InitOf(B) == [step |-> "init", sym |-> "LOGTYPE", path |-> B]

LEMMA CountTwo ==
  ASSUME NEW m, NEW l, m # l, NEW x
  PROVE  CountIn(<<m, l>>, x) = IF x \in {m, l} THEN 1 ELSE 0
<1>1. PICK S, s, two, three : S = {m, l} /\ s = <<m, l>> /\ two = <<m>> /\ three = <<l>>
  OBVIOUS
<1>2. /\ two \in Seq(S) /\ three \in Seq(S)
      /\ CountIn(two, x) = IF x = m THEN 1 ELSE 0
      /\ CountIn(three, x) = IF x = l THEN 1 ELSE 0
  BY <1>1, CountOne
<1>3. s = two \o three
  <2>1. /\ s \in Seq(S) /\ Len(two) = 1 /\ Len(three) = 1 /\ Len(s) = 2 /\ two[1] = s[1]
        /\ \A i \in 1 .. 1 : three[i] = s[i + 1]
    BY <1>1
  <2>2. Len(s) = Len(three) + 1 /\ \A i \in 1 .. Len(three) : three[i] = s[i + 1]
    BY <2>1
  <2>3. QED
    BY <1>2, <2>1, <2>2, HeadJoined
<1>4. CountIn(two \o three, x) = CountIn(two, x) + CountIn(three, x)
  BY <1>2, CountJoin
<1>5. QED
  BY <1>1, <1>2, <1>3, <1>4

LEMMA CountSteps ==
  ASSUME NEW sym \in SectionWords, NEW C \in Seq(STRING), NEW x
  PROVE  CountIn(Steps(sym, C), x) = IF x \in NewItems(sym, C) THEN 1 ELSE 0
<1>1. PICK i, m, l : /\ i = [step |-> "init", sym |-> sym, path |-> C]
                     /\ m = SectionOf(C, "MAX_OFFENSES") /\ l = SectionOf(C, "LOGTYPE")
  OBVIOUS
<1>2. NewItems(sym, C) = {i, m, l}
  BY <1>1 DEF NewItems, SectionWords, SectionOf
<1>3. i # m /\ i # l /\ m # l
  <2>1. i.step = "init" /\ m.step = "section" /\ l.step = "section" /\ m.sym # l.sym
    BY <1>1 DEF SectionOf
  <2>2. QED
    BY <2>1
<1>4. PICK S, one, rest : S = {i, m, l} /\ one = <<i>> /\ rest = <<m, l>>
  OBVIOUS
<1>5. Steps(sym, C) = one \o rest
  BY <1>1, <1>4 DEF Steps, Sections, SectionOf
<1>6. /\ one \in Seq(S) /\ rest \in Seq(S)
      /\ CountIn(one, x) = IF x = i THEN 1 ELSE 0
      /\ CountIn(rest, x) = IF x \in {m, l} THEN 1 ELSE 0
  BY <1>3, <1>4, CountOne, CountTwo
<1>7. CountIn(one \o rest, x) = CountIn(one, x) + CountIn(rest, x)
  BY <1>6, CountJoin
<1>8. QED
  BY <1>2, <1>3, <1>5, <1>6, <1>7

\* How often something is on the list after a section has been walked.
LEMMA CountWalked ==
  ASSUME StartInv, todo # <<>>, NEW sym \in SectionWords, NEW B \in Seq(STRING),
         NEW x, NEW vals, vals = Strs(Append(B, sym))
  PROVE  CountIn(WalkedList(B, sym), x)
           = Cardinality({i \in DOMAIN vals : x \in NewItems(sym, Append(B, vals[i]))})
               + CountIn(Tail(todo), x)
<1>1. PICK n : n = Len(Vals(Append(B, sym)))
  OBVIOUS
<1>2. n \in Nat /\ DOMAIN vals = 1 .. n /\ \A i \in 1 .. n : vals[i] \in STRING
  BY <1>1, StrsTyped DEF StartInv, MapInv
<1>3. PICK seqs : seqs = [i \in DOMAIN vals |-> Steps(sym, Append(B, vals[i]))]
  OBVIOUS
<1>4. ASSUME NEW i \in 1 .. n
      PROVE  Append(B, vals[i]) \in Seq(STRING) /\ Steps(sym, Append(B, vals[i])) \in Seq(Work)
  <2>1. Append(B, vals[i]) \in Seq(STRING)
    BY <1>2, AppendProperties
  <2>2. QED
    BY <2>1, StepsTyped DEF SectionWords
<1>5. seqs \in [1 .. n -> Seq(Work)] /\ \A i \in 1 .. n : seqs[i] = Steps(sym, Append(B, vals[i]))
  BY <1>2, <1>3, <1>4
<1>6. seqs \in Seq(Seq(Work)) /\ Len(seqs) = n
  <2>1. seqs \in Seq(Seq(Work))
    BY <1>2, <1>5, SeqDef
  <2>2. QED
    BY <1>2, <1>5, <2>1, LenProperties
<1>7. PICK K : K = {i \in DOMAIN vals : x \in NewItems(sym, Append(B, vals[i]))}
  OBVIOUS
<1>8. K \in SUBSET (1 .. Len(seqs))
  BY <1>2, <1>6, <1>7
<1>9. ASSUME NEW i \in 1 .. Len(seqs)
      PROVE  CountIn(seqs[i], x) = IF i \in K THEN 1 ELSE 0
  <2>1. i \in 1 .. n /\ i \in DOMAIN vals
    BY <1>2, <1>6
  <2>2. CountIn(Steps(sym, Append(B, vals[i])), x)
          = IF x \in NewItems(sym, Append(B, vals[i])) THEN 1 ELSE 0
    BY <1>4, <2>1, CountSteps
  <2>3. QED
    BY <1>5, <1>7, <2>1, <2>2
<1>10. CountIn(FlattenSeq(seqs), x) = Cardinality(K)
  BY <1>6, <1>8, <1>9, CountFlat
<1>11. PICK f, t : f = FlattenSeq(seqs) /\ t = Tail(todo)
  OBVIOUS
<1>12. f \in Seq(Work) /\ t \in Seq(Work)
  BY <1>6, <1>11, FlattenTyped, ItemTyped DEF StartInv
<1>13. WalkedList(B, sym) = f \o t
  BY <1>3, <1>11 DEF WalkedList
<1>14. CountIn(f \o t, x) = CountIn(f, x) + CountIn(t, x)
  BY <1>12, CountJoin
<1>15. QED
  BY <1>7, <1>10, <1>11, <1>13, <1>14

\* Of what a section puts on the list, what is for one block.
LEMMA NewItemsIs ==
  ASSUME NEW sym \in SectionWords, NEW C, NEW D
  PROVE  /\ \A s \in SectionWords : SectionOf(D, s) \in NewItems(sym, C) <=> D = C
         /\ InitOf(D) \in NewItems(sym, C) <=> D = C /\ sym = "LOGTYPE"
<1>1. ASSUME NEW s \in SectionWords
      PROVE  SectionOf(D, s) \in NewItems(sym, C) <=> D = C
  <2>1. PICK x : x = SectionOf(D, s)
    OBVIOUS
  <2>2. x.step = "section" /\ x.sym = s /\ x.path = D
    BY <2>1 DEF SectionOf
  <2>3. x \in NewItems(sym, C) => D = C
    BY <2>2 DEF NewItems
  <2>4. D = C => x \in NewItems(sym, C)
    BY <2>1 DEF SectionOf, NewItems
  <2>5. QED
    BY <2>1, <2>3, <2>4
<1>2. PICK x : x = InitOf(D)
  OBVIOUS
<1>3. x.step = "init" /\ x.sym = "LOGTYPE" /\ x.path = D
  BY <1>2 DEF InitOf
<1>4. x \in NewItems(sym, C) => D = C /\ sym = "LOGTYPE"
  BY <1>3 DEF NewItems
<1>5. D = C /\ sym = "LOGTYPE" => x \in NewItems(sym, C)
  BY <1>2 DEF InitOf, NewItems
<1>6. QED
  BY <1>1, <1>2, <1>4, <1>5

\* A section puts nothing on the list for the top, and of each block it names, what
\* is to be done for it as often as it names it.
LEMMA WalkedTop ==
  ASSUME StartInv, todo # <<>>, NEW sym \in SectionWords, NEW B \in Seq(STRING)
  PROVE  /\ \A s \in SectionWords :
              CountIn(WalkedList(B, sym), SectionOf(<<>>, s)) = CountIn(Tail(todo), SectionOf(<<>>, s))
         /\ CountIn(WalkedList(B, sym), InitOf(<<>>)) = CountIn(Tail(todo), InitOf(<<>>))
<1>1. PICK vals : vals = Strs(Append(B, sym))
  OBVIOUS
<1>2. \A i \in DOMAIN vals : vals[i] \in STRING
  BY <1>1, StrsTyped DEF StartInv, MapInv
<1>3. Tail(todo) \in Seq(Work)
  BY ItemTyped DEF StartInv
<1>4. ASSUME NEW x, \A i \in DOMAIN vals : x \notin NewItems(sym, Append(B, vals[i]))
      PROVE  CountIn(WalkedList(B, sym), x) = CountIn(Tail(todo), x)
  <2>1. PICK K : K = {i \in DOMAIN vals : x \in NewItems(sym, Append(B, vals[i]))}
    OBVIOUS
  <2>2. CountIn(WalkedList(B, sym), x) = Cardinality(K) + CountIn(Tail(todo), x)
    BY <1>1, <2>1, CountWalked
  <2>3. Cardinality(K) = 0
    <3>1. K = {}
      BY <1>4, <2>1
    <3>2. QED
      BY <3>1, FS_EmptySet
  <2>4. CountIn(Tail(todo), x) \in Nat
    BY <1>3, CountNat
  <2>5. QED
    BY <2>2, <2>3, <2>4
<1>5. \A i \in DOMAIN vals : Append(B, vals[i]) # <<>>
  BY <1>2, AppendParts
<1>6. ASSUME NEW s \in SectionWords
      PROVE  CountIn(WalkedList(B, sym), SectionOf(<<>>, s)) = CountIn(Tail(todo), SectionOf(<<>>, s))
  <2>1. \A i \in DOMAIN vals : SectionOf(<<>>, s) \notin NewItems(sym, Append(B, vals[i]))
    BY <1>5, NewItemsIs
  <2>2. QED
    BY <1>4, <2>1
<1>7. CountIn(WalkedList(B, sym), InitOf(<<>>)) = CountIn(Tail(todo), InitOf(<<>>))
  <2>1. ASSUME NEW i \in DOMAIN vals
        PROVE  InitOf(<<>>) \notin NewItems(sym, Append(B, vals[i]))
    <3>1. PICK C, D : C = Append(B, vals[i]) /\ D = <<>>
      OBVIOUS
    <3>2. InitOf(D) \in NewItems(sym, C) => D = C
      BY NewItemsIs
    <3>3. QED
      BY <1>5, <3>1, <3>2
  <2>2. QED
    BY <1>4, <2>1
<1>8. QED
  BY <1>6, <1>7

LEMMA WalkedBlock ==
  ASSUME StartInv, todo # <<>>, NEW sym \in SectionWords, NEW B \in Seq(STRING),
         NEW C \in Seq(STRING), NEW v \in STRING
  PROVE  /\ \A s \in SectionWords :
              CountIn(WalkedList(B, sym), SectionOf(Append(C, v), s))
                = (IF C = B THEN NamedBy(Append(B, v), sym) ELSE 0)
                    + CountIn(Tail(todo), SectionOf(Append(C, v), s))
         /\ CountIn(WalkedList(B, sym), InitOf(Append(C, v)))
              = (IF C = B /\ sym = "LOGTYPE" THEN NamedBy(Append(B, v), sym) ELSE 0)
                  + CountIn(Tail(todo), InitOf(Append(C, v)))
<1>1. PICK vals : vals = Strs(Append(B, sym))
  OBVIOUS
<1>2. \A i \in DOMAIN vals : vals[i] \in STRING
  BY <1>1, StrsTyped DEF StartInv, MapInv
<1>3. PICK named : named = {i \in DOMAIN vals : vals[i] = v}
  OBVIOUS
<1>4. NamedBy(Append(B, v), sym) = Cardinality(named)
  BY <1>1, <1>3, AppendParts DEF NamedBy
<1>5. \A i \in DOMAIN vals : Append(C, v) = Append(B, vals[i]) <=> C = B /\ vals[i] = v
  <2>1. Front(Append(C, v)) = C /\ Last(Append(C, v)) = v
    BY AppendParts
  <2>2. \A i \in DOMAIN vals : Front(Append(B, vals[i])) = B /\ Last(Append(B, vals[i])) = vals[i]
    BY <1>2, AppendParts
  <2>3. QED
    BY <2>1, <2>2
<1>6. Cardinality({}) = 0
  BY FS_EmptySet
<1>7. ASSUME NEW x, NEW hit \in BOOLEAN,
             \A i \in DOMAIN vals : x \in NewItems(sym, Append(B, vals[i])) <=> hit /\ vals[i] = v
      PROVE  CountIn(WalkedList(B, sym), x)
               = (IF hit THEN NamedBy(Append(B, v), sym) ELSE 0) + CountIn(Tail(todo), x)
  <2>1. PICK K : K = {i \in DOMAIN vals : x \in NewItems(sym, Append(B, vals[i]))}
    OBVIOUS
  <2>2. CountIn(WalkedList(B, sym), x) = Cardinality(K) + CountIn(Tail(todo), x)
    BY <1>1, <2>1, CountWalked
  <2>3. K = IF hit THEN named ELSE {}
    BY <1>3, <1>7, <2>1
  <2>4. QED
    BY <1>4, <1>6, <2>2, <2>3
<1>8. ASSUME NEW s \in SectionWords
      PROVE  CountIn(WalkedList(B, sym), SectionOf(Append(C, v), s))
                = (IF C = B THEN NamedBy(Append(B, v), sym) ELSE 0)
                    + CountIn(Tail(todo), SectionOf(Append(C, v), s))
  <2>1. PICK x : x = SectionOf(Append(C, v), s)
    OBVIOUS
  <2>2. PICK hit \in BOOLEAN : hit <=> C = B
    OBVIOUS
  <2>3. ASSUME NEW i \in DOMAIN vals
        PROVE  x \in NewItems(sym, Append(B, vals[i])) <=> hit /\ vals[i] = v
    <3>1. PICK D, E : D = Append(C, v) /\ E = Append(B, vals[i])
      OBVIOUS
    <3>2. SectionOf(D, s) \in NewItems(sym, E) <=> D = E
      BY NewItemsIs
    <3>3. QED
      BY <1>5, <2>1, <2>2, <3>1, <3>2
  <2>4. QED
    BY <1>7, <2>1, <2>2, <2>3
<1>9. CountIn(WalkedList(B, sym), InitOf(Append(C, v)))
        = (IF C = B /\ sym = "LOGTYPE" THEN NamedBy(Append(B, v), sym) ELSE 0)
            + CountIn(Tail(todo), InitOf(Append(C, v)))
  <2>1. PICK x : x = InitOf(Append(C, v))
    OBVIOUS
  <2>2. PICK hit \in BOOLEAN : hit <=> C = B /\ sym = "LOGTYPE"
    OBVIOUS
  <2>3. ASSUME NEW i \in DOMAIN vals
        PROVE  x \in NewItems(sym, Append(B, vals[i])) <=> hit /\ vals[i] = v
    <3>1. PICK D, E : D = Append(C, v) /\ E = Append(B, vals[i])
      OBVIOUS
    <3>2. InitOf(D) \in NewItems(sym, E) <=> D = E /\ sym = "LOGTYPE"
      BY NewItemsIs
    <3>3. QED
      BY <1>5, <2>1, <2>2, <3>1, <3>2
  <2>4. QED
    BY <1>7, <2>1, <2>2, <2>3
<1>10. QED
  BY <1>8, <1>9

\* What is done leaves the list.
LEMMA CountItem ==
  ASSUME StartInv, todo # <<>>, NEW x
  PROVE  /\ CountIn(todo, x) = CountIn(Tail(todo), x) + (IF x = Item THEN 1 ELSE 0)
         /\ CountIn(Tail(todo), x) \in Nat
<1>1. todo \in Seq(Work) /\ Tail(todo) \in Seq(Work)
  BY ItemTyped DEF StartInv, MainTypeOK
<1>2. QED
  BY <1>1, CountHead, CountNat DEF Item

---------------------------------------------------------------------------
(* How often each block is walked and initialised.                         *)

\* How often the sections of each block have been walked, or will be now: once at the
\* top, and in a block as often as the walked sections around it name it.
NamedIn(d, C, v, sym) == NamedBy(Append(C, v), sym) * d[<<C, sym>>]
WalksTop(d) == \A s \in SectionWords : d[<< <<>>, s>>] + CountIn(todo, SectionOf(<<>>, s)) = 1
WalksBlock(d) ==
  \A C \in Seq(STRING), v \in STRING, s \in SectionWords :
    d[<<Append(C, v), s>>] + CountIn(todo, SectionOf(Append(C, v), s))
      = NamedIn(d, C, v, "MAX_OFFENSES") + NamedIn(d, C, v, "LOGTYPE")
Walks(d) == d \in [Seq(STRING) \X SectionWords -> Nat] /\ WalksTop(d) /\ WalksBlock(d)

\* The blocks of which there is a log type, as often as the walked sections name them.
TypesOf(o) == [i \in 1 .. Len(o) |-> LogTypeOf(o[i])]
MadeTop(o) == CountIn(o, <<>>) + CountIn(todo, InitOf(<<>>)) = 0
MadeBlock(d, o) ==
  \A C \in Seq(STRING), v \in STRING :
    CountIn(o, Append(C, v)) + CountIn(todo, InitOf(Append(C, v))) = NamedIn(d, C, v, "LOGTYPE")
Made(d, o) ==
  /\ o \in Seq(Seq(STRING)) /\ MadeTop(o) /\ MadeBlock(d, o)
  /\ logType_map = TypesOf(o) /\ \A i \in 1 .. Len(o) : ~LogTypeFails(LogTypeOf(o[i]))

TypesInv ==
  /\ pc \in {"options", "parse"} => logType_map = <<>>
  /\ pc \in {"report", "block"} => MayPrune
  /\ pc \in {"configure", "report", "block"} /\ MayPrune => \E d, o : Walks(d) /\ Made(d, o)
TallyInv == ReportInv /\ TypesInv

LEMMA SameTypes ==
  ASSUME UNCHANGED entry_map
  PROVE  /\ \A p : LogTypeOf(p)' = LogTypeOf(p)
         /\ \A o : TypesOf(o)' = TypesOf(o)
         /\ \A d, C, v, sym : NamedIn(d, C, v, sym)' = NamedIn(d, C, v, sym)
<1>1. /\ \A p : Strs(p)' = Strs(p) /\ LastValue(p)' = LastValue(p)
      /\ \A p, sym : NamedBy(p, sym)' = NamedBy(p, sym)
  BY SameMap
<1>2. \A p : LogTypeOf(p)' = LogTypeOf(p)
  <2>1. \A p : TsOf(p)' = TsOf(p) /\ TargetOf(p)' = TargetOf(p)
    BY <1>1 DEF TsOf, TargetOf
  <2>2. QED
    BY <1>1, <2>1 DEF LogTypeOf
<1>3. QED
  BY <1>1, <1>2 DEF TypesOf, NamedIn

LEMMA SameTally ==
  ASSUME UNCHANGED <<entry_map, todo, logType_map>>, NEW d, NEW o, Walks(d), Made(d, o)
  PROVE  Walks(d)' /\ Made(d, o)'
<1>1. /\ \A p : LogTypeOf(p)' = LogTypeOf(p)
      /\ \A q : TypesOf(q)' = TypesOf(q)
      /\ \A e, C, v, sym : NamedIn(e, C, v, sym)' = NamedIn(e, C, v, sym)
  BY SameTypes
<1>2. todo' = todo /\ logType_map' = logType_map
  OBVIOUS
<1>3. Walks(d)'
  BY <1>1, <1>2 DEF Walks, WalksTop, WalksBlock
<1>4. Made(d, o)'
  BY <1>1, <1>2 DEF Made, MadeTop, MadeBlock
<1>5. QED
  BY <1>3, <1>4

\* A section that is walked is walked once more, and its blocks are on the list.
LEMMA SectionTally ==
  ASSUME StartInv, todo # <<>>, NEW sym \in SectionWords, NEW B \in Seq(STRING),
         Item = SectionOf(B, sym), UNCHANGED <<entry_map, logType_map>>,
         todo' = WalkedList(B, sym), NEW d, NEW o, Walks(d), Made(d, o),
         NEW e, e = [d EXCEPT ![<<B, sym>>] = @ + 1]
  PROVE  Walks(e)' /\ Made(e, o)'
<1>1. /\ \A p : LogTypeOf(p)' = LogTypeOf(p)
      /\ \A q : TypesOf(q)' = TypesOf(q)
      /\ \A f, C, v, s : NamedIn(f, C, v, s)' = NamedIn(f, C, v, s)
  BY SameTypes
<1>2. /\ d \in [Seq(STRING) \X SectionWords -> Nat] /\ e \in [Seq(STRING) \X SectionWords -> Nat]
      /\ \A C \in Seq(STRING), s \in SectionWords :
           d[<<C, s>>] \in Nat /\ e[<<C, s>>] = d[<<C, s>>] + (IF C = B /\ s = sym THEN 1 ELSE 0)
  <2>1. PICK D : D = Seq(STRING) \X SectionWords
    OBVIOUS
  <2>2. <<B, sym>> \in D /\ d \in [D -> Nat]
    BY <2>1 DEF Walks
  <2>3. e \in [D -> Nat] /\ \A k \in D : e[k] = IF k = <<B, sym>> THEN d[k] + 1 ELSE d[k]
    <3>1. PICK b : b = <<B, sym>>
      OBVIOUS
    <3>2. b \in D /\ e = [d EXCEPT ![b] = @ + 1]
      BY <2>2, <3>1
    <3>3. d[b] + 1 \in Nat
      BY <2>2, <3>2
    <3>4. e \in [D -> Nat] /\ \A k \in D : e[k] = IF k = b THEN d[k] + 1 ELSE d[k]
      BY <2>2, <3>2, <3>3
    <3>5. QED
      BY <3>1, <3>4
  <2>4. ASSUME NEW C \in Seq(STRING), NEW s \in SectionWords
        PROVE  /\ d[<<C, s>>] \in Nat
               /\ e[<<C, s>>] = d[<<C, s>>] + (IF C = B /\ s = sym THEN 1 ELSE 0)
    <3>1. PICK k : k = <<C, s>>
      OBVIOUS
    <3>2. k \in D /\ (k = <<B, sym>> <=> C = B /\ s = sym)
      BY <2>1, <3>1
    <3>3. d[k] \in Nat /\ e[k] = IF k = <<B, sym>> THEN d[k] + 1 ELSE d[k]
      BY <2>2, <2>3, <3>2
    <3>4. QED
      BY <3>1, <3>2, <3>3
  <2>5. QED
    BY <2>1, <2>2, <2>3, <2>4
<1>3. \A C, s : SectionOf(C, s) = Item <=> C = B /\ s = sym
  <2>1. \A C, s : SectionOf(C, s).path = C /\ SectionOf(C, s).sym = s
    BY DEF SectionOf
  <2>2. QED
    BY <2>1
<1>4. \A C : InitOf(C) # Item
  <2>1. \A C : InitOf(C).step = "init" /\ Item.step = "section"
    BY DEF SectionOf, InitOf
  <2>2. QED
    BY <2>1
<1>5. \A x : /\ CountIn(todo, x) = CountIn(Tail(todo), x) + (IF x = Item THEN 1 ELSE 0)
             /\ CountIn(Tail(todo), x) \in Nat
  BY CountItem
<1>6. WalksTop(e)'
  <2> SUFFICES ASSUME NEW s \in SectionWords
               PROVE  e[<< <<>>, s>>] + CountIn(todo', SectionOf(<<>>, s)) = 1
    BY DEF WalksTop
  <2>1. CountIn(todo', SectionOf(<<>>, s)) = CountIn(Tail(todo), SectionOf(<<>>, s))
    BY WalkedTop
  <2>2. d[<< <<>>, s>>] + CountIn(todo, SectionOf(<<>>, s)) = 1
    BY DEF Walks, WalksTop
  <2>3. PICK C, x : C = <<>> /\ x = SectionOf(C, s)
    OBVIOUS
  <2>4. C \in Seq(STRING)
    BY <2>3
  <2>5. d[<<C, s>>] \in Nat /\ e[<<C, s>>] = d[<<C, s>>] + (IF C = B /\ s = sym THEN 1 ELSE 0)
    BY <1>2, <2>4
  <2>6. x = Item <=> C = B /\ s = sym
    BY <1>3, <2>3
  <2>7. d[<<C, s>>] + CountIn(todo, x) = 1 /\ CountIn(todo', x) = CountIn(Tail(todo), x)
    BY <2>1, <2>2, <2>3
  <2>8. e[<<C, s>>] + CountIn(todo', x) = 1
    BY <1>5, <2>5, <2>6, <2>7
  <2>9. QED
    BY <2>3, <2>8
<1>7. ASSUME NEW C \in Seq(STRING), NEW v \in STRING
      PROVE  /\ \A s \in SectionWords : NamedIn(e, C, v, s) = NamedIn(d, C, v, s)
                  + (IF C = B /\ s = sym THEN NamedBy(Append(B, v), sym) ELSE 0)
             /\ \A s \in SectionWords : NamedIn(d, C, v, s) \in Nat
             /\ NamedBy(Append(B, v), sym) \in Nat
  <2>1. CfgTypeOK
    BY DEF StartInv, MapInv
  <2>2. ASSUME NEW s \in SectionWords
        PROVE  /\ NamedIn(d, C, v, s) \in Nat
               /\ NamedIn(e, C, v, s) = NamedIn(d, C, v, s)
                    + (IF C = B /\ s = sym THEN NamedBy(Append(B, v), sym) ELSE 0)
    <3>1. PICK n, k : n = NamedBy(Append(C, v), s) /\ k = d[<<C, s>>]
      OBVIOUS
    <3>2. n \in Nat /\ k \in Nat
      BY <1>2, <2>1, <3>1, NamedByIs
    <3>3. n * k \in Nat /\ n * (k + 1) = n * k + n /\ n * (k + 0) = n * k + 0
      BY <3>2
    <3>4. NamedIn(d, C, v, s) = n * k
      BY <3>1 DEF NamedIn
    <3>5. NamedIn(e, C, v, s) = n * (k + (IF C = B /\ s = sym THEN 1 ELSE 0))
      BY <1>2, <3>1 DEF NamedIn
    <3>6. CASE C = B /\ s = sym
      BY <3>1, <3>3, <3>4, <3>5, <3>6
    <3>7. CASE ~(C = B /\ s = sym)
      BY <3>3, <3>4, <3>5, <3>7
    <3>8. QED
      BY <3>3, <3>4, <3>6, <3>7
  <2>3. NamedBy(Append(B, v), sym) \in Nat
    BY <2>1, NamedByIs
  <2>4. QED
    BY <2>2, <2>3
<1>8. WalksBlock(e)'
  <2> SUFFICES ASSUME NEW C \in Seq(STRING), NEW v \in STRING, NEW s \in SectionWords
               PROVE  e[<<Append(C, v), s>>] + CountIn(todo', SectionOf(Append(C, v), s))
                        = NamedIn(e, C, v, "MAX_OFFENSES") + NamedIn(e, C, v, "LOGTYPE")
    BY <1>1 DEF WalksBlock
  <2>1. PICK D, x, n : D = Append(C, v) /\ x = SectionOf(D, s) /\ n = NamedBy(Append(B, v), sym)
    OBVIOUS
  <2>2. D \in Seq(STRING)
    BY <2>1, AppendProperties
  <2>3. CountIn(todo', x) = (IF C = B THEN n ELSE 0) + CountIn(Tail(todo), x)
    BY <2>1, WalkedBlock
  <2>4. d[<<D, s>>] + CountIn(todo, x) = NamedIn(d, C, v, "MAX_OFFENSES") + NamedIn(d, C, v, "LOGTYPE")
    BY <2>1 DEF Walks, WalksBlock
  <2>5. d[<<D, s>>] \in Nat /\ e[<<D, s>>] = d[<<D, s>>] + (IF D = B /\ s = sym THEN 1 ELSE 0)
    BY <1>2, <2>2
  <2>6. x = Item <=> D = B /\ s = sym
    <3>1. SectionOf(D, s) = Item <=> D = B /\ s = sym
      BY <1>3
    <3>2. QED
      BY <2>1, <3>1
  <2>7. /\ NamedIn(e, C, v, "MAX_OFFENSES") + NamedIn(e, C, v, "LOGTYPE")
             = NamedIn(d, C, v, "MAX_OFFENSES") + NamedIn(d, C, v, "LOGTYPE") + (IF C = B THEN n ELSE 0)
        /\ NamedIn(d, C, v, "MAX_OFFENSES") + NamedIn(d, C, v, "LOGTYPE") \in Nat
    <3>1. /\ NamedIn(e, C, v, "MAX_OFFENSES") = NamedIn(d, C, v, "MAX_OFFENSES")
               + (IF C = B /\ "MAX_OFFENSES" = sym THEN n ELSE 0)
          /\ NamedIn(e, C, v, "LOGTYPE") = NamedIn(d, C, v, "LOGTYPE")
               + (IF C = B /\ "LOGTYPE" = sym THEN n ELSE 0)
          /\ NamedIn(d, C, v, "MAX_OFFENSES") \in Nat /\ NamedIn(d, C, v, "LOGTYPE") \in Nat
          /\ n \in Nat
      BY <1>7, <2>1 DEF SectionWords
    <3>2. PICK m, l : m = NamedIn(d, C, v, "MAX_OFFENSES") /\ l = NamedIn(d, C, v, "LOGTYPE")
      OBVIOUS
    <3>3. m \in Nat /\ l \in Nat /\ n \in Nat
      BY <3>1, <3>2
    <3>4. CASE sym = "MAX_OFFENSES"
      <4>1. /\ NamedIn(e, C, v, "MAX_OFFENSES") = m + (IF C = B THEN n ELSE 0)
            /\ NamedIn(e, C, v, "LOGTYPE") = l
        BY <3>1, <3>2, <3>3, <3>4
      <4>2. QED
        BY <3>2, <3>3, <4>1
    <3>5. CASE sym = "LOGTYPE"
      <4>1. /\ NamedIn(e, C, v, "MAX_OFFENSES") = m
            /\ NamedIn(e, C, v, "LOGTYPE") = l + (IF C = B THEN n ELSE 0)
        BY <3>1, <3>2, <3>3, <3>5
      <4>2. QED
        BY <3>2, <3>3, <4>1
    <3>6. QED
      BY <3>4, <3>5 DEF SectionWords
  <2>8. e[<<D, s>>] + CountIn(todo', x) = NamedIn(e, C, v, "MAX_OFFENSES") + NamedIn(e, C, v, "LOGTYPE")
    <3>1. PICK a, b, u, w : a = d[<<D, s>>] /\ b = CountIn(Tail(todo), x) /\ u = (IF C = B THEN n ELSE 0)
                            /\ w = (IF x = Item THEN 1 ELSE 0)
      OBVIOUS
    <3>2. a \in Nat /\ b \in Nat /\ u \in Nat /\ w \in Nat /\ CountIn(todo, x) = b + w
      BY <1>5, <1>7, <2>1, <2>5, <3>1
    <3>3. e[<<D, s>>] = a + w /\ CountIn(todo', x) = u + b
      BY <2>3, <2>5, <2>6, <3>1
    <3>4. QED
      BY <2>4, <2>7, <3>1, <3>2, <3>3
  <2>9. QED
    BY <2>1, <2>8
<1>9. MadeTop(o)'
  <2>1. CountIn(todo', InitOf(<<>>)) = CountIn(Tail(todo), InitOf(<<>>))
    BY WalkedTop
  <2>2. PICK x : x = InitOf(<<>>)
    OBVIOUS
  <2>3. CountIn(todo, x) = CountIn(Tail(todo), x) + (IF x = Item THEN 1 ELSE 0) /\ CountIn(Tail(todo), x) \in Nat
    BY <1>5
  <2>4. x # Item
    BY <1>4, <2>2
  <2>5. CountIn(o, <<>>) + CountIn(todo, x) = 0
    BY <2>2 DEF Made, MadeTop
  <2>6. CountIn(todo', x) = CountIn(todo, x)
    BY <2>1, <2>2, <2>3, <2>4
  <2>7. QED
    BY <2>2, <2>5, <2>6 DEF MadeTop
<1>10. MadeBlock(e, o)'
  <2> SUFFICES ASSUME NEW C \in Seq(STRING), NEW v \in STRING
               PROVE  CountIn(o, Append(C, v)) + CountIn(todo', InitOf(Append(C, v)))
                        = NamedIn(e, C, v, "LOGTYPE")
    BY <1>1 DEF MadeBlock
  <2>1. PICK D, x, n : D = Append(C, v) /\ x = InitOf(D) /\ n = NamedBy(Append(B, v), sym)
    OBVIOUS
  <2>2. CountIn(todo', x) = (IF C = B /\ sym = "LOGTYPE" THEN n ELSE 0) + CountIn(Tail(todo), x)
    BY <2>1, WalkedBlock
  <2>3. CountIn(o, D) + CountIn(todo, x) = NamedIn(d, C, v, "LOGTYPE")
    BY <2>1 DEF Made, MadeBlock
  <2>4. CountIn(o, D) \in Nat
    BY CountNat DEF Made
  <2>5. CountIn(todo, x) = CountIn(Tail(todo), x) /\ CountIn(Tail(todo), x) \in Nat
    <3>1. InitOf(D) # Item
      BY <1>4
    <3>2. CountIn(todo, x) = CountIn(Tail(todo), x) + (IF x = Item THEN 1 ELSE 0)
          /\ CountIn(Tail(todo), x) \in Nat
      BY <1>5
    <3>3. x # Item
      BY <2>1, <3>1
    <3>4. QED
      BY <3>2, <3>3
  <2>6. n \in Nat /\ NamedIn(e, C, v, "LOGTYPE")
                       = NamedIn(d, C, v, "LOGTYPE") + (IF C = B /\ sym = "LOGTYPE" THEN n ELSE 0)
    BY <1>7, <2>1 DEF SectionWords
  <2>7. CountIn(o, D) + CountIn(todo', x) = NamedIn(e, C, v, "LOGTYPE")
    <3>1. PICK a, b, u : a = CountIn(o, D) /\ b = CountIn(Tail(todo), x)
                         /\ u = (IF C = B /\ sym = "LOGTYPE" THEN n ELSE 0)
      OBVIOUS
    <3>2. a \in Nat /\ b \in Nat /\ u \in Nat
      BY <2>4, <2>5, <2>6, <3>1
    <3>3. CountIn(todo', x) = u + b /\ NamedIn(d, C, v, "LOGTYPE") = a + b
          /\ NamedIn(e, C, v, "LOGTYPE") = NamedIn(d, C, v, "LOGTYPE") + u
      BY <2>2, <2>3, <2>5, <2>6, <3>1
    <3>4. QED
      BY <3>1, <3>2, <3>3
  <2>8. QED
    BY <2>1, <2>7
<1>11. QED
  BY <1>1, <1>2, <1>6, <1>8, <1>9, <1>10 DEF Walks, Made

LEMMA MaxOffTally ==
  ASSUME StartInv, todo # <<>>, Item.step = "init", Item.sym = "MAX_OFFENSES",
         UNCHANGED <<entry_map, logType_map>>, todo' = Tail(todo),
         NEW d, NEW o, Walks(d), Made(d, o)
  PROVE  Walks(d)' /\ Made(d, o)'
<1>1. /\ \A q : TypesOf(q)' = TypesOf(q)
      /\ \A f, C, v, s : NamedIn(f, C, v, s)' = NamedIn(f, C, v, s)
      /\ \A p : LogTypeOf(p)' = LogTypeOf(p)
  BY SameTypes
<1>2. ASSUME NEW x, x # Item
      PROVE  CountIn(todo', x) = CountIn(todo, x)
  BY <1>2, CountItem
<1>3. ASSUME NEW C, NEW s
      PROVE  CountIn(todo', SectionOf(C, s)) = CountIn(todo, SectionOf(C, s))
  <2>1. SectionOf(C, s).step = "section"
    BY DEF SectionOf
  <2>2. QED
    BY <1>2, <2>1
<1>4. ASSUME NEW C
      PROVE  CountIn(todo', InitOf(C)) = CountIn(todo, InitOf(C))
  <2>1. InitOf(C).sym = "LOGTYPE"
    BY DEF InitOf
  <2>2. QED
    BY <1>2, <2>1
<1>5. Walks(d)'
  BY <1>1, <1>3 DEF Walks, WalksTop, WalksBlock
<1>6. Made(d, o)'
  BY <1>1, <1>4 DEF Made, MadeTop, MadeBlock
<1>7. QED
  BY <1>5, <1>6

LEMMA TypesAppend ==
  ASSUME NEW o \in Seq(Seq(STRING)), NEW B \in Seq(STRING)
  PROVE  /\ Append(o, B) \in Seq(Seq(STRING)) /\ Len(Append(o, B)) = Len(o) + 1 /\ Len(o) \in Nat
         /\ \A i \in 1 .. Len(o) : Append(o, B)[i] = o[i]
         /\ Append(o, B)[Len(o) + 1] = B
         /\ Append(TypesOf(o), LogTypeOf(B)) = TypesOf(Append(o, B))
<1>1. PICK n, p, t : n = Len(o) /\ p = Append(o, B) /\ t = TypesOf(o)
  OBVIOUS
<1>2. /\ p \in Seq(Seq(STRING)) /\ Len(p) = n + 1 /\ n \in Nat
      /\ (\A i \in 1 .. n : p[i] = o[i]) /\ p[n + 1] = B
  BY <1>1, AppendProperties, LenProperties
<1>3. PICK S : S = {LogTypeOf(q) : q \in Seq(STRING)}
  OBVIOUS
<1>4. \A i \in 1 .. n : o[i] \in Seq(STRING)
  BY <1>1, ElementOfSeq
<1>5. t = [i \in 1 .. n |-> LogTypeOf(o[i])]
  BY <1>1 DEF TypesOf
<1>6. t \in Seq(S) /\ Len(t) = n
  <2>1. t \in [1 .. n -> S]
    BY <1>3, <1>4, <1>5
  <2>2. t \in Seq(S)
    BY <1>2, <2>1, SeqDef
  <2>3. QED
    BY <1>2, <2>1, <2>2, LenProperties
<1>7. PICK e, u : e = LogTypeOf(B) /\ u = Append(t, e)
  OBVIOUS
<1>8. e \in S
  BY <1>3, <1>7
<1>9. u \in Seq(S) /\ Len(u) = n + 1 /\ (\A i \in 1 .. n : u[i] = t[i]) /\ u[n + 1] = e
  BY <1>6, <1>7, <1>8, AppendProperties
<1>10. PICK w : w = TypesOf(p)
  OBVIOUS
<1>11. w = [i \in 1 .. n + 1 |-> LogTypeOf(p[i])]
  BY <1>2, <1>10 DEF TypesOf
<1>12. \A i \in 1 .. n + 1 : u[i] = w[i]
  <2> SUFFICES ASSUME NEW i \in 1 .. n + 1 PROVE u[i] = w[i]
    OBVIOUS
  <2>1. CASE i = n + 1
    BY <1>2, <1>7, <1>9, <1>11, <2>1
  <2>2. CASE i # n + 1
    <3>1. i \in 1 .. n
      BY <1>2, <2>2
    <3>2. u[i] = LogTypeOf(o[i]) /\ w[i] = LogTypeOf(o[i])
      BY <1>2, <1>5, <1>9, <1>11, <3>1
    <3>3. QED
      BY <3>2
  <2>3. QED
    BY <2>1, <2>2
<1>13. u = w
  <2>1. u \in [1 .. n + 1 -> S]
    BY <1>2, <1>9, LenProperties, ElementOfSeq
  <2>2. u = [i \in 1 .. n + 1 |-> u[i]]
    BY <2>1
  <2>3. QED
    BY <1>11, <1>12, <2>2
<1>14. QED
  BY <1>1, <1>2, <1>7, <1>10, <1>13

\* A block that is initialised has a log type more.
LEMMA LogTypeTally ==
  ASSUME StartInv, todo # <<>>, NEW B \in Seq(STRING), Item = InitOf(B),
         UNCHANGED entry_map, todo' = Tail(todo), ~LogTypeFails(LogTypeOf(B)),
         logType_map' = Append(logType_map, LogTypeOf(B)),
         NEW d, NEW o, Walks(d), Made(d, o)
  PROVE  Walks(d)' /\ Made(d, Append(o, B))'
<1>1. /\ \A q : TypesOf(q)' = TypesOf(q)
      /\ \A f, C, v, s : NamedIn(f, C, v, s)' = NamedIn(f, C, v, s)
      /\ \A p : LogTypeOf(p)' = LogTypeOf(p)
  BY SameTypes
<1>2. ASSUME NEW C, NEW s
      PROVE  CountIn(todo', SectionOf(C, s)) = CountIn(todo, SectionOf(C, s))
  <2>1. SectionOf(C, s).step = "section" /\ Item.step = "init"
    BY DEF SectionOf, InitOf
  <2>2. SectionOf(C, s) # Item
    BY <2>1
  <2>3. QED
    BY <2>2, CountItem
<1>3. Walks(d)'
  BY <1>1, <1>2 DEF Walks, WalksTop, WalksBlock
<1>4. o \in Seq(Seq(STRING)) /\ logType_map = TypesOf(o)
      /\ \A i \in 1 .. Len(o) : ~LogTypeFails(LogTypeOf(o[i]))
  BY DEF Made
<1>5. PICK p : p = Append(o, B)
  OBVIOUS
<1>6. /\ p \in Seq(Seq(STRING)) /\ Len(p) = Len(o) + 1 /\ Len(o) \in Nat
      /\ (\A i \in 1 .. Len(o) : p[i] = o[i]) /\ p[Len(o) + 1] = B
      /\ Append(TypesOf(o), LogTypeOf(B)) = TypesOf(p)
  BY <1>4, <1>5, TypesAppend
<1>7. ASSUME NEW C
      PROVE  CountIn(p, C) + CountIn(todo', InitOf(C)) = CountIn(o, C) + CountIn(todo, InitOf(C))
  <2>1. CountIn(p, C) = CountIn(o, C) + (IF C = B THEN 1 ELSE 0) /\ CountIn(o, C) \in Nat
    <3>1. CountIn(Append(o, B), C) = CountIn(o, C) + (IF C = B THEN 1 ELSE 0)
      BY <1>4, CountAppend
    <3>2. QED
      BY <1>4, <1>5, <3>1, CountNat
  <2>2. InitOf(C) = Item <=> C = B
    <3>1. InitOf(C).path = C /\ Item.path = B
      BY DEF InitOf
    <3>2. QED
      BY <3>1
  <2>3. PICK x : x = InitOf(C)
    OBVIOUS
  <2>4. CountIn(todo, x) = CountIn(todo', x) + (IF x = Item THEN 1 ELSE 0) /\ CountIn(todo', x) \in Nat
    BY CountItem
  <2>5. x = Item <=> C = B
    BY <2>2, <2>3
  <2>6. CountIn(p, C) + CountIn(todo', x) = CountIn(o, C) + CountIn(todo, x)
    BY <2>1, <2>4, <2>5
  <2>7. QED
    BY <2>3, <2>6
<1>8. MadeTop(p)'
  <2>1. CountIn(o, <<>>) + CountIn(todo, InitOf(<<>>)) = 0
    BY DEF Made, MadeTop
  <2>2. QED
    BY <1>7, <2>1 DEF MadeTop
<1>9. MadeBlock(d, p)'
  <2>1. ASSUME NEW C \in Seq(STRING), NEW v \in STRING
        PROVE  CountIn(p, Append(C, v)) + CountIn(todo', InitOf(Append(C, v))) = NamedIn(d, C, v, "LOGTYPE")
    <3>1. CountIn(o, Append(C, v)) + CountIn(todo, InitOf(Append(C, v))) = NamedIn(d, C, v, "LOGTYPE")
      BY DEF Made, MadeBlock
    <3>2. QED
      BY <1>7, <3>1
  <2>2. QED
    BY <1>1, <2>1 DEF MadeBlock
<1>10. \A i \in 1 .. Len(p) : ~LogTypeFails(LogTypeOf(p[i]))
  <2> SUFFICES ASSUME NEW i \in 1 .. Len(p) PROVE ~LogTypeFails(LogTypeOf(p[i]))
    OBVIOUS
  <2>1. CASE i = Len(o) + 1
    <3>1. p[i] = B
      BY <1>6, <2>1
    <3>2. QED
      BY <3>1
  <2>2. CASE i # Len(o) + 1
    <3>1. i \in 1 .. Len(o)
      BY <1>6, <2>2
    <3>2. p[i] = o[i]
      BY <1>6, <3>1
    <3>3. QED
      BY <1>4, <3>1, <3>2
  <2>3. QED
    BY <2>1, <2>2
<1>11. logType_map' = TypesOf(p)
  BY <1>4, <1>6
<1>12. Made(d, p)'
  BY <1>1, <1>6, <1>8, <1>9, <1>10, <1>11 DEF Made
<1>13. QED
  BY <1>3, <1>5, <1>12

\* At first there is the top to be walked, and nothing has been.
LEMMA FirstTally ==
  ASSUME StartInv, UNCHANGED entry_map, todo' = Sections(<<>>), logType_map' = <<>>
  PROVE  \E d, o : Walks(d)' /\ Made(d, o)'
<1> DEFINE D == Seq(STRING) \X SectionWords
<1>1. PICK d, o : d = [k \in D |-> 0] /\ o = <<>>
  OBVIOUS
<1>2. \A C \in Seq(STRING), s \in SectionWords : d[<<C, s>>] = 0
  BY <1>1
<1>3. d \in [D -> Nat]
  BY <1>1
<1>4. PICK m, l : m = SectionOf(<<>>, "MAX_OFFENSES") /\ l = SectionOf(<<>>, "LOGTYPE")
  OBVIOUS
<1>5. m # l /\ todo' = <<m, l>>
  <2>1. m.sym # l.sym
    BY <1>4 DEF SectionOf
  <2>2. todo' = <<m, l>>
    BY <1>4 DEF Sections, SectionOf
  <2>3. QED
    BY <2>1, <2>2
<1>6. ASSUME NEW x
      PROVE  CountIn(todo', x) = IF x \in {m, l} THEN 1 ELSE 0
  BY <1>5, CountTwo
<1>7. ASSUME NEW x
      PROVE  CountIn(o, x) = 0
  <2>1. {i \in DOMAIN <<>> : <<>>[i] = x} = {}
    OBVIOUS
  <2>2. CountIn(<<>>, x) = 0
    BY <2>1, FS_EmptySet DEF CountIn
  <2>3. QED
    BY <1>1, <2>2
<1>8. \A f, C, v, s : NamedIn(f, C, v, s)' = NamedIn(f, C, v, s)
  BY SameTypes
<1>9. ASSUME NEW C \in Seq(STRING), NEW v \in STRING, NEW s \in SectionWords
      PROVE  NamedIn(d, C, v, s) = 0
  <2>1. PICK n : n = NamedBy(Append(C, v), s)
    OBVIOUS
  <2>2. n \in Nat
    BY <2>1, NamedByIs DEF StartInv, MapInv
  <2>3. n * 0 = 0
    BY <2>2
  <2>4. d[<<C, s>>] = 0
    BY <1>2
  <2>5. NamedIn(d, C, v, s) = n * 0
    BY <2>1, <2>4 DEF NamedIn
  <2>6. QED
    BY <2>3, <2>5
<1>10. WalksTop(d)'
  <2> SUFFICES ASSUME NEW s \in SectionWords
               PROVE  d[<< <<>>, s>>] + CountIn(todo', SectionOf(<<>>, s)) = 1
    BY DEF WalksTop
  <2>1. SectionOf(<<>>, s) \in {m, l}
    BY <1>4 DEF SectionWords
  <2>2. CountIn(todo', SectionOf(<<>>, s)) = 1
    BY <1>6, <2>1
  <2>3. PICK C : C = <<>>
    OBVIOUS
  <2>4. C \in Seq(STRING)
    BY <2>3
  <2>5. d[<<C, s>>] = 0
    BY <1>2, <2>4
  <2>6. QED
    BY <2>2, <2>3, <2>5
<1>11. ASSUME NEW C \in Seq(STRING), NEW v \in STRING
       PROVE  /\ Append(C, v) # <<>> /\ Append(C, v) \in Seq(STRING)
              /\ \A x : x \in {m, l} => x.path # Append(C, v)
  <2>1. Append(C, v) # <<>> /\ Append(C, v) \in Seq(STRING)
    BY AppendParts, AppendProperties
  <2>2. m.path = <<>> /\ l.path = <<>>
    BY <1>4 DEF SectionOf
  <2>3. QED
    BY <2>1, <2>2
<1>12. WalksBlock(d)'
  <2> SUFFICES ASSUME NEW C \in Seq(STRING), NEW v \in STRING, NEW s \in SectionWords
               PROVE  d[<<Append(C, v), s>>] + CountIn(todo', SectionOf(Append(C, v), s))
                        = NamedIn(d, C, v, "MAX_OFFENSES") + NamedIn(d, C, v, "LOGTYPE")
    BY <1>8 DEF WalksBlock
  <2>1. PICK A : A = Append(C, v)
    OBVIOUS
  <2>2. SectionOf(A, s).path = A
    BY DEF SectionOf
  <2>3. SectionOf(A, s) \notin {m, l}
    BY <1>11, <2>1, <2>2
  <2>4. CountIn(todo', SectionOf(A, s)) = 0
    BY <1>6, <2>3
  <2>5. A \in Seq(STRING)
    BY <1>11, <2>1
  <2>6. d[<<A, s>>] = 0
    BY <1>2, <2>5
  <2>7. NamedIn(d, C, v, "MAX_OFFENSES") = 0 /\ NamedIn(d, C, v, "LOGTYPE") = 0
    BY <1>9 DEF SectionWords
  <2>8. QED
    BY <2>1, <2>4, <2>6, <2>7
<1>13. \A C : CountIn(todo', InitOf(C)) = 0
  <2> SUFFICES ASSUME NEW C PROVE CountIn(todo', InitOf(C)) = 0
    OBVIOUS
  <2>1. InitOf(C).step = "init" /\ m.step = "section" /\ l.step = "section"
    BY <1>4 DEF InitOf, SectionOf
  <2>2. InitOf(C) \notin {m, l}
    BY <2>1
  <2>3. QED
    BY <1>6, <2>2
<1>14. MadeTop(o)'
  <2>1. CountIn(todo', InitOf(<<>>)) = 0 /\ CountIn(o, <<>>) = 0
    BY <1>7, <1>13
  <2>2. QED
    BY <2>1 DEF MadeTop
<1>15. MadeBlock(d, o)'
  <2>1. ASSUME NEW C \in Seq(STRING), NEW v \in STRING
        PROVE  CountIn(o, Append(C, v)) + CountIn(todo', InitOf(Append(C, v))) = NamedIn(d, C, v, "LOGTYPE")
    <3>1. NamedIn(d, C, v, "LOGTYPE") = 0
      BY <1>9 DEF SectionWords
    <3>2. QED
      BY <1>7, <1>13, <3>1
  <2>2. QED
    BY <1>8, <2>1 DEF MadeBlock
<1>16. Made(d, o)'
  <2>1. o \in Seq(Seq(STRING)) /\ Len(o) = 0
    BY <1>1
  <2>2. logType_map' = TypesOf(o)'
    <3>1. TypesOf(o)' = [i \in 1 .. 0 |-> LogTypeOf(o[i])']
      BY <2>1 DEF TypesOf
    <3>2. logType_map' = <<>>
      OBVIOUS
    <3>3. QED
      BY <3>1, <3>2
  <2>3. QED
    BY <1>14, <1>15, <2>1, <2>2 DEF Made
<1>17. Walks(d)'
  BY <1>3, <1>10, <1>12 DEF Walks
<1>18. QED
  BY <1>16, <1>17

LEMMA TallyInit == Init => TallyInv
<1> SUFFICES ASSUME Init PROVE TallyInv
  OBVIOUS
<1>1. logType_map = <<>> /\ pc = "options"
  BY DEF Init
<1>2. QED
  BY <1>1, ReportInit DEF TallyInv, TypesInv

LEMMA ReadTypes == TallyInv /\ (GetOption \/ OptionsDone \/ ReadLine \/ SkipLine) => TypesInv'
<1> SUFFICES ASSUME TallyInv, GetOption \/ OptionsDone \/ ReadLine \/ SkipLine PROVE TypesInv'
  OBVIOUS
<1>1. /\ UNCHANGED logType_map /\ pc \in {"options", "parse"}
      /\ pc' \in {"options", "parse", "failed", "stopped"}
  BY DEF GetOption, OptionsDone, ReadLine, SkipLine, Goto, confVars
<1>2. QED
  BY <1>1 DEF TallyInv, TypesInv

LEMMA FileEndsTypes == TallyInv /\ FileEnds => TypesInv'
<1> SUFFICES ASSUME TallyInv, FileEnds PROVE TypesInv'
  OBVIOUS
<1>1. /\ UNCHANGED logType_map /\ pc = "parse" /\ StartInv /\ TypesInv
      /\ pc' \in {"failed", "configure", "parse"}
  BY DEF FileEnds, Goto, TallyInv, ReportInv
<1>2. CASE pc' = "configure"
  <2>1. todo' = Sections(<<>>) /\ UNCHANGED entry_map
    BY <1>2 DEF FileEnds, EndOfFile, Goto, readVars
  <2>2. logType_map' = <<>>
    BY <1>1 DEF TypesInv
  <2>3. \E d, o : Walks(d)' /\ Made(d, o)'
    BY <1>1, <2>1, <2>2, FirstTally
  <2>4. QED
    BY <1>2, <2>3 DEF TypesInv
<1>3. CASE pc' # "configure"
  BY <1>1, <1>3 DEF TypesInv
<1>4. QED
  BY <1>2, <1>3

LEMMA ConfigureTypes == TallyInv /\ Configure => TypesInv'
<1> SUFFICES ASSUME TallyInv, Configure PROVE TypesInv'
  OBVIOUS
<1>1. /\ UNCHANGED <<entry_map, flags>> /\ pc = "configure" /\ todo # <<>> /\ StartInv /\ TypesInv
  BY DEF Configure, WalkSection, InitMaxOff, InitLogType, LogTypeUnopened, Doing, readVars,
         TallyInv, ReportInv
<1>2. CASE pc' # "configure"
  <2>1. pc' \in {"failed", "crashed"}
    BY <1>1, <1>2 DEF Configure, WalkSection, InitMaxOff, InitLogType, LogTypeUnopened, Crashes, Goto
  <2>2. QED
    BY <2>1 DEF TypesInv
<1>3. CASE pc' = "configure"
  <2>1. SUFFICES ASSUME MayPrune PROVE \E d, o : Walks(d)' /\ Made(d, o)'
    BY <1>1, <1>3 DEF TypesInv, MayPrune
  <2>2. PICK d, o : Walks(d) /\ Made(d, o)
    BY <1>1, <2>1 DEF TypesInv
  <2>3. PICK B : B = Item.path
    OBVIOUS
  <2>4. B \in Seq(STRING) /\ Item = [step |-> Item.step, sym |-> Item.sym, path |-> B]
    BY <1>1, <2>3, ItemIs
  <2>5. ASSUME NEW sym \in SectionWords, WalkSection(sym)
        PROVE  \E e, p : Walks(e)' /\ Made(e, p)'
    <3>1. ~Crashes({Append(B, sym)})
      BY <1>3 DEF Crashes, Goto
    <3>2. /\ todo' = WalkedList(B, sym) /\ UNCHANGED logType_map
          /\ Item.step = "section" /\ Item.sym = sym
      BY <2>3, <2>5, <3>1 DEF WalkSection, Doing, WalkedList, confVars
    <3>3. Item = SectionOf(B, sym)
      BY <2>4, <3>2 DEF SectionOf
    <3>4. PICK e : e = [d EXCEPT ![<<B, sym>>] = @ + 1]
      OBVIOUS
    <3>5. Walks(e)' /\ Made(e, o)'
      BY <1>1, <2>2, <2>4, <3>2, <3>3, <3>4, SectionTally
    <3>6. QED
      BY <3>5
  <2>6. CASE InitMaxOff
    <3>1. Item.step = "init" /\ Item.sym = "MAX_OFFENSES" /\ todo' = Tail(todo) /\ UNCHANGED logType_map
      BY <1>3, <2>6 DEF InitMaxOff, Doing, Crashes, Goto
    <3>2. Walks(d)' /\ Made(d, o)'
      BY <1>1, <2>2, <3>1, MaxOffTally
    <3>3. QED
      BY <3>2
  <2>7. CASE InitLogType
    <3>1. /\ Item.step = "init" /\ Item.sym = "LOGTYPE" /\ todo' = Tail(todo)
          /\ ~LogTypeFails(LogTypeOf(B)) /\ logType_map' = Append(logType_map, LogTypeOf(B))
      BY <1>3, <2>1, <2>3, <2>7 DEF InitLogType, Doing, Crashes, Goto, MayPrune
    <3>2. Item = InitOf(B)
      BY <2>4, <3>1 DEF InitOf
    <3>3. Walks(d)' /\ Made(d, Append(o, B))'
      BY <1>1, <2>2, <2>4, <3>1, <3>2, LogTypeTally
    <3>4. QED
      BY <3>3
  <2>8. ~LogTypeUnopened
    BY <1>3 DEF LogTypeUnopened, Goto
  <2>9. QED
    BY <2>5, <2>6, <2>7, <2>8 DEF Configure, SectionWords
<1>4. QED
  BY <1>2, <1>3

LEMMA ConfiguredTypes ==
  TallyInv /\ (Configured \/ UNCHANGED vars) => TypesInv'
<1> SUFFICES ASSUME TallyInv, Configured \/ UNCHANGED vars PROVE TypesInv'
  OBVIOUS
<1>1. UNCHANGED <<entry_map, todo, logType_map, flags>> /\ TypesInv
  BY DEF Configured, vars, cfgVars, mainVars, confVars, TallyInv
<1>2. /\ pc' = pc \/ (pc = "configure" /\ pc' \in {"report", "block", "stopped"})
      /\ pc' # pc /\ pc' # "stopped" => MayPrune
  BY DEF Configured, vars, mainVars, Goto
<1>3. MayPrune' <=> MayPrune
  BY <1>1 DEF MayPrune
<1>4. ASSUME pc' \in {"configure", "report", "block"}, MayPrune
      PROVE  \E d, o : Walks(d)' /\ Made(d, o)'
  <2>1. PICK d, o : Walks(d) /\ Made(d, o)
    BY <1>1, <1>2, <1>4 DEF TypesInv
  <2>2. Walks(d)' /\ Made(d, o)'
    BY <1>1, <2>1, SameTally
  <2>3. QED
    BY <2>2
<1>5. QED
  BY <1>1, <1>2, <1>3, <1>4 DEF TypesInv

LEMMA TallyNext == TallyInv /\ [Next]_vars => TallyInv'
<1> SUFFICES ASSUME TallyInv, [Next]_vars PROVE TallyInv'
  OBVIOUS
<1>1. ReportInv'
  BY ReportNext DEF TallyInv
<1>2. TypesInv'
  BY ReadTypes, FileEndsTypes, ConfigureTypes, ConfiguredTypes DEF Next
<1>3. QED
  BY <1>1, <1>2 DEF TallyInv

\* What the next rests on: while the map is walked, each section has been walked, or
\* is on the list, as often as the sections walked around it name its block, and a
\* LOGTYPE block has log types, or is on the list, as often as it is named.
THEOREM TallyInvariant == Spec => []TallyInv
BY TallyInit, TallyNext, PTL DEF Spec

---------------------------------------------------------------------------
(* When nothing is left to be done, there is a log type for each visit.    *)

LEMMA CountNone ==
  ASSUME NEW x
  PROVE  CountIn(<<>>, x) = 0
<1>1. {i \in DOMAIN <<>> : <<>>[i] = x} = {}
  OBVIOUS
<1>2. QED
  BY <1>1, FS_EmptySet DEF CountIn

\* Both sections of a block have been walked as often as configure() comes to it.
LEMMA WalkedAsVisited ==
  ASSUME CfgTypeOK, todo = <<>>, NEW d, Walks(d), NEW B \in Seq(STRING), NEW sym \in SectionWords
  PROVE  d[<<B, sym>>] = Visits(B)
<1> DEFINE bad == {C \in Seq(STRING) : \E s \in SectionWords : d[<<C, s>>] # Visits(C)}
           lens == {Len(C) : C \in bad}
<1> SUFFICES ASSUME bad # {} PROVE FALSE
  OBVIOUS
<1>1. \A C \in Seq(STRING) : Len(C) \in Nat
  BY LenProperties
<1>2. PICK C \in bad : \A E \in bad : Len(C) <= Len(E)
  <2>1. lens \in SUBSET Nat /\ lens # {}
    BY <1>1
  <2> HIDE DEF lens
  <2>2. PICK m \in lens : \A k \in lens : m <= k
    BY <2>1, Least
  <2>3. QED
    BY <2>2 DEF lens
<1>3. C \in Seq(STRING)
  OBVIOUS
<1>4. PICK s \in SectionWords : d[<<C, s>>] # Visits(C)
  OBVIOUS
<1>5. d \in [Seq(STRING) \X SectionWords -> Nat] /\ d[<<C, s>>] \in Nat
  BY <1>3 DEF Walks
<1>6. \A x : CountIn(todo, x) = 0
  BY CountNone
<1>7. CASE C = <<>>
  <2>1. d[<< <<>>, s>>] + CountIn(todo, SectionOf(<<>>, s)) = 1
    BY DEF Walks, WalksTop
  <2>2. d[<<C, s>>] + CountIn(todo, SectionOf(C, s)) = 1
    BY <1>7, <2>1
  <2>3. d[<<C, s>>] = 1
    BY <1>5, <1>6, <2>2
  <2>4. Visits(C) = 1
    BY <1>7, VisitsTop
  <2>5. QED
    BY <1>4, <2>3, <2>4
<1>8. CASE C # <<>>
  <2>1. PICK A \in Seq(STRING), v \in STRING : C = Append(A, v)
    BY <1>3, <1>8, PathParts
  <2>2. Len(C) = Len(A) + 1 /\ Len(A) \in Nat
    BY <2>1, AppendParts
  <2>3. A \notin bad
    <3> HIDE DEF bad
    <3>1. ~(Len(C) <= Len(A))
      BY <2>2
    <3>2. QED
      BY <1>2, <3>1
  <2>4. d[<<A, "MAX_OFFENSES">>] = Visits(A) /\ d[<<A, "LOGTYPE">>] = Visits(A)
    BY <2>3 DEF SectionWords
  <2>5. PICK m, l, u : /\ m = NamedBy(Append(A, v), "MAX_OFFENSES")
                       /\ l = NamedBy(Append(A, v), "LOGTYPE") /\ u = Visits(A)
    OBVIOUS
  <2>6. m \in Nat /\ l \in Nat /\ u \in Nat
    BY <2>5, NamedByIs, VisitsNat
  <2>7. Visits(C) = u * (m + l)
    BY <2>1, <2>5, VisitsTimes
  <2>8. d[<<Append(A, v), s>>] + CountIn(todo, SectionOf(Append(A, v), s))
          = NamedIn(d, A, v, "MAX_OFFENSES") + NamedIn(d, A, v, "LOGTYPE")
    BY DEF Walks, WalksBlock
  <2>9. NamedIn(d, A, v, "MAX_OFFENSES") = m * u /\ NamedIn(d, A, v, "LOGTYPE") = l * u
    BY <2>4, <2>5 DEF NamedIn
  <2>10. d[<<C, s>>] + 0 = m * u + l * u
    BY <1>6, <2>1, <2>8, <2>9
  <2>11. m * u + l * u = u * (m + l)
    BY <2>6
  <2>12. QED
    BY <1>4, <1>5, <2>7, <2>10, <2>11
<1>9. QED
  BY <1>7, <1>8

LEMMA MadeAsNamed ==
  ASSUME CfgTypeOK, todo = <<>>, NEW d, NEW o, Walks(d), Made(d, o), NEW C \in Seq(STRING)
  PROVE  CountIn(o, C) = SectionVisits(C, "LOGTYPE")
<1>1. \A x : CountIn(todo, x) = 0
  BY CountNone
<1>2. CountIn(o, C) \in Nat
  BY CountNat DEF Made
<1>3. CASE C = <<>>
  <2>1. CountIn(o, <<>>) + CountIn(todo, InitOf(<<>>)) = 0
    BY DEF Made, MadeTop
  <2>2. CountIn(o, C) + CountIn(todo, InitOf(C)) = 0
    BY <1>3, <2>1
  <2>3. CountIn(o, C) = 0
    BY <1>1, <1>2, <2>2
  <2>4. SectionVisits(C, "LOGTYPE") = 0
    BY <1>3 DEF SectionVisits
  <2>5. QED
    BY <2>3, <2>4
<1>4. CASE C # <<>>
  <2>1. PICK A \in Seq(STRING), v \in STRING : C = Append(A, v)
    BY <1>4, PathParts
  <2>2. PICK l, u : l = NamedBy(Append(A, v), "LOGTYPE") /\ u = Visits(A)
    OBVIOUS
  <2>3. l \in Nat /\ u \in Nat
    BY <2>2, NamedByIs, VisitsNat
  <2>4. CountIn(o, Append(A, v)) + CountIn(todo, InitOf(Append(A, v))) = NamedIn(d, A, v, "LOGTYPE")
    BY DEF Made, MadeBlock
  <2>5. d[<<A, "LOGTYPE">>] = u
    BY <2>2, WalkedAsVisited DEF SectionWords
  <2>6. CountIn(o, C) + 0 = l * u
    BY <1>1, <2>1, <2>2, <2>4, <2>5 DEF NamedIn
  <2>7. SectionVisits(C, "LOGTYPE") = u * l
    BY <2>1, <2>2, AppendParts DEF SectionVisits
  <2>8. l * u = u * l
    BY <2>3
  <2>9. QED
    BY <1>2, <2>6, <2>7, <2>8
<1>5. QED
  BY <1>3, <1>4

\* The sum of how often each is in a sequence is its length.
At(o, s) == {i \in DOMAIN o : o[i] \in s}
Sums(h, D) ==
  h = [s \in D |-> IF s = {} THEN 0
                   ELSE SectionVisits(One(s), "LOGTYPE") + h[s \ {One(s)}]]

LEMMA AtOut ==
  ASSUME NEW S, NEW o \in Seq(S), NEW s, NEW x \in s
  PROVE  /\ Cardinality(At(o, s)) = CountIn(o, x) + Cardinality(At(o, s \ {x}))
         /\ Cardinality(At(o, s)) \in Nat
<1>1. PICK A, X, T : A = At(o, s) /\ X = {i \in DOMAIN o : o[i] = x} /\ T = At(o, s \ {x})
  OBVIOUS
<1>2. DOMAIN o = 1 .. Len(o) /\ Len(o) \in Nat
  BY LenProperties
<1>3. IsFiniteSet(DOMAIN o)
  BY <1>2, FS_Interval
<1>4. A \subseteq DOMAIN o /\ X \subseteq DOMAIN o /\ T \subseteq DOMAIN o
  BY <1>1 DEF At
<1>5. IsFiniteSet(A) /\ IsFiniteSet(X) /\ IsFiniteSet(T)
  BY <1>3, <1>4, FS_Subset
<1>6. A = X \cup T /\ X \cap T = {}
  BY <1>1 DEF At
<1>7. Cardinality(X \cup T) = Cardinality(X) + Cardinality(T) - Cardinality(X \cap T)
  BY <1>5, FS_Union
<1>8. Cardinality(X \cap T) = 0
  BY <1>6, FS_EmptySet
<1>9. Cardinality(A) \in Nat /\ Cardinality(X) \in Nat /\ Cardinality(T) \in Nat
  BY <1>5, FS_CardinalityType
<1>10. CountIn(o, x) = Cardinality(X)
  BY <1>1 DEF CountIn
<1>11. Cardinality(A) = Cardinality(X) + Cardinality(T)
  BY <1>6, <1>7, <1>8, <1>9
<1>12. QED
  BY <1>1, <1>9, <1>10, <1>11

LEMMA SumExists ==
  ASSUME NEW o \in Seq(Seq(STRING)), NEW S, IsFiniteSet(S),
         \A x \in S : CountIn(o, x) = SectionVisits(x, "LOGTYPE")
  PROVE  \E h : Sums(h, SUBSET S)
<1>1. PICK h : h = [s \in SUBSET S |-> Cardinality(At(o, s))]
  OBVIOUS
<1>2. ASSUME NEW s \in SUBSET S
      PROVE  h[s] = IF s = {} THEN 0 ELSE SectionVisits(One(s), "LOGTYPE") + h[s \ {One(s)}]
  <2>1. CASE s = {}
    <3>1. At(o, s) = {}
      BY <2>1 DEF At
    <3>2. QED
      BY <1>1, <2>1, <3>1, FS_EmptySet
  <2>2. CASE s # {}
    <3>1. PICK x : x = One(s)
      OBVIOUS
    <3>2. x \in s /\ x \in S /\ s \ {x} \in SUBSET S
      BY <2>2, <3>1, OneOut
    <3>3. Cardinality(At(o, s)) = CountIn(o, x) + Cardinality(At(o, s \ {x}))
      BY <3>2, AtOut
    <3>4. h[s] = Cardinality(At(o, s)) /\ h[s \ {x}] = Cardinality(At(o, s \ {x}))
      BY <1>1, <3>2
    <3>5. QED
      BY <2>2, <3>1, <3>2, <3>3, <3>4
  <2>3. QED
    BY <2>1, <2>2
<1>3. h = [s \in SUBSET S |-> h[s]]
  BY <1>1
<1>4. QED
  BY <1>2, <1>3, Zenon DEF Sums

LEMMA SumUnique ==
  ASSUME NEW o \in Seq(Seq(STRING)), NEW S, IsFiniteSet(S),
         \A x \in S : CountIn(o, x) = SectionVisits(x, "LOGTYPE"),
         NEW h, Sums(h, SUBSET S)
  PROVE  \A s \in SUBSET S : h[s] = Cardinality(At(o, s))
<1> DEFINE Right(s) == h[s] = Cardinality(At(o, s))
           wrong == {s \in SUBSET S : ~Right(s)}
           sizes == {Cardinality(s) : s \in wrong}
<1> SUFFICES ASSUME wrong # {} PROVE FALSE
  OBVIOUS
<1>1. \A s \in SUBSET S : Cardinality(s) \in Nat
  BY FS_Subset, FS_CardinalityType
<1>2. PICK s \in wrong : \A t \in wrong : Cardinality(s) <= Cardinality(t)
  <2>1. sizes \in SUBSET Nat /\ sizes # {}
    BY <1>1
  <2> HIDE DEF sizes
  <2>2. PICK n \in sizes : \A k \in sizes : n <= k
    BY <2>1, Least
  <2>3. QED
    BY <2>2 DEF sizes
<1>3. s \in SUBSET S /\ ~Right(s)
  OBVIOUS
<1>4. h[s] = IF s = {} THEN 0 ELSE SectionVisits(One(s), "LOGTYPE") + h[s \ {One(s)}]
  BY <1>3, Zenon DEF Sums
<1>5. CASE s = {}
  <2>1. At(o, s) = {}
    BY <1>5 DEF At
  <2>2. QED
    BY <1>3, <1>4, <1>5, <2>1, FS_EmptySet
<1>6. CASE s # {}
  <2>1. PICK x, t : x = One(s) /\ t = s \ {x}
    OBVIOUS
  <2>2. x \in s /\ x \in S /\ t \in SUBSET S /\ Cardinality(t) = Cardinality(s) - 1
    BY <1>3, <1>6, <2>1, OneOut
  <2>3. t \notin wrong
    BY <1>1, <1>2, <1>3, <2>2
  <2>4. h[t] = Cardinality(At(o, t))
    BY <2>2, <2>3
  <2>5. h[s] = SectionVisits(x, "LOGTYPE") + h[t]
    BY <1>4, <1>6, <2>1
  <2>6. Cardinality(At(o, s)) = CountIn(o, x) + Cardinality(At(o, t))
    BY <2>1, <2>2, AtOut
  <2>7. CountIn(o, x) = SectionVisits(x, "LOGTYPE")
    BY <2>2
  <2>8. QED
    BY <1>3, <2>4, <2>5, <2>6, <2>7
<1>7. QED
  BY <1>5, <1>6

LEMMA SumIsLength ==
  ASSUME NEW o \in Seq(Seq(STRING)), NEW S, S = ToSet(o),
         \A x \in S : CountIn(o, x) = SectionVisits(x, "LOGTYPE")
  PROVE  MapThenSumSet(LAMBDA b : SectionVisits(b, "LOGTYPE"), S) = Len(o)
<1>1. DOMAIN o = 1 .. Len(o) /\ Len(o) \in Nat
  BY LenProperties
<1>2. IsFiniteSet(DOMAIN o) /\ Cardinality(DOMAIN o) = Len(o)
  <2>1. PICK n \in Nat : n = Len(o) /\ DOMAIN o = 1 .. n
    BY <1>1
  <2>2. IsFiniteSet(1 .. n) /\ Cardinality(1 .. n) = IF 1 > n THEN 0 ELSE n - 1 + 1
    <3>1. 1 \in Int /\ n \in Int
      OBVIOUS
    <3>2. QED
      BY <3>1, FS_Interval
  <2>3. Cardinality(1 .. n) = n
    BY <2>2
  <2>4. QED
    BY <2>1, <2>2, <2>3
<1>3. IsFiniteSet(S)
  <2>1. o \in Surjection(DOMAIN o, S)
    <3>1. o \in [DOMAIN o -> S] /\ \A t \in S : \E i \in DOMAIN o : o[i] = t
      BY <1>1 DEF ToSet
    <3>2. QED
      BY <3>1, Zenon DEF Surjection
  <2>2. QED
    BY <1>2, <2>1, FS_Surjection
<1>4. MapThenSumSet(LAMBDA b : SectionVisits(b, "LOGTYPE"), S) = (CHOOSE h : Sums(h, SUBSET S))[S]
  BY Zenon DEF MapThenSumSet, MapThenFoldSet, Sums, One
<1>5. \E h : Sums(h, SUBSET S)
  BY <1>3, SumExists
<1>6. PICK h : h = (CHOOSE g : Sums(g, SUBSET S)) /\ Sums(h, SUBSET S)
  BY <1>5, Zenon
<1>7. h[S] = Cardinality(At(o, S))
  <2>1. Sums(h, SUBSET S) /\ \A x \in S : CountIn(o, x) = SectionVisits(x, "LOGTYPE")
    BY <1>6
  <2>2. \A s \in SUBSET S : h[s] = Cardinality(At(o, s))
    BY <1>3, <2>1, SumUnique
  <2>3. QED
    BY <2>2
<1>8. At(o, S) = DOMAIN o
  BY DEF At, ToSet
<1>9. QED
  BY <1>2, <1>4, <1>6, <1>7, <1>8

\* Two one-element sequences side by side.
LEMMA PairIsConcat ==
  ASSUME NEW S, NEW n \in S, NEW w \in S
  PROVE  <<n>> \o <<w>> = <<n, w>>
<1>1. <<n>> \in Seq(S) /\ <<w>> \in Seq(S) /\ <<n, w>> \in Seq(S)
  OBVIOUS
<1>2. Len(<<n>>) = 1 /\ Len(<<w>>) = 1 /\ <<n>>[1] = n /\ <<w>>[1] = w
  OBVIOUS
<1>3. Len(<<n, w>>) = 2
  OBVIOUS
<1>4. <<n, w>>[1] = n
  OBVIOUS
<1>5. <<n, w>>[2] = w
  OBVIOUS
<1>6. PICK a, b, p : a = <<n>> /\ b = <<w>> /\ p = <<n, w>>
  OBVIOUS
<1>7. a \in Seq(S) /\ b \in Seq(S) /\ p \in Seq(S) /\ Len(a) = 1 /\ Len(b) = 1 /\ a[1] = n /\ b[1] = w
      /\ Len(p) = 2 /\ p[1] = n /\ p[2] = w
  BY <1>1, <1>2, <1>3, <1>4, <1>5, <1>6, Zenon
<1>8. a \o b = p
  <2>1. a \o b \in Seq(S) /\ Len(a \o b) = 2 /\ (a \o b)[1] = n /\ (a \o b)[2] = w
    BY <1>7, ConcatProperties
  <2>2. \A i \in 1 .. Len(p) : (a \o b)[i] = p[i]
    BY <1>7, <2>1
  <2>3. QED
    BY <1>7, <2>1, <2>2, SeqEqual
<1>9. QED
  BY <1>6, <1>8, Zenon

\* A path of a block, a name and a word, put together in one or two steps.
LEMMA AppendTwo ==
  ASSUME NEW S, NEW B \in Seq(S), NEW n \in S, NEW w \in S
  PROVE  B \o <<n, w>> = Append(Append(B, n), w)
<1>1. <<n>> \in Seq(S) /\ <<w>> \in Seq(S)
  OBVIOUS
<1>2. Append(B, n) \in Seq(S)
  BY AppendProperties
<1>3. Append(B, n) = B \o <<n>>
  BY AppendIsConcat
<1>4. Append(Append(B, n), w) = Append(B, n) \o <<w>>
  BY <1>2, AppendIsConcat
<1>5. (B \o <<n>>) \o <<w>> = B \o (<<n>> \o <<w>>)
  BY <1>1, ConcatAssociative
<1>6. QED
  BY <1>3, <1>4, <1>5, PairIsConcat, Zenon

\* A log type that is not refused is what its block says.
LEMMA LogTypeIs ==
  ASSUME CfgTypeOK, NEW b \in Seq(STRING), ~LogTypeFails(LogTypeOf(b))
  PROVE  IsOf(LogTypeOf(b), b)
<1>1. PICK targets : targets = Strs(Append(b, "TARGET"))
  OBVIOUS
<1>2. PICK t : t = LogTypeOf(b)
  OBVIOUS
<1>3. /\ t.dir = LastValue(Append(b, "DIR")) /\ t.pfix = LastValue(Append(b, "PREFIX"))
      /\ t.targets = [i \in DOMAIN targets |-> TargetOf(Append(b, targets[i]))]
  BY <1>1, <1>2 DEF LogTypeOf
<1>4. t.dir # NULL /\ t.pfix # NULL
  BY <1>2 DEF LogTypeFails
<1>5. t.dir \in STRING /\ t.pfix \in STRING
  BY <1>3, <1>4, LastValueNamed, NamesTyped
<1>6. IsSuffix(<<t.dir>>, Strs(Append(b, "DIR")))
  BY <1>3, <1>5, LastValueIs
<1>7. IsSuffix(<<t.pfix>>, Strs(Append(b, "PREFIX")))
  BY <1>3, <1>5, LastValueIs
<1>8. \A i \in DOMAIN targets : targets[i] \in STRING
  BY <1>1, StrsTyped
<1>9. DOMAIN t.targets = DOMAIN targets
  BY <1>3
<1>10. ASSUME NEW i \in DOMAIN targets
       PROVE  t.targets[i].regexes = Strs(b \o <<targets[i], "REGEX">>)
  <2>1. t.targets[i].regexes = Strs(Append(Append(b, targets[i]), "REGEX"))
    BY <1>3 DEF TargetOf
  <2>2. b \o <<targets[i], "REGEX">> = Append(Append(b, targets[i]), "REGEX")
    BY <1>8, AppendTwo
  <2>3. QED
    BY <2>1, <2>2
<1>11. Range(targets) = {targets[i] : i \in DOMAIN targets}
  BY DEF Range
<1> DEFINE Of(n) == Range(Strs(b \o <<n, "REGEX">>))
<1>12. \A i \in DOMAIN targets : Range(t.targets[i].regexes) = Of(targets[i])
  BY <1>10
<1> HIDE DEF Of
<1>13. UNION {Range(t.targets[i].regexes) : i \in DOMAIN t.targets} = UNION {Of(n) : n \in Range(targets)}
  BY <1>9, <1>11, <1>12
<1>14. UNION {Range(t.targets[i].regexes) : i \in DOMAIN t.targets}
         = UNION {Range(Strs(b \o <<n, "REGEX">>)) : n \in Range(Strs(Append(b, "TARGET")))}
  BY <1>1, <1>13 DEF Of
<1>15. QED
  BY <1>2, <1>6, <1>7, <1>14, Zenon DEF IsOf

LEMMA TallyImplies == TallyInv => LogTypesAsWritten
<1> SUFFICES ASSUME TallyInv, Done PROVE LogTypesAsWritten
  BY DEF LogTypesAsWritten
<1>1. CfgTypeOK /\ todo = <<>> /\ <<>> \notin DOMAIN entry_map
  BY DEF TallyInv, ReportInv, StartInv, MapInv, WalkInv, Done
<1>2. PICK d, o : Walks(d) /\ Made(d, o)
  BY DEF TallyInv, TypesInv, Done
<1>3. /\ o \in Seq(Seq(STRING)) /\ logType_map = TypesOf(o) /\ Len(o) \in Nat
      /\ \A i \in 1 .. Len(o) : ~LogTypeFails(LogTypeOf(o[i]))
  BY <1>2, LenProperties DEF Made
<1>4. Len(logType_map) = Len(o) /\ DOMAIN logType_map = 1 .. Len(o)
      /\ \A i \in 1 .. Len(o) : logType_map[i] = LogTypeOf(o[i])
  <2>1. PICK S, t, n : S = {LogTypeOf(q) : q \in Seq(STRING)} /\ t = TypesOf(o) /\ n = Len(o)
    OBVIOUS
  <2>2. t = [i \in 1 .. n |-> LogTypeOf(o[i])]
    BY <2>1 DEF TypesOf
  <2>3. \A i \in 1 .. n : o[i] \in Seq(STRING)
    BY <1>3, <2>1, ElementOfSeq
  <2>4. t \in [1 .. n -> S]
    BY <2>1, <2>2, <2>3
  <2>5. t \in Seq(S) /\ Len(t) = n
    <3>1. n \in Nat
      BY <1>3, <2>1
    <3>2. t \in Seq(S)
      BY <2>4, <3>1, SeqDef
    <3>3. QED
      BY <2>4, <3>1, <3>2, LenProperties
  <2>6. QED
    BY <1>3, <2>1, <2>2, <2>5
<1>5. \A C \in Seq(STRING) : CountIn(o, C) = SectionVisits(C, "LOGTYPE")
  BY <1>1, <1>2, MadeAsNamed
<1>6. ToSet(o) \subseteq Seq(STRING) /\ \A C : C \in ToSet(o) <=> CountIn(o, C) > 0
  BY <1>3, InSet, CountNat
<1>7. PICK S : S = Blocks("LOGTYPE")
  OBVIOUS
<1>8. S = ToSet(o)
  <2>1. \A C \in S : C \in Seq(STRING) /\ SectionVisits(C, "LOGTYPE") > 0
    BY <1>1, <1>7, BlocksAre
  <2>2. \A C \in Seq(STRING) : SectionVisits(C, "LOGTYPE") > 0 => C \in S
    BY <1>1, <1>7, BlocksAre
  <2>3. QED
    BY <1>5, <1>6, <2>1, <2>2
<1>9. \A x \in S : CountIn(o, x) = SectionVisits(x, "LOGTYPE")
  BY <1>5, <1>6, <1>8
<1>10. MapThenSumSet(LAMBDA b : SectionVisits(b, "LOGTYPE"), S) = Len(o)
  BY <1>3, <1>8, <1>9, SumIsLength
<1>11. ASSUME NEW b \in S
       PROVE  \E i \in DOMAIN logType_map : IsOf(logType_map[i], b)
  <2>1. PICK i \in 1 .. Len(o) : o[i] = b
    BY <1>3, <1>8, InSet
  <2>2. b \in Seq(STRING) /\ ~LogTypeFails(LogTypeOf(b)) /\ logType_map[i] = LogTypeOf(b)
    BY <1>3, <1>4, <1>6, <1>8, <2>1
  <2>3. IsOf(LogTypeOf(b), b)
    BY <1>1, <2>2, LogTypeIs
  <2>4. QED
    BY <1>4, <2>2, <2>3
<1>12. QED
  BY <1>4, <1>7, <1>10, <1>11, Zenon DEF LogTypesAsWritten

\* For any files: however the blocks nest and however often they are named, a report
\* or a change of the rules has a log type for each time configure() came to a LOGTYPE
\* block, and of each block one with the directory and the prefix given last, and the
\* patterns of all its targets.
THEOREM LogTypesCorrect == Spec => []LogTypesAsWritten
BY TallyInvariant, TallyImplies, PTL

---------------------------------------------------------------------------
(* Lines in order.                                                         *)

\* A sequence goes through a set of numbers from the least to the greatest.
Lists(s, S) ==
  /\ s \in Seq(Nat) /\ \A i, j \in DOMAIN s : i < j => s[i] < s[j]
  /\ ToSet(s) = S

LEMMA ListsParts ==
  ASSUME NEW s, NEW S, Lists(s, S)
  PROVE  /\ s \in Seq(Nat) /\ Len(s) \in Nat /\ DOMAIN s = 1 .. Len(s)
         /\ \A i \in 1 .. Len(s) : s[i] \in S /\ s[i] \in Nat
         /\ \A e \in S : \E i \in 1 .. Len(s) : s[i] = e
         /\ \A i, j \in 1 .. Len(s) : (i < j => s[i] < s[j]) /\ (s[i] <= s[j] <=> i <= j)
<1>1. /\ s \in Seq(Nat) /\ ToSet(s) = S
      /\ \A i, j \in DOMAIN s : i < j => s[i] < s[j]
  BY DEF Lists
<1>2. Len(s) \in Nat /\ DOMAIN s = 1 .. Len(s) /\ \A i \in 1 .. Len(s) : s[i] \in Nat
  BY <1>1, LenProperties, ElementOfSeq
<1>3. \A i \in 1 .. Len(s) : s[i] \in S
  BY <1>1, <1>2 DEF ToSet
<1>4. \A e \in S : \E i \in 1 .. Len(s) : s[i] = e
  BY <1>1, <1>2 DEF ToSet
<1>5. ASSUME NEW i \in 1 .. Len(s), NEW j \in 1 .. Len(s)
      PROVE  (i < j => s[i] < s[j]) /\ (s[i] <= s[j] <=> i <= j)
  <2>1. (i < j => s[i] < s[j]) /\ (j < i => s[j] < s[i])
    BY <1>1, <1>2
  <2>2. s[i] \in Nat /\ s[j] \in Nat /\ i \in Nat /\ j \in Nat /\ (i = j => s[i] = s[j])
    BY <1>2
  <2>3. QED
    BY <2>1, <2>2
<1>6. QED
  BY <1>1, <1>2, <1>3, <1>4, <1>5

\* Up to its k-th, there are k.
LEMMA ListsRank ==
  ASSUME NEW s, NEW S, Lists(s, S), NEW k \in 0 .. Len(s)
  PROVE  Cardinality({s[i] : i \in 1 .. k}) = k
<1>1. PICK f : f = [i \in 1 .. k |-> s[i]]
  OBVIOUS
<1> DEFINE T == {s[i] : i \in 1 .. k}
<1>2. k \in Nat /\ \A i \in 1 .. k : i \in 1 .. Len(s)
  BY ListsParts
<1>3. \A i, j \in 1 .. k : s[i] = s[j] => i = j
  <2>1. \A i, j \in 1 .. k : s[i] = s[j] => i <= j /\ j <= i
    BY <1>2, ListsParts
  <2>2. QED
    BY <1>2, <2>1
<1>4. f \in Bijection(1 .. k, T)
  BY <1>1, <1>3 DEF Bijection, Injection, Surjection, IsInjective
<1>5. IsFiniteSet(1 .. k) /\ Cardinality(1 .. k) = k
  <2>1. 1 \in Int /\ k \in Int
    BY <1>2
  <2>2. IsFiniteSet(1 .. k) /\ Cardinality(1 .. k) = IF 1 > k THEN 0 ELSE k - 1 + 1
    BY <2>1, FS_Interval
  <2>3. QED
    BY <1>2, <2>2
<1>6. ExistsBijection(1 .. k, T)
  BY <1>4 DEF ExistsBijection
<1>7. QED
  BY <1>5, <1>6, FS_Bijection

\* There is no other order than from the least to the greatest.
LEMMA InOrderIs ==
  ASSUME NEW s, NEW S, Lists(s, S)
  PROVE  InOrder(S) = s
<1>1. PICK n : n = Len(s) /\ n \in Nat
  BY ListsParts
<1>2. Cardinality(S) = n
  <2>1. S = {s[i] : i \in 1 .. n}
    BY <1>1, ListsParts
  <2>2. n \in 0 .. Len(s)
    BY <1>1
  <2>3. QED
    BY <2>1, <2>2, ListsRank
<1>3. ASSUME NEW i \in 1 .. n PROVE Cardinality({j \in S : j <= s[i]}) = i
  <2>1. {j \in S : j <= s[i]} = {s[j] : j \in 1 .. i}
    <3>1. \A e \in S : e <= s[i] => \E j \in 1 .. i : s[j] = e
      <4> SUFFICES ASSUME NEW e \in S, e <= s[i] PROVE \E j \in 1 .. i : s[j] = e
        OBVIOUS
      <4>1. PICK j \in 1 .. n : s[j] = e
        BY <1>1, ListsParts
      <4>2. j <= i
        BY <1>1, <4>1, ListsParts
      <4>3. QED
        BY <1>1, <4>1, <4>2
    <3>2. \A j \in 1 .. i : s[j] \in S /\ s[j] <= s[i]
      <4> SUFFICES ASSUME NEW j \in 1 .. i PROVE s[j] \in S /\ s[j] <= s[i]
        OBVIOUS
      <4>1. j \in 1 .. n /\ j <= i
        BY <1>1
      <4>2. QED
        BY <1>1, <4>1, ListsParts
    <3>3. QED
      BY <3>1, <3>2
  <2>2. i \in 0 .. Len(s)
    BY <1>1
  <2>3. QED
    BY <2>1, <2>2, ListsRank
<1>4. ASSUME NEW k \in 1 .. n
      PROVE  (CHOOSE i \in S : Cardinality({j \in S : j <= i}) = k) = s[k]
  <2>1. s[k] \in S /\ Cardinality({j \in S : j <= s[k]}) = k
    BY <1>1, <1>3, ListsParts
  <2>2. ASSUME NEW i \in S, Cardinality({j \in S : j <= i}) = k PROVE i = s[k]
    <3>1. PICK m \in 1 .. n : s[m] = i
      BY <1>1, ListsParts
    <3>2. m = k
      BY <1>3, <2>2, <3>1
    <3>3. QED
      BY <3>1, <3>2
  <2>3. QED
    BY <2>1, <2>2
<1>5. InOrder(S) = [k \in 1 .. n |-> s[k]]
  BY <1>2, <1>4 DEF InOrder
<1>6. s = [k \in 1 .. n |-> s[k]]
  <2>1. s \in Seq(Nat)
    BY ListsParts
  <2>2. QED
    BY <1>1, <2>1, SeqDef
<1>7. QED
  BY <1>5, <1>6

LEMMA ListsNone == Lists(<<>>, {})
<1>1. <<>> \in Seq(Nat) /\ DOMAIN <<>> = {}
  OBVIOUS
<1>2. QED
  BY <1>1 DEF Lists, ToSet

\* One more, greater than all.
LEMMA ListsMore ==
  ASSUME NEW s, NEW S, Lists(s, S), NEW m \in Nat, \A e \in S : e < m
  PROVE  Lists(Append(s, m), S \cup {m})
<1>1. PICK n : n = Len(s) /\ n \in Nat
  BY ListsParts
<1>2. PICK t : /\ t = Append(s, m) /\ t \in Seq(Nat) /\ Len(t) = n + 1
               /\ (\A i \in 1 .. n : t[i] = s[i]) /\ t[n + 1] = m
  <2>1. s \in Seq(Nat)
    BY ListsParts
  <2>2. /\ Append(s, m) \in Seq(Nat) /\ Len(Append(s, m)) = Len(s) + 1
        /\ (\A i \in 1 .. Len(s) : Append(s, m)[i] = s[i]) /\ Append(s, m)[Len(s) + 1] = m
    BY <2>1, AppendProperties
  <2>3. QED
    BY <1>1, <2>2
<1>3. DOMAIN t = 1 .. n + 1
  BY <1>2, LenProperties
<1>4. ASSUME NEW i \in DOMAIN t, NEW j \in DOMAIN t, i < j PROVE t[i] < t[j]
  <2>1. i \in 1 .. n /\ (j \in 1 .. n \/ j = n + 1)
    BY <1>1, <1>3, <1>4
  <2>2. CASE j \in 1 .. n
    BY <1>1, <1>2, <1>4, <2>1, <2>2, ListsParts
  <2>3. CASE j = n + 1
    BY <1>1, <1>2, <2>1, <2>3, ListsParts
  <2>4. QED
    BY <2>1, <2>2, <2>3
<1>5. ToSet(t) = S \cup {m}
  <2>1. \A i \in DOMAIN t : t[i] \in S \cup {m}
    <3> SUFFICES ASSUME NEW i \in DOMAIN t PROVE t[i] \in S \cup {m}
      OBVIOUS
    <3>1. i \in 1 .. n \/ i = n + 1
      BY <1>1, <1>3
    <3>2. QED
      BY <1>1, <1>2, <3>1, ListsParts
  <2>2. \A e \in S \cup {m} : \E i \in DOMAIN t : t[i] = e
    <3>1. n + 1 \in DOMAIN t /\ \A i \in 1 .. n : i \in DOMAIN t
      BY <1>1, <1>3
    <3>2. ASSUME NEW e \in S PROVE \E i \in DOMAIN t : t[i] = e
      <4>1. PICK i \in 1 .. n : s[i] = e
        BY <1>1, ListsParts
      <4>2. t[i] = e
        BY <1>2, <4>1
      <4>3. QED
        BY <3>1, <4>2
    <3>3. \E i \in DOMAIN t : t[i] = m
      BY <1>2, <3>1
    <3>4. QED
      BY <3>2, <3>3
  <2>3. QED
    BY <2>1, <2>2 DEF ToSet
<1>6. QED
  BY <1>2, <1>4, <1>5 DEF Lists

\* The first ones of a list.
LEMMA ListsFirst ==
  ASSUME NEW s, NEW S, Lists(s, S), NEW m \in 0 .. Len(s)
  PROVE  /\ Lists(SubSeq(s, 1, m), {s[i] : i \in 1 .. m})
         /\ Len(SubSeq(s, 1, m)) = m /\ \A i \in 1 .. m : SubSeq(s, 1, m)[i] = s[i]
<1>1. PICK n : n = Len(s) /\ n \in Nat
  BY ListsParts
<1>2. PICK t : /\ t = SubSeq(s, 1, m) /\ t \in Seq(Nat) /\ Len(t) = m
               /\ (\A i \in 1 .. m : t[i] = s[i])
  <2>1. s \in Seq(Nat)
    BY ListsParts
  <2>2. m \in 0 .. n
    BY <1>1
  <2>3. \A i \in 1 .. m : i \in 1 .. Len(s)
    BY <1>1
  <2>4. SubSeq(s, 1, m) \in Seq(Nat) /\ Len(SubSeq(s, 1, m)) = m
        /\ \A i \in 1 .. m : SubSeq(s, 1, m)[i] = s[i]
    BY <1>1, <2>1, <2>2, <2>3, SubSeqProperties
  <2>5. QED
    BY <2>4
<1>3. DOMAIN t = 1 .. m /\ \A i \in 1 .. m : i \in 1 .. n
  BY <1>1, <1>2, LenProperties
<1>4. \A i, j \in DOMAIN t : i < j => t[i] < t[j]
  <2>1. \A i, j \in 1 .. n : i < j => s[i] < s[j]
    BY <1>1, ListsParts
  <2>2. QED
    BY <1>2, <1>3, <2>1
<1>5. ToSet(t) = {s[i] : i \in 1 .. m}
  BY <1>2, <1>3 DEF ToSet
<1>6. QED
  BY <1>2, <1>4, <1>5 DEF Lists

\* Any lines of a file can be listed, and InOrder() does.
LEMMA LinesListed ==
  ASSUME NEW n \in Nat, NEW S \in SUBSET (1 .. n)
  PROVE  Lists(InOrder(S), S)
<1> DEFINE bad == {k \in Nat : \E T \in SUBSET (1 .. k) : ~Lists(InOrder(T), T)}
<1> SUFFICES ASSUME bad # {} PROVE FALSE
  OBVIOUS
<1>1. bad \in SUBSET Nat
  OBVIOUS
<1> HIDE DEF bad
<1>2. PICK k \in bad : \A j \in bad : k <= j
  BY <1>1, Least
<1>3. PICK T \in SUBSET (1 .. k) : ~Lists(InOrder(T), T)
  BY DEF bad
<1>4. k \in Nat
  BY <1>1
<1>5. ASSUME k # 0, NEW R \in SUBSET (1 .. k - 1) PROVE Lists(InOrder(R), R)
  <2>1. k - 1 \in Nat /\ ~(k <= k - 1)
    BY <1>4, <1>5
  <2>2. k - 1 \notin bad
    BY <1>2, <2>1
  <2>3. QED
    BY <1>5, <2>1, <2>2 DEF bad
<1>6. CASE T = {}
  BY <1>3, <1>6, ListsNone, InOrderIs
<1>7. CASE T # {}
  <2>1. k # 0
    <3>1. PICK e \in T : e \in 1 .. k
      BY <1>7
    <3>2. QED
      BY <1>4, <3>1
  <2>2. CASE k \notin T
    <3>1. T \in SUBSET (1 .. k - 1)
      BY <1>4, <2>2
    <3>2. QED
      BY <1>3, <1>5, <2>1, <3>1
  <2>3. CASE k \in T
    <3>1. T \ {k} \in SUBSET (1 .. k - 1) /\ \A e \in T \ {k} : e < k
      BY <1>4
    <3>2. Lists(InOrder(T \ {k}), T \ {k})
      BY <1>5, <2>1, <3>1
    <3>3. Lists(Append(InOrder(T \ {k}), k), (T \ {k}) \cup {k})
      BY <1>4, <3>1, <3>2, ListsMore
    <3>4. (T \ {k}) \cup {k} = T
      BY <2>3
    <3>5. Lists(Append(InOrder(T \ {k}), k), T)
      BY <3>3, <3>4
    <3>6. QED
      BY <1>3, <3>5, InOrderIs
  <2>4. QED
    BY <2>2, <2>3
<1>8. QED
  BY <1>6, <1>7

LEMMA InOrderMore ==
  ASSUME NEW n \in Nat, NEW S \in SUBSET (1 .. n)
  PROVE  InOrder(S \cup {n + 1}) = Append(InOrder(S), n + 1)
<1>1. Lists(InOrder(S), S)
  BY LinesListed
<1>2. n + 1 \in Nat /\ \A e \in S : e < n + 1
  OBVIOUS
<1>3. Lists(Append(InOrder(S), n + 1), S \cup {n + 1})
  BY <1>1, <1>2, ListsMore
<1>4. QED
  BY <1>3, InOrderIs

---------------------------------------------------------------------------
(* The meaning of the text, for any lines.                                 *)

PairsIn(d) == {i \in DOMAIN d : d[i].kind = "pair"}
OpensAt(d, i) == i \in PairsIn(d) /\ d[i].end = "{"
TuplesIn(d) == {i \in PairsIn(d) : d[i].val # ""}
DepthAt(d, i) ==
  Cardinality({j \in 1 .. i : OpensAt(d, j)})
    - (Cardinality({j \in 1 .. i : Ends(d[j]) > 0})
         + Cardinality({j \in 1 .. i : Ends(d[j]) = 2}))
Depths(d) == [i \in 0 .. Len(d) |-> DepthAt(d, i)]
AroundIn(d, i) ==
  {j \in 1 .. i - 1 : /\ OpensAt(d, j)
                      /\ \A k \in j + 1 .. i : Depths(d)[k - 1] - Ends(d[k]) >= Depths(d)[j]}
ValsOf(d, s) == [k \in DOMAIN s |-> d[s[k]].val]
PathIn(d, i) == ValsOf(d, InOrder(AroundIn(d, i))) \o d[i].sym
PathsIn(d) == [i \in PairsIn(d) |-> PathIn(d, i)]
LinesIn(d, path) == InOrder({i \in TuplesIn(d) : PathsIn(d)[i] = path})
ReplacesIn(d, i, k) ==
  {r \in DOMAIN d : /\ d[r].kind = "replace" /\ r > i /\ d[r].sym = PathsIn(d)[i]
                    /\ d[r].ndx \in {NoNdx, k - 1}}
GivenIn(d, i) == [str |-> d[i].val, serial_no |-> Cardinality(TuplesIn(d) \cap 1 .. i)]
ValueIn(d, i, k) ==
  IF ReplacesIn(d, i, k) = {} THEN GivenIn(d, i)
  ELSE IF d[Max(ReplacesIn(d, i, k))].ndx = NoNdx THEN Wild
       ELSE [GivenIn(d, i) EXCEPT !.str = d[Max(ReplacesIn(d, i, k))].val]
ValuesIn(d, path) == [k \in DOMAIN LinesIn(d, path) |-> ValueIn(d, LinesIn(d, path)[k], k)]
MeaningOf(d) == [path \in Range(PathsIn(d)) |-> ValuesIn(d, path)]

LEMMA MeaningIs == Meaning = MeaningOf(doc) /\ Meaning' = MeaningOf(doc')
<1>1. /\ Pairs = PairsIn(doc) /\ Pairs' = PairsIn(doc')
      /\ \A i : (Opened(i) <=> OpensAt(doc, i)) /\ (Opened(i)' <=> OpensAt(doc', i))
  BY DEF Pairs, PairsIn, Opened, OpensAt
<1>2. TupleLines = TuplesIn(doc) /\ TupleLines' = TuplesIn(doc')
  BY <1>1 DEF TupleLines, TuplesIn
<1>3. \A i : Depth(i) = DepthAt(doc, i) /\ Depth(i)' = DepthAt(doc', i)
  BY DEF Depth, DepthAt, Opened, OpensAt, Pairs, PairsIn
<1>4. Paths = PathsIn(doc)
  BY DEF Paths, PathsIn, PathIn, ValsOf, AroundIn, Depths, Depth, DepthAt,
         Opened, OpensAt, Pairs, PairsIn
<1>5. Paths' = PathsIn(doc')
  BY DEF Paths, PathsIn, PathIn, ValsOf, AroundIn, Depths, Depth, DepthAt,
         Opened, OpensAt, Pairs, PairsIn
<1>6. Meaning = MeaningOf(doc)
  BY <1>2, <1>4 DEF Meaning, MeaningOf, ValuesIn, ValueIn, GivenIn, ReplacesIn, LinesIn
<1>7. Meaning' = MeaningOf(doc')
  BY <1>2, <1>5 DEF Meaning, MeaningOf, ValuesIn, ValueIn, GivenIn, ReplacesIn, LinesIn
<1>8. QED
  BY <1>6, <1>7

\* A line is read after others.
Adds(e, d, l) == d \in Seq(Lines) /\ l \in Lines /\ e = Append(d, l)

LEMMA LineAdded ==
  ASSUME NEW d, NEW l, NEW e, Adds(e, d, l)
  PROVE  /\ e \in Seq(Lines) /\ Len(d) \in Nat /\ DOMAIN d = 1 .. Len(d)
         /\ Len(e) = Len(d) + 1 /\ DOMAIN e = 1 .. Len(d) + 1
         /\ \A i \in 1 .. Len(d) : e[i] = d[i] /\ d[i] \in Lines
         /\ e[Len(d) + 1] = l
<1>1. /\ Append(d, l) \in Seq(Lines) /\ Len(Append(d, l)) = Len(d) + 1
      /\ \A i \in 1 .. Len(d) : Append(d, l)[i] = d[i]
      /\ Append(d, l)[Len(d) + 1] = l
  BY AppendProperties DEF Adds
<1>2. Len(d) \in Nat /\ DOMAIN d = 1 .. Len(d) /\ \A i \in 1 .. Len(d) : d[i] \in Lines
  BY LenProperties, ElementOfSeq DEF Adds
<1>3. e \in Seq(Lines) /\ Len(e) = Len(d) + 1 /\ e[Len(d) + 1] = l
      /\ \A i \in 1 .. Len(d) : e[i] = d[i]
  BY <1>1 DEF Adds
<1>4. DOMAIN e = 1 .. Len(d) + 1
  BY <1>3, LenProperties
<1>5. QED
  BY <1>2, <1>3, <1>4

OpensLine(l) == l.kind = "pair" /\ l.end = "{"

\* The lines there were are what they were.
LEMMA SameOpens ==
  ASSUME NEW d, NEW l, NEW e, Adds(e, d, l)
  PROVE  /\ \A i \in 1 .. Len(d) : e[i] = d[i] /\ (OpensAt(e, i) <=> OpensAt(d, i))
         /\ e[Len(d) + 1] = l /\ (OpensAt(e, Len(d) + 1) <=> OpensLine(l))
<1>1. PICK n : n = Len(d) /\ n \in Nat
  BY LineAdded
<1>2. /\ DOMAIN d = 1 .. n /\ DOMAIN e = 1 .. n + 1
      /\ (\A i \in 1 .. n : e[i] = d[i]) /\ e[n + 1] = l
  BY <1>1, LineAdded
<1>3. n + 1 \in DOMAIN e /\ \A i \in 1 .. n : i \in DOMAIN d /\ i \in DOMAIN e
  BY <1>1, <1>2
<1>4. \A i \in 1 .. n : OpensAt(e, i) <=> OpensAt(d, i)
  BY <1>2, <1>3 DEF OpensAt, PairsIn
<1>5. OpensAt(e, n + 1) <=> OpensLine(l)
  BY <1>2, <1>3 DEF OpensAt, PairsIn, OpensLine
<1>6. QED
  BY <1>1, <1>2, <1>4, <1>5

LEMMA SamePairs ==
  ASSUME NEW d, NEW l, NEW e, Adds(e, d, l)
  PROVE  /\ \A i \in 1 .. Len(d) : i \in PairsIn(e) <=> i \in PairsIn(d)
         /\ Len(d) + 1 \in PairsIn(e) <=> l.kind = "pair"
         /\ PairsIn(d) \subseteq 1 .. Len(d) /\ PairsIn(e) \subseteq 1 .. Len(d) + 1
<1>1. PICK n : n = Len(d) /\ n \in Nat
  BY LineAdded
<1>2. /\ DOMAIN d = 1 .. n /\ DOMAIN e = 1 .. n + 1
      /\ (\A i \in 1 .. n : e[i] = d[i]) /\ e[n + 1] = l
  BY <1>1, LineAdded
<1>3. n + 1 \in DOMAIN e /\ \A i \in 1 .. n : i \in DOMAIN d /\ i \in DOMAIN e
  BY <1>1, <1>2
<1>4. \A i \in 1 .. n : i \in PairsIn(e) <=> i \in PairsIn(d)
  BY <1>2, <1>3 DEF PairsIn
<1>5. n + 1 \in PairsIn(e) <=> l.kind = "pair"
  BY <1>2, <1>3 DEF PairsIn
<1>6. PairsIn(d) \subseteq 1 .. n /\ PairsIn(e) \subseteq 1 .. n + 1
  BY <1>2 DEF PairsIn
<1>7. QED
  BY <1>1, <1>4, <1>5, <1>6

LEMMA SameTuples ==
  ASSUME NEW d, NEW l, NEW e, Adds(e, d, l)
  PROVE  /\ \A i \in 1 .. Len(d) : i \in TuplesIn(e) <=> i \in TuplesIn(d)
         /\ Len(d) + 1 \in TuplesIn(e) <=> l.kind = "pair" /\ l.val # ""
<1>1. PICK n : n = Len(d) /\ n \in Nat
  BY LineAdded
<1>2. (\A i \in 1 .. n : e[i] = d[i]) /\ e[n + 1] = l
  BY <1>1, LineAdded
<1>3. \A i \in 1 .. n : i \in TuplesIn(e) <=> i \in TuplesIn(d)
  <2>1. \A i \in 1 .. n : i \in PairsIn(e) <=> i \in PairsIn(d)
    BY <1>1, SamePairs
  <2>2. QED
    BY <1>2, <2>1 DEF TuplesIn
<1>4. n + 1 \in TuplesIn(e) <=> l.kind = "pair" /\ l.val # ""
  <2>1. n + 1 \in PairsIn(e) <=> l.kind = "pair"
    BY <1>1, SamePairs
  <2>2. QED
    BY <1>2, <2>1 DEF TuplesIn
<1>5. QED
  BY <1>1, <1>3, <1>4

\* How many of the lines up to one there are in a set.
LEMMA OneMore ==
  ASSUME NEW n \in Nat, NEW K \in SUBSET (1 .. n + 1)
  PROVE  /\ Cardinality(K \cap 1 .. n) \in Nat
         /\ Cardinality(K) = Cardinality(K \cap 1 .. n) + IF n + 1 \in K THEN 1 ELSE 0
<1>1. PICK k : k = n + 1 /\ k \in Nat \ {0} /\ k - 1 = n
  OBVIOUS
<1>2. K \in SUBSET Nat /\ K \cap 1 .. k = K
  <2>1. \A e \in K : e \in 1 .. k
    BY <1>1
  <2>2. \A e \in K : e \in Nat
    BY <1>1, <2>1
  <2>3. QED
    BY <2>1, <2>2
<1>3. Cardinality(K \cap 1 .. k) = Cardinality(K \cap 1 .. k - 1) + (IF k \in K THEN 1 ELSE 0)
  BY <1>1, <1>2, CountTo
<1>4. Cardinality(K \cap 1 .. n) \in Nat
  <2>1. IsFiniteSet(1 .. n) /\ K \cap 1 .. n \in SUBSET (1 .. n)
    BY FS_Interval
  <2>2. IsFiniteSet(K \cap 1 .. n)
    BY <2>1, FS_Subset
  <2>3. QED
    BY <2>2, FS_CardinalityType
<1>5. QED
  BY <1>1, <1>2, <1>3, <1>4

\* A line opens a block, or closes one or two, and leaves the depth before it alone.
LEMMA DepthStep ==
  ASSUME NEW d, NEW l, NEW e, Adds(e, d, l)
  PROVE  /\ \A i \in 0 .. Len(d) : DepthAt(e, i) = DepthAt(d, i)
         /\ DepthAt(d, Len(d)) \in Int
         /\ DepthAt(e, Len(d) + 1) = DepthAt(d, Len(d)) - Ends(l) + IF OpensLine(l) THEN 1 ELSE 0
<1>1. PICK n : n = Len(d) /\ n \in Nat
  BY LineAdded
<1>2. /\ \A i \in 1 .. n : e[i] = d[i] /\ (OpensAt(e, i) <=> OpensAt(d, i))
      /\ e[n + 1] = l /\ (OpensAt(e, n + 1) <=> OpensLine(l))
  BY <1>1, SameOpens
<1>3. ASSUME NEW i \in 0 .. n PROVE DepthAt(e, i) = DepthAt(d, i)
  <2>1. \A j \in 1 .. i : j \in 1 .. n
    BY <1>1
  <2>2. /\ {j \in 1 .. i : OpensAt(e, j)} = {j \in 1 .. i : OpensAt(d, j)}
        /\ {j \in 1 .. i : Ends(e[j]) > 0} = {j \in 1 .. i : Ends(d[j]) > 0}
        /\ {j \in 1 .. i : Ends(e[j]) = 2} = {j \in 1 .. i : Ends(d[j]) = 2}
    BY <1>2, <2>1
  <2>3. QED
    BY <2>2 DEF DepthAt
<1> DEFINE A == {j \in 1 .. n + 1 : OpensAt(e, j)}
           B == {j \in 1 .. n + 1 : Ends(e[j]) > 0}
           C == {j \in 1 .. n + 1 : Ends(e[j]) = 2}
<1>4. /\ A \cap 1 .. n = {j \in 1 .. n : OpensAt(d, j)}
      /\ B \cap 1 .. n = {j \in 1 .. n : Ends(d[j]) > 0}
      /\ C \cap 1 .. n = {j \in 1 .. n : Ends(d[j]) = 2}
  <2>1. \A j \in 1 .. n : j \in 1 .. n + 1
    BY <1>1
  <2>2. QED
    BY <1>2, <2>1
<1>5. /\ n + 1 \in A <=> OpensLine(l)
      /\ n + 1 \in B <=> Ends(l) > 0
      /\ n + 1 \in C <=> Ends(l) = 2
  <2>1. n + 1 \in 1 .. n + 1
    BY <1>1
  <2>2. QED
    BY <1>2, <2>1
<1>6. A \in SUBSET (1 .. n + 1) /\ B \in SUBSET (1 .. n + 1) /\ C \in SUBSET (1 .. n + 1)
  OBVIOUS
<1>7. DepthAt(e, n + 1) = Cardinality(A) - (Cardinality(B) + Cardinality(C))
  BY DEF DepthAt
<1>8. DepthAt(d, n) = Cardinality(A \cap 1 .. n)
                        - (Cardinality(B \cap 1 .. n) + Cardinality(C \cap 1 .. n))
  BY <1>4 DEF DepthAt
<1> HIDE DEF A, B, C
<1>9. Ends(l) \in {0, 1, 2}
  BY EndsIs
<1>10. /\ Cardinality(A \cap 1 .. n) \in Nat
       /\ Cardinality(B \cap 1 .. n) \in Nat
       /\ Cardinality(C \cap 1 .. n) \in Nat
       /\ Cardinality(A) = Cardinality(A \cap 1 .. n) + IF OpensLine(l) THEN 1 ELSE 0
       /\ Cardinality(B) = Cardinality(B \cap 1 .. n) + IF Ends(l) > 0 THEN 1 ELSE 0
       /\ Cardinality(C) = Cardinality(C \cap 1 .. n) + IF Ends(l) = 2 THEN 1 ELSE 0
  BY <1>1, <1>5, <1>6, OneMore
<1>11. /\ DepthAt(d, n) \in Int
       /\ DepthAt(e, n + 1) = DepthAt(d, n) - Ends(l) + IF OpensLine(l) THEN 1 ELSE 0
  <2>1. PICK o \in {0, 1}, b \in {0, 1}, c \in {0, 1} :
          /\ o = (IF OpensLine(l) THEN 1 ELSE 0)
          /\ b = (IF Ends(l) > 0 THEN 1 ELSE 0)
          /\ c = (IF Ends(l) = 2 THEN 1 ELSE 0)
    OBVIOUS
  <2>2. Ends(l) = b + c
    BY <1>9, <2>1
  <2>3. PICK x \in Nat, y \in Nat, z \in Nat :
          /\ x = Cardinality(A \cap 1 .. n) /\ y = Cardinality(B \cap 1 .. n)
          /\ z = Cardinality(C \cap 1 .. n)
    BY <1>10
  <2>4. Cardinality(A) = x + o /\ Cardinality(B) = y + b /\ Cardinality(C) = z + c
    BY <1>10, <2>1, <2>3
  <2>5. DepthAt(e, n + 1) = (x + o) - ((y + b) + (z + c)) /\ DepthAt(d, n) = x - (y + z)
    BY <1>7, <1>8, <2>3, <2>4
  <2>6. (x + o) - ((y + b) + (z + c)) = (x - (y + z)) - (b + c) + o /\ x - (y + z) \in Int
    OBVIOUS
  <2>7. QED
    BY <2>1, <2>2, <2>5, <2>6
<1>12. QED
  BY <1>1, <1>3, <1>11

---------------------------------------------------------------------------
(* The blocks that are open.                                               *)

OpenIn(d) ==
  {j \in 1 .. Len(d) : /\ OpensAt(d, j)
                       /\ \A k \in j + 1 .. Len(d) : DepthAt(d, k - 1) - Ends(d[k]) >= DepthAt(d, j)}

\* The lines that opened them, each as deep as its place.
Stacked(d, s) ==
  /\ Lists(s, OpenIn(d)) /\ DepthAt(d, Len(d)) = Len(s)
  /\ \A k \in 1 .. Len(s) : DepthAt(d, s[k]) = k

\* Which blocks are around a line that is read is not changed by later lines.
LEMMA AroundStays ==
  ASSUME NEW d, NEW l, NEW e, Adds(e, d, l), NEW i \in 1 .. Len(d)
  PROVE  AroundIn(e, i) = AroundIn(d, i) /\ AroundIn(d, i) \in SUBSET (1 .. Len(d))
<1>1. PICK n : n = Len(d) /\ n \in Nat /\ Len(e) = n + 1
  BY LineAdded
<1>2. \A j \in 1 .. n : e[j] = d[j] /\ (OpensAt(e, j) <=> OpensAt(d, j))
  BY <1>1, SameOpens
<1>3. \A j \in 0 .. n : Depths(e)[j] = Depths(d)[j]
  <2>1. \A j \in 0 .. n : DepthAt(e, j) = DepthAt(d, j) /\ j \in 0 .. n + 1
    BY <1>1, DepthStep
  <2>2. QED
    BY <1>1, <2>1 DEF Depths
<1>4. i \in 1 .. n
  BY <1>1
<1>5. ASSUME NEW j \in 1 .. i - 1
      PROVE  /\ j \in 1 .. n /\ j \in 0 .. n
             /\ \A k \in j + 1 .. i : k \in 1 .. n /\ k - 1 \in 0 .. n
  BY <1>1, <1>4
<1>6. ASSUME NEW j \in 1 .. i - 1
      PROVE  (\A k \in j + 1 .. i : Depths(e)[k - 1] - Ends(e[k]) >= Depths(e)[j])
               <=> (\A k \in j + 1 .. i : Depths(d)[k - 1] - Ends(d[k]) >= Depths(d)[j])
  BY <1>2, <1>3, <1>5
<1>7. AroundIn(e, i) = AroundIn(d, i)
  BY <1>2, <1>5, <1>6 DEF AroundIn
<1>8. AroundIn(d, i) \in SUBSET (1 .. n)
  BY <1>5 DEF AroundIn
<1>9. QED
  BY <1>1, <1>7, <1>8

\* A line is in the blocks that it does not close.
LEMMA AroundLine ==
  ASSUME NEW d, NEW l, NEW e, Adds(e, d, l),
         NEW s, Stacked(d, s), NEW m \in 0 .. Len(s), m = Len(s) - Ends(l)
  PROVE  AroundIn(e, Len(d) + 1) = {s[k] : k \in 1 .. m}
<1>1. PICK n : n = Len(d) /\ n \in Nat /\ Len(e) = n + 1
  BY LineAdded
<1>2. /\ \A j \in 1 .. n : e[j] = d[j] /\ (OpensAt(e, j) <=> OpensAt(d, j))
      /\ e[n + 1] = l
  BY <1>1, SameOpens
<1>3. \A j \in 0 .. n : Depths(e)[j] = DepthAt(d, j)
  <2>1. \A j \in 0 .. n : DepthAt(e, j) = DepthAt(d, j) /\ j \in 0 .. n + 1
    BY <1>1, DepthStep
  <2>2. QED
    BY <1>1, <2>1 DEF Depths
<1>4. /\ Lists(s, OpenIn(d)) /\ DepthAt(d, n) = Len(s) /\ Len(s) \in Nat
      /\ \A k \in 1 .. Len(s) : DepthAt(d, s[k]) = k
  BY <1>1, ListsParts DEF Stacked
<1>5. ASSUME NEW j \in 1 .. n
      PROVE  (\A k \in j + 1 .. n + 1 : Depths(e)[k - 1] - Ends(e[k]) >= Depths(e)[j])
               <=> /\ \A k \in j + 1 .. n : DepthAt(d, k - 1) - Ends(d[k]) >= DepthAt(d, j)
                   /\ m >= DepthAt(d, j)
  <2>1. j \in 0 .. n /\ n + 1 \in j + 1 .. n + 1 /\ (n + 1) - 1 = n /\ n \in 0 .. n
    BY <1>1
  <2>2. Depths(e)[j] = DepthAt(d, j) /\ Depths(e)[n] - Ends(e[n + 1]) = m
    BY <1>2, <1>3, <1>4, <2>1
  <2>3. \A k \in j + 1 .. n : /\ k \in j + 1 .. n + 1 /\ e[k] = d[k]
                              /\ Depths(e)[k - 1] = DepthAt(d, k - 1)
    <3>1. \A k \in j + 1 .. n : k \in j + 1 .. n + 1 /\ k \in 1 .. n /\ k - 1 \in 0 .. n
      BY <1>1
    <3>2. QED
      BY <1>2, <1>3, <3>1
  <2>4. \A k \in j + 1 .. n + 1 : k \in j + 1 .. n \/ k = n + 1
    BY <1>1
  <2>5. QED
    BY <2>1, <2>2, <2>3, <2>4
<1>6. \A j : j \in AroundIn(e, n + 1) <=> j \in OpenIn(d) /\ m >= DepthAt(d, j)
  <2>1. (n + 1) - 1 = n
    BY <1>1
  <2>2. QED
    BY <1>1, <1>2, <1>5, <2>1 DEF AroundIn, OpenIn
<1>7. \A j \in OpenIn(d) : \E k \in 1 .. Len(s) : s[k] = j
  BY <1>4, ListsParts
<1>8. \A k \in 1 .. m : k \in 1 .. Len(s) /\ m >= k
  BY <1>4
<1>9. \A k \in 1 .. Len(s) : s[k] \in OpenIn(d) /\ (m >= k => k \in 1 .. m)
  BY <1>4, ListsParts
<1>10. QED
  BY <1>1, <1>4, <1>6, <1>7, <1>8, <1>9

\* What is left of the open lines when some blocks have been closed.
LEMMA StackFirst ==
  ASSUME NEW d, NEW l, NEW e, Adds(e, d, l),
         NEW s, Stacked(d, s), NEW m \in 0 .. Len(s), m = Len(s) - Ends(l)
  PROVE  /\ InOrder(AroundIn(e, Len(d) + 1)) = SubSeq(s, 1, m)
         /\ Lists(SubSeq(s, 1, m), AroundIn(e, Len(d) + 1)) /\ Len(SubSeq(s, 1, m)) = m
         /\ \A k \in 1 .. m : SubSeq(s, 1, m)[k] = s[k]
<1>1. AroundIn(e, Len(d) + 1) = {s[k] : k \in 1 .. m}
  BY AroundLine
<1>2. Lists(s, OpenIn(d))
  BY DEF Stacked
<1>3. /\ Lists(SubSeq(s, 1, m), {s[k] : k \in 1 .. m}) /\ Len(SubSeq(s, 1, m)) = m
      /\ \A k \in 1 .. m : SubSeq(s, 1, m)[k] = s[k]
  BY <1>2, ListsFirst
<1>4. Lists(SubSeq(s, 1, m), AroundIn(e, Len(d) + 1))
  BY <1>1, <1>3
<1>5. QED
  BY <1>3, <1>4, InOrderIs

StackAfter(s, m, d, l) ==
  IF OpensLine(l) THEN Append(SubSeq(s, 1, m), Len(d) + 1) ELSE SubSeq(s, 1, m)

LEMMA StackStep ==
  ASSUME NEW d, NEW l, NEW e, Adds(e, d, l),
         NEW s, Stacked(d, s), NEW m \in 0 .. Len(s), m = Len(s) - Ends(l)
  PROVE  Stacked(e, StackAfter(s, m, d, l))
<1>1. PICK n : n = Len(d) /\ n \in Nat /\ Len(e) = n + 1
  BY LineAdded
<1>2. PICK r, A : /\ r = SubSeq(s, 1, m) /\ A = AroundIn(e, n + 1)
                  /\ Lists(r, A) /\ Len(r) = m /\ r \in Seq(Nat)
                  /\ \A k \in 1 .. m : r[k] = s[k]
  <2>1. /\ Lists(SubSeq(s, 1, m), AroundIn(e, Len(d) + 1)) /\ Len(SubSeq(s, 1, m)) = m
        /\ \A k \in 1 .. m : SubSeq(s, 1, m)[k] = s[k]
    BY StackFirst
  <2>2. SubSeq(s, 1, m) \in Seq(Nat)
    BY <2>1, ListsParts
  <2>3. QED
    BY <1>1, <2>1, <2>2
<1>3. /\ DepthAt(d, n) = Len(s) /\ Len(s) \in Nat /\ m \in Nat
      /\ \A k \in 1 .. Len(s) : DepthAt(d, s[k]) = k /\ s[k] \in 1 .. n
  <2>1. Lists(s, OpenIn(d)) /\ OpenIn(d) \subseteq 1 .. n
    BY <1>1 DEF Stacked, OpenIn
  <2>2. QED
    BY <1>1, <2>1, ListsParts DEF Stacked
<1>4. /\ \A i \in 0 .. n : DepthAt(e, i) = DepthAt(d, i)
      /\ DepthAt(e, n + 1) = m + IF OpensLine(l) THEN 1 ELSE 0
  <2>1. /\ \A i \in 0 .. n : DepthAt(e, i) = DepthAt(d, i)
        /\ DepthAt(e, n + 1) = DepthAt(d, n) - Ends(l) + IF OpensLine(l) THEN 1 ELSE 0
    BY <1>1, DepthStep
  <2>2. QED
    BY <1>3, <2>1
<1>5. /\ A \subseteq 1 .. n
      /\ \A j : j \in OpenIn(e) <=> j \in A \/ (j = n + 1 /\ OpensLine(l))
  <2>1. (n + 1) - 1 = n /\ n + 1 \in 1 .. n + 1 /\ (n + 1) + 1 .. n + 1 = {}
    BY <1>1
  <2>2. \A j \in 1 .. n : j \in 1 .. n + 1
    BY <1>1
  <2>3. \A j \in 1 .. n + 1 : j \in 1 .. n \/ j = n + 1
    BY <1>1
  <2>4. OpensAt(e, n + 1) <=> OpensLine(l)
    BY <1>1, SameOpens
  <2>5. \A j \in 1 .. n : \A k \in j + 1 .. n + 1 :
          Depths(e)[k - 1] = DepthAt(e, k - 1) /\ Depths(e)[j] = DepthAt(e, j)
    <3>1. \A j \in 1 .. n : j \in 0 .. n + 1 /\ \A k \in j + 1 .. n + 1 : k - 1 \in 0 .. n + 1
      BY <1>1
    <3>2. QED
      BY <1>1, <3>1 DEF Depths
  <2>6. A = {j \in 1 .. n : /\ OpensAt(e, j)
                            /\ \A k \in j + 1 .. n + 1 : DepthAt(e, k - 1) - Ends(e[k]) >= DepthAt(e, j)}
    BY <1>2, <2>1, <2>5 DEF AroundIn
  <2>7. OpenIn(e) = {j \in 1 .. n + 1 : /\ OpensAt(e, j)
                            /\ \A k \in j + 1 .. n + 1 : DepthAt(e, k - 1) - Ends(e[k]) >= DepthAt(e, j)}
    BY <1>1 DEF OpenIn
  <2>8. QED
    BY <2>1, <2>2, <2>3, <2>4, <2>6, <2>7
<1>6. \A k \in 1 .. m : k \in 1 .. Len(s) /\ s[k] \in 0 .. n
  BY <1>3
<1>7. \A k \in 1 .. m : DepthAt(e, r[k]) = k
  BY <1>2, <1>3, <1>4, <1>6
<1>8. CASE ~OpensLine(l)
  <2>1. OpenIn(e) = A
    BY <1>5, <1>8
  <2>2. DepthAt(e, n + 1) = m
    BY <1>3, <1>4, <1>8
  <2>3. StackAfter(s, m, d, l) = r
    BY <1>2, <1>8 DEF StackAfter
  <2>4. Stacked(e, r)
    BY <1>1, <1>2, <1>7, <2>1, <2>2 DEF Stacked
  <2>5. QED
    BY <2>3, <2>4
<1>9. CASE OpensLine(l)
  <2>1. OpenIn(e) = A \cup {n + 1}
    BY <1>5, <1>9
  <2>2. DepthAt(e, n + 1) = m + 1
    BY <1>3, <1>4, <1>9
  <2>3. PICK t : t = Append(r, n + 1)
    OBVIOUS
  <2>4. Lists(t, A \cup {n + 1})
    <3>1. n + 1 \in Nat /\ \A j \in A : j < n + 1
      BY <1>1, <1>5
    <3>2. QED
      BY <1>2, <2>3, <3>1, ListsMore
  <2>5. Len(t) = m + 1 /\ t[m + 1] = n + 1 /\ \A k \in 1 .. m : t[k] = r[k]
    <3>1. r \in Seq(Nat) /\ n + 1 \in Nat
      BY <1>1, <1>2
    <3>2. QED
      BY <1>2, <2>3, <3>1, AppendProperties
  <2>6. \A k \in 1 .. m + 1 : DepthAt(e, t[k]) = k
    <3>1. \A k \in 1 .. m + 1 : k \in 1 .. m \/ k = m + 1
      BY <1>3
    <3>2. QED
      BY <1>7, <2>2, <2>5, <3>1
  <2>7. StackAfter(s, m, d, l) = t
    BY <1>1, <1>2, <1>9, <2>3 DEF StackAfter
  <2>8. Stacked(e, t)
    BY <1>1, <2>1, <2>2, <2>4, <2>5, <2>6 DEF Stacked
  <2>9. QED
    BY <2>7, <2>8
<1>10. QED
  BY <1>8, <1>9

---------------------------------------------------------------------------
(* What one more line changes in the meaning of the lines before it.       *)

LEMMA GreatestLine ==
  ASSUME NEW n \in Nat, NEW S \in SUBSET (1 .. n), S # {}
  PROVE  Max(S) \in S
<1>1. PICK s : Lists(s, S)
  BY LinesListed
<1>2. PICK m : m = Len(s) /\ m \in Nat
  BY <1>1, ListsParts
<1>3. PICK e \in S : \E i \in 1 .. m : s[i] = e
  BY <1>1, <1>2, ListsParts
<1>4. m \in 1 .. m
  BY <1>2, <1>3
<1>5. s[m] \in S /\ \A i \in 1 .. m : s[m] >= s[i]
  <2>1. s[m] \in S /\ s[m] \in Nat /\ \A i \in 1 .. m : s[i] \in Nat /\ s[i] <= s[m]
    <3>1. \A i \in 1 .. m : i <= m
      BY <1>2
    <3>2. QED
      BY <1>1, <1>2, <1>4, <3>1, ListsParts
  <2>2. QED
    BY <2>1
<1>6. \A y \in S : s[m] >= y
  <2>1. \A y \in S : \E i \in 1 .. m : s[i] = y
    BY <1>1, <1>2, ListsParts
  <2>2. QED
    BY <1>5, <2>1
<1>7. QED
  BY <1>5, <1>6 DEF Max

LEMMA LastLine ==
  ASSUME NEW n \in Nat, NEW S \in SUBSET (1 .. n)
  PROVE  Max(S \cup {n + 1}) = n + 1
<1>1. n + 1 \in S \cup {n + 1} /\ \A y \in S \cup {n + 1} : n + 1 >= y
  OBVIOUS
<1>2. \A x \in S \cup {n + 1} : (\A y \in S \cup {n + 1} : x >= y) => x = n + 1
  <2>1. \A x \in S : ~(x >= n + 1)
    OBVIOUS
  <2>2. QED
    BY <2>1
<1>3. QED
  BY <1>1, <1>2 DEF Max

LEMMA PathsStay ==
  ASSUME NEW d, NEW l, NEW e, Adds(e, d, l), NEW i \in PairsIn(d)
  PROVE  PathsIn(e)[i] = PathsIn(d)[i]
<1>1. PICK n : n = Len(d) /\ n \in Nat /\ Len(e) = n + 1
  BY LineAdded
<1>2. i \in 1 .. n /\ i \in PairsIn(e) /\ \A j \in 1 .. n : e[j] = d[j]
  BY <1>1, LineAdded, SamePairs
<1>3. PICK A : A = AroundIn(d, i) /\ A = AroundIn(e, i) /\ A \in SUBSET (1 .. n)
  BY <1>1, <1>2, AroundStays
<1>4. PICK s : s = InOrder(A)
  OBVIOUS
<1>5. Lists(s, A)
  BY <1>1, <1>3, <1>4, LinesListed
<1>6. \A k \in DOMAIN s : s[k] \in 1 .. n
  BY <1>3, <1>5, ListsParts
<1>7. ValsOf(e, s) = ValsOf(d, s)
  BY <1>2, <1>6 DEF ValsOf
<1>8. PathIn(e, i) = PathIn(d, i)
  BY <1>2, <1>3, <1>4, <1>7 DEF PathIn
<1>9. QED
  BY <1>2, <1>8 DEF PathsIn

LEMMA PathNew ==
  ASSUME NEW d, NEW l, NEW e, Adds(e, d, l), l.kind = "pair",
         NEW s, Stacked(d, s), NEW m \in 0 .. Len(s), m = Len(s) - Ends(l)
  PROVE  PathsIn(e)[Len(d) + 1] = ValsOf(d, SubSeq(s, 1, m)) \o l.sym
<1>1. PICK n : n = Len(d) /\ n \in Nat
  BY LineAdded
<1>2. n + 1 \in PairsIn(e) /\ e[n + 1] = l /\ \A j \in 1 .. n : e[j] = d[j]
  <2>1. /\ e[Len(d) + 1] = l /\ (Len(d) + 1 \in PairsIn(e) <=> l.kind = "pair")
        /\ \A j \in 1 .. Len(d) : e[j] = d[j]
    BY LineAdded, SamePairs
  <2>2. QED
    BY <1>1, <2>1
<1>3. PICK r : /\ r = SubSeq(s, 1, m) /\ r = InOrder(AroundIn(e, n + 1))
               /\ Len(r) = m /\ \A k \in 1 .. m : r[k] = s[k]
  BY <1>1, StackFirst
<1>4. DOMAIN r = 1 .. m
  <2>1. Lists(SubSeq(s, 1, m), AroundIn(e, Len(d) + 1)) /\ Len(SubSeq(s, 1, m)) = m
    BY StackFirst
  <2>2. DOMAIN SubSeq(s, 1, m) = 1 .. m
    BY <2>1, ListsParts
  <2>3. QED
    BY <1>3, <2>2
<1>5. \A k \in 1 .. m : s[k] \in 1 .. n
  <2>1. Lists(s, OpenIn(d)) /\ OpenIn(d) \subseteq 1 .. n
    BY <1>1 DEF Stacked, OpenIn
  <2>2. \A k \in 1 .. Len(s) : s[k] \in 1 .. n /\ Len(s) \in Nat
    BY <2>1, ListsParts
  <2>3. QED
    BY <2>2
<1>6. ValsOf(e, r) = ValsOf(d, r)
  BY <1>2, <1>3, <1>4, <1>5 DEF ValsOf
<1>7. PathIn(e, n + 1) = ValsOf(d, r) \o l.sym
  BY <1>2, <1>3, <1>6 DEF PathIn
<1>8. QED
  BY <1>1, <1>2, <1>3, <1>7 DEF PathsIn

\* The lines of a symbol.
TuplesOf(d, path) == {i \in TuplesIn(d) : PathsIn(d)[i] = path}

\* A line adds a value to a symbol.
Fills(e, d, l, path) == l.kind = "pair" /\ l.val # "" /\ PathsIn(e)[Len(d) + 1] = path

LEMMA TuplesStay ==
  ASSUME NEW d, NEW l, NEW e, Adds(e, d, l), NEW path
  PROVE  /\ TuplesOf(d, path) \in SUBSET (1 .. Len(d))
         /\ Fills(e, d, l, path) => TuplesOf(e, path) = TuplesOf(d, path) \cup {Len(d) + 1}
         /\ ~Fills(e, d, l, path) => TuplesOf(e, path) = TuplesOf(d, path)
<1>1. PICK n : n = Len(d) /\ n \in Nat
  BY LineAdded
<1>2. /\ TuplesIn(d) \subseteq PairsIn(d) /\ PairsIn(d) \subseteq 1 .. n
      /\ TuplesIn(e) \subseteq 1 .. n + 1
      /\ \A i \in 1 .. n : i \in TuplesIn(e) <=> i \in TuplesIn(d)
      /\ n + 1 \in TuplesIn(e) <=> l.kind = "pair" /\ l.val # ""
  <2>1. TuplesIn(d) \subseteq PairsIn(d) /\ TuplesIn(e) \subseteq PairsIn(e)
    BY DEF TuplesIn
  <2>2. QED
    BY <1>1, <2>1, SamePairs, SameTuples
<1>3. \A i \in TuplesIn(d) : PathsIn(e)[i] = PathsIn(d)[i]
  BY <1>2, PathsStay
<1>4. \A i \in 1 .. n + 1 : i \in 1 .. n \/ i = n + 1
  BY <1>1
<1>5. QED
  BY <1>1, <1>2, <1>3, <1>4 DEF TuplesOf, Fills

LEMMA LinesStep ==
  ASSUME NEW d, NEW l, NEW e, Adds(e, d, l), NEW path
  PROVE  /\ LinesIn(d, path) \in Seq(Nat)
         /\ \A k \in DOMAIN LinesIn(d, path) : LinesIn(d, path)[k] \in TuplesOf(d, path)
         /\ Fills(e, d, l, path) => LinesIn(e, path) = Append(LinesIn(d, path), Len(d) + 1)
         /\ ~Fills(e, d, l, path) => LinesIn(e, path) = LinesIn(d, path)
<1>1. PICK n : n = Len(d) /\ n \in Nat
  BY LineAdded
<1>2. PICK T : T = TuplesOf(d, path) /\ T \in SUBSET (1 .. n)
  BY <1>1, TuplesStay
<1>3. LinesIn(d, path) = InOrder(T) /\ LinesIn(e, path) = InOrder(TuplesOf(e, path))
  BY <1>2 DEF LinesIn, TuplesOf
<1>4. Lists(InOrder(T), T)
  BY <1>1, <1>2, LinesListed
<1>5. InOrder(T) \in Seq(Nat) /\ \A k \in DOMAIN InOrder(T) : InOrder(T)[k] \in T
  BY <1>4, ListsParts
<1>6. InOrder(T \cup {n + 1}) = Append(InOrder(T), n + 1)
  BY <1>1, <1>2, InOrderMore
<1>7. Fills(e, d, l, path) => LinesIn(e, path) = Append(LinesIn(d, path), n + 1)
  <2>1. Fills(e, d, l, path) => TuplesOf(e, path) = TuplesOf(d, path) \cup {Len(d) + 1}
    BY TuplesStay
  <2>2. Fills(e, d, l, path) => TuplesOf(e, path) = T \cup {n + 1}
    BY <1>1, <1>2, <2>1
  <2>3. QED
    BY <1>3, <1>6, <2>2
<1>8. ~Fills(e, d, l, path) => LinesIn(e, path) = LinesIn(d, path)
  BY <1>2, <1>3, TuplesStay
<1>9. QED
  BY <1>1, <1>2, <1>3, <1>5, <1>7, <1>8

\* A line replaces the k-th value of the symbol of line i.
Puts(d, l, i, k) == l.kind = "replace" /\ l.sym = PathsIn(d)[i] /\ l.ndx \in {NoNdx, k - 1}

LEMMA ReplacesStep ==
  ASSUME NEW d, NEW l, NEW e, Adds(e, d, l), NEW i \in PairsIn(d), NEW k
  PROVE  /\ ReplacesIn(d, i, k) \in SUBSET (1 .. Len(d))
         /\ Puts(d, l, i, k) => ReplacesIn(e, i, k) = ReplacesIn(d, i, k) \cup {Len(d) + 1}
         /\ ~Puts(d, l, i, k) => ReplacesIn(e, i, k) = ReplacesIn(d, i, k)
<1>1. PICK n : /\ n = Len(d) /\ n \in Nat /\ DOMAIN d = 1 .. n /\ DOMAIN e = 1 .. n + 1
               /\ e[n + 1] = l /\ \A j \in 1 .. n : e[j] = d[j]
  <2>1. /\ Len(d) \in Nat /\ DOMAIN d = 1 .. Len(d) /\ DOMAIN e = 1 .. Len(d) + 1
        /\ e[Len(d) + 1] = l /\ \A j \in 1 .. Len(d) : e[j] = d[j]
    BY LineAdded
  <2>2. QED
    BY <2>1
<1>2. PathsIn(e)[i] = PathsIn(d)[i]
  BY PathsStay
<1>3. i \in 1 .. n /\ n + 1 > i
  <2>1. i \in 1 .. n
    BY <1>1 DEF PairsIn
  <2>2. QED
    BY <1>1, <2>1
<1>4. \A r : r \in 1 .. n + 1 <=> r \in 1 .. n \/ r = n + 1
  BY <1>1
<1>5. n + 1 \notin 1 .. n
  BY <1>1
<1>6. \A r : r \in ReplacesIn(e, i, k)
                <=> r \in ReplacesIn(d, i, k) \/ (r = n + 1 /\ Puts(d, l, i, k))
  BY <1>1, <1>2, <1>3, <1>4, <1>5 DEF ReplacesIn, Puts
<1>7. ReplacesIn(d, i, k) \in SUBSET (1 .. n)
  BY <1>1 DEF ReplacesIn
<1>8. QED
  BY <1>1, <1>6, <1>7

LEMMA GivenStays ==
  ASSUME NEW d, NEW l, NEW e, Adds(e, d, l), NEW i \in PairsIn(d)
  PROVE  GivenIn(e, i) = GivenIn(d, i)
<1>1. PICK n : n = Len(d) /\ n \in Nat
  BY LineAdded
<1>2. i \in 1 .. n /\ \A j \in 1 .. n : e[j] = d[j] /\ (j \in TuplesIn(e) <=> j \in TuplesIn(d))
  <2>1. i \in 1 .. n
    BY <1>1, SamePairs
  <2>2. \A j \in 1 .. n : e[j] = d[j]
    BY <1>1, LineAdded
  <2>3. \A j \in 1 .. n : j \in TuplesIn(e) <=> j \in TuplesIn(d)
    BY <1>1, SameTuples
  <2>4. QED
    BY <2>1, <2>2, <2>3
<1>3. \A j \in 1 .. i : j \in 1 .. n
  BY <1>1, <1>2
<1>4. TuplesIn(e) \cap 1 .. i = TuplesIn(d) \cap 1 .. i
  BY <1>2, <1>3
<1>5. QED
  BY <1>2, <1>4 DEF GivenIn

\* What a line puts in the place of a value.
PutIn(d, l, i) == IF l.ndx = NoNdx THEN Wild ELSE [GivenIn(d, i) EXCEPT !.str = l.val]

LEMMA ValueStep ==
  ASSUME NEW d, NEW l, NEW e, Adds(e, d, l), NEW i \in PairsIn(d), NEW k
  PROVE  ValueIn(e, i, k) = IF Puts(d, l, i, k) THEN PutIn(d, l, i) ELSE ValueIn(d, i, k)
<1>1. PICK n : /\ n = Len(d) /\ n \in Nat /\ e[n + 1] = l /\ \A j \in 1 .. n : e[j] = d[j]
  <2>1. Len(d) \in Nat /\ e[Len(d) + 1] = l /\ \A j \in 1 .. Len(d) : e[j] = d[j]
    BY LineAdded
  <2>2. QED
    BY <2>1
<1>2. GivenIn(e, i) = GivenIn(d, i)
  BY GivenStays
<1>3. PICK R : R = ReplacesIn(d, i, k) /\ R \in SUBSET (1 .. n)
  BY <1>1, ReplacesStep
<1>4. CASE Puts(d, l, i, k)
  <2>1. ReplacesIn(e, i, k) = R \cup {n + 1}
    <3>1. Puts(d, l, i, k) => ReplacesIn(e, i, k) = ReplacesIn(d, i, k) \cup {Len(d) + 1}
      BY ReplacesStep
    <3>2. QED
      BY <1>1, <1>3, <1>4, <3>1
  <2>2. Max(ReplacesIn(e, i, k)) = n + 1 /\ ReplacesIn(e, i, k) # {}
    BY <1>1, <1>3, <2>1, LastLine
  <2>3. ValueIn(e, i, k) = PutIn(d, l, i)
    BY <1>1, <1>2, <2>2 DEF ValueIn, PutIn
  <2>4. QED
    BY <1>4, <2>3
<1>5. CASE ~Puts(d, l, i, k)
  <2>1. ReplacesIn(e, i, k) = R
    BY <1>3, <1>5, ReplacesStep
  <2>2. R # {} => Max(R) \in 1 .. n
    BY <1>1, <1>3, GreatestLine
  <2>3. ValueIn(e, i, k) = ValueIn(d, i, k)
    BY <1>1, <1>2, <1>3, <2>1, <2>2 DEF ValueIn
  <2>4. QED
    BY <1>5, <2>3
<1>6. QED
  BY <1>4, <1>5

---------------------------------------------------------------------------
(* What one more line changes in the values of a symbol.                   *)

LEMMA LinesAre ==
  ASSUME NEW d \in Seq(Lines), NEW path
  PROVE  /\ LinesIn(d, path) \in Seq(Nat) /\ Len(LinesIn(d, path)) \in Nat
         /\ DOMAIN LinesIn(d, path) = 1 .. Len(LinesIn(d, path))
         /\ \A k \in DOMAIN LinesIn(d, path) :
              /\ LinesIn(d, path)[k] \in TuplesIn(d) /\ LinesIn(d, path)[k] \in PairsIn(d)
              /\ PathsIn(d)[LinesIn(d, path)[k]] = path
         /\ DOMAIN ValuesIn(d, path) = 1 .. Len(LinesIn(d, path))
         /\ \A k \in 1 .. Len(LinesIn(d, path)) :
              ValuesIn(d, path)[k] = ValueIn(d, LinesIn(d, path)[k], k)
         /\ path \notin Range(PathsIn(d)) => LinesIn(d, path) = <<>> /\ ValuesIn(d, path) = <<>>
<1>1. PICK T : T = TuplesOf(d, path)
  OBVIOUS
<1>2. /\ Len(d) \in Nat /\ T \in SUBSET (1 .. Len(d))
      /\ \A i \in T : i \in TuplesIn(d) /\ i \in PairsIn(d) /\ PathsIn(d)[i] = path
      /\ \A i \in PairsIn(d) : PathsIn(d)[i] = path => path \in Range(PathsIn(d))
  <2>1. Len(d) \in Nat /\ DOMAIN d = 1 .. Len(d)
    BY LenProperties
  <2>2. \A i \in T : i \in TuplesIn(d) /\ i \in PairsIn(d) /\ i \in DOMAIN d /\ PathsIn(d)[i] = path
    BY <1>1 DEF TuplesOf, TuplesIn, PairsIn
  <2>3. DOMAIN PathsIn(d) = PairsIn(d)
    BY DEF PathsIn
  <2>4. \A i \in PairsIn(d) : PathsIn(d)[i] = path => path \in Range(PathsIn(d))
    BY <2>3 DEF Range
  <2>5. QED
    BY <2>1, <2>2, <2>4
<1>3. PICK s : s = InOrder(T)
  OBVIOUS
<1>4. LinesIn(d, path) = s
  BY <1>1, <1>3 DEF LinesIn, TuplesOf
<1>5. Lists(s, T)
  BY <1>2, <1>3, LinesListed
<1>6. /\ s \in Seq(Nat) /\ Len(s) \in Nat /\ DOMAIN s = 1 .. Len(s)
      /\ \A k \in 1 .. Len(s) : s[k] \in T
  BY <1>5, ListsParts
<1>7. ValuesIn(d, path) = [k \in 1 .. Len(s) |-> ValueIn(d, s[k], k)]
  BY <1>4, <1>6 DEF ValuesIn
<1>8. ASSUME path \notin Range(PathsIn(d)) PROVE s = <<>> /\ ValuesIn(d, path) = <<>>
  <2>1. \A k \in 1 .. Len(s) : FALSE
    BY <1>2, <1>6, <1>8
  <2>2. 1 .. Len(s) = {} /\ Len(s) = 0
    BY <1>6, <2>1
  <2>3. s = <<>>
    BY <1>6, <2>2, EmptySeq
  <2>4. DOMAIN ValuesIn(d, path) = {} /\ ValuesIn(d, path) = [k \in {} |-> ValueIn(d, s[k], k)]
    BY <1>7, <2>2
  <2>5. ValuesIn(d, path) = <<>>
    BY <2>4
  <2>6. QED
    BY <2>3, <2>5
<1>9. \A k \in DOMAIN s : s[k] \in TuplesIn(d) /\ s[k] \in PairsIn(d) /\ PathsIn(d)[s[k]] = path
  BY <1>2, <1>6
<1>10. DOMAIN ValuesIn(d, path) = 1 .. Len(s)
       /\ \A k \in 1 .. Len(s) : ValuesIn(d, path)[k] = ValueIn(d, s[k], k)
  BY <1>7
<1>11. QED
  BY <1>4, <1>6, <1>8, <1>9, <1>10

\* A line that is no replacement, and gives the symbol no value.
LEMMA ValuesStay ==
  ASSUME NEW d, NEW l, NEW e, Adds(e, d, l), NEW path, ~Fills(e, d, l, path),
         l.kind = "replace" => l.sym # path
  PROVE  ValuesIn(e, path) = ValuesIn(d, path)
<1>1. d \in Seq(Lines)
  BY DEF Adds
<1>2. /\ LinesIn(e, path) = LinesIn(d, path)
      /\ \A k \in DOMAIN LinesIn(d, path) :
           LinesIn(d, path)[k] \in PairsIn(d) /\ PathsIn(d)[LinesIn(d, path)[k]] = path
  BY <1>1, LinesAre, LinesStep
<1>3. PICK s : /\ s = LinesIn(d, path) /\ s = LinesIn(e, path)
               /\ \A k \in DOMAIN s : s[k] \in PairsIn(d) /\ PathsIn(d)[s[k]] = path
  BY <1>2
<1>4. \A k \in DOMAIN s : ~Puts(d, l, s[k], k)
  BY <1>3 DEF Puts
<1>5. \A k \in DOMAIN s : ValueIn(e, s[k], k) = ValueIn(d, s[k], k)
  BY <1>3, <1>4, ValueStep
<1>6. QED
  BY <1>3, <1>5 DEF ValuesIn

\* A replacement of values of the symbol.
LEMMA ValuesReplaced ==
  ASSUME NEW d, NEW l, NEW e, Adds(e, d, l), l.kind = "replace"
  PROVE  ValuesIn(e, l.sym)
           = [k \in DOMAIN ValuesIn(d, l.sym) |->
                IF l.ndx \in {NoNdx, k - 1} THEN PutIn(d, l, LinesIn(d, l.sym)[k])
                ELSE ValuesIn(d, l.sym)[k]]
<1>1. d \in Seq(Lines)
  BY DEF Adds
<1>2. PICK path : path = l.sym
  OBVIOUS
<1>3. ~Fills(e, d, l, path)
  BY DEF Fills
<1>4. /\ LinesIn(e, path) = LinesIn(d, path)
      /\ DOMAIN LinesIn(d, path) = DOMAIN ValuesIn(d, path)
      /\ \A k \in DOMAIN LinesIn(d, path) :
           /\ LinesIn(d, path)[k] \in PairsIn(d) /\ PathsIn(d)[LinesIn(d, path)[k]] = path
           /\ ValuesIn(d, path)[k] = ValueIn(d, LinesIn(d, path)[k], k)
  BY <1>1, <1>3, LinesAre, LinesStep
<1>5. PICK s : /\ s = LinesIn(d, path) /\ s = LinesIn(e, path)
               /\ DOMAIN s = DOMAIN ValuesIn(d, path)
               /\ \A k \in DOMAIN s : /\ s[k] \in PairsIn(d) /\ PathsIn(d)[s[k]] = path
                                      /\ ValuesIn(d, path)[k] = ValueIn(d, s[k], k)
  BY <1>4
<1>6. \A k \in DOMAIN s : Puts(d, l, s[k], k) <=> l.ndx \in {NoNdx, k - 1}
  BY <1>2, <1>5 DEF Puts
<1>7. \A k \in DOMAIN s : ValueIn(e, s[k], k) = IF Puts(d, l, s[k], k) THEN PutIn(d, l, s[k])
                                                ELSE ValueIn(d, s[k], k)
  BY <1>5, ValueStep
<1>8. ValuesIn(e, path) = [k \in DOMAIN s |-> ValueIn(e, s[k], k)]
  BY <1>5 DEF ValuesIn
<1>9. \A k \in DOMAIN s : ValueIn(e, s[k], k) = IF l.ndx \in {NoNdx, k - 1} THEN PutIn(d, l, s[k])
                                                ELSE ValuesIn(d, path)[k]
  BY <1>5, <1>6, <1>7
<1>10. QED
  BY <1>2, <1>5, <1>8, <1>9

LEMMA NoReplaces ==
  ASSUME NEW d, NEW l, NEW e, Adds(e, d, l), l.kind = "pair", NEW k
  PROVE  ValueIn(e, Len(d) + 1, k) = GivenIn(e, Len(d) + 1)
<1>1. /\ Len(d) \in Nat /\ DOMAIN e = 1 .. Len(d) + 1
      /\ e[Len(d) + 1] = l
  BY LineAdded
<1>2. \A r \in DOMAIN e : ~(r > Len(d) + 1)
  BY <1>1
<1>3. ReplacesIn(e, Len(d) + 1, k) = {}
  BY <1>2 DEF ReplacesIn
<1>4. QED
  BY <1>3 DEF ValueIn

\* The serial number of a value is how many there are with it.
LEMMA TuplesCounted ==
  ASSUME NEW d, NEW l, NEW e, Adds(e, d, l)
  PROVE  /\ Cardinality(TuplesIn(d)) \in Nat
         /\ Cardinality(TuplesIn(e))
              = Cardinality(TuplesIn(d)) + IF l.kind = "pair" /\ l.val # "" THEN 1 ELSE 0
         /\ TuplesIn(e) \cap 1 .. Len(d) + 1 = TuplesIn(e)
<1>1. PICK n : n = Len(d) /\ n \in Nat
  BY LineAdded
<1>2. /\ TuplesIn(d) \subseteq PairsIn(d) /\ PairsIn(d) \subseteq 1 .. n
      /\ TuplesIn(e) \subseteq PairsIn(e) /\ PairsIn(e) \subseteq 1 .. n + 1
      /\ \A i \in 1 .. n : i \in TuplesIn(e) <=> i \in TuplesIn(d)
      /\ n + 1 \in TuplesIn(e) <=> l.kind = "pair" /\ l.val # ""
  <2>1. TuplesIn(d) \subseteq PairsIn(d) /\ TuplesIn(e) \subseteq PairsIn(e)
    BY DEF TuplesIn
  <2>2. QED
    BY <1>1, <2>1, SamePairs, SameTuples
<1>3. TuplesIn(e) \in SUBSET (1 .. n + 1)
  BY <1>2
<1>4. TuplesIn(e) \cap 1 .. n = TuplesIn(d)
  BY <1>2
<1>5. /\ Cardinality(TuplesIn(e) \cap 1 .. n) \in Nat
      /\ Cardinality(TuplesIn(e)) = Cardinality(TuplesIn(e) \cap 1 .. n)
           + IF n + 1 \in TuplesIn(e) THEN 1 ELSE 0
  BY <1>1, <1>3, OneMore
<1>6. TuplesIn(e) \cap 1 .. n + 1 = TuplesIn(e)
  BY <1>3
<1>7. QED
  BY <1>1, <1>2, <1>4, <1>5, <1>6

\* A line that gives the symbol a value.
LEMMA ValuesMore ==
  ASSUME NEW d, NEW l, NEW e, Adds(e, d, l), NEW path, Fills(e, d, l, path)
  PROVE  ValuesIn(e, path) = Append(ValuesIn(d, path),
                               [str |-> l.val, serial_no |-> Cardinality(TuplesIn(d)) + 1])
<1>1. d \in Seq(Lines) /\ l.kind = "pair" /\ l.val # ""
  BY DEF Adds, Fills
<1>2. PICK n : n = Len(d) /\ n \in Nat /\ e[n + 1] = l
  <2>1. Len(d) \in Nat /\ e[Len(d) + 1] = l
    BY LineAdded
  <2>2. QED
    BY <2>1
<1>3. PICK s, m : /\ s = LinesIn(d, path) /\ s \in Seq(Nat) /\ m = Len(s) /\ m \in Nat
                  /\ \A k \in 1 .. m : s[k] \in PairsIn(d)
                  /\ DOMAIN ValuesIn(d, path) = 1 .. m
                  /\ \A k \in 1 .. m : ValuesIn(d, path)[k] = ValueIn(d, s[k], k)
  <2>1. LinesIn(d, path) \in Seq(Nat) /\ Len(LinesIn(d, path)) \in Nat
    BY <1>1, LinesAre
  <2>2. \A k \in 1 .. Len(LinesIn(d, path)) : LinesIn(d, path)[k] \in PairsIn(d)
    <3>1. \A k \in DOMAIN LinesIn(d, path) : LinesIn(d, path)[k] \in PairsIn(d)
      BY <1>1, LinesAre
    <3>2. DOMAIN LinesIn(d, path) = 1 .. Len(LinesIn(d, path))
      BY <1>1, LinesAre
    <3>3. QED
      BY <3>1, <3>2
  <2>3. /\ DOMAIN ValuesIn(d, path) = 1 .. Len(LinesIn(d, path))
        /\ \A k \in 1 .. Len(LinesIn(d, path)) :
              ValuesIn(d, path)[k] = ValueIn(d, LinesIn(d, path)[k], k)
    BY <1>1, LinesAre
  <2>4. QED
    BY <2>1, <2>2, <2>3
<1>4. PICK t : /\ t = LinesIn(e, path) /\ t \in Seq(Nat) /\ Len(t) = m + 1
               /\ t[m + 1] = n + 1 /\ \A k \in 1 .. m : t[k] = s[k]
  <2>1. LinesIn(e, path) = Append(s, n + 1)
    <3>1. LinesIn(e, path) = Append(LinesIn(d, path), Len(d) + 1)
      BY LinesStep
    <3>2. QED
      BY <1>2, <1>3, <3>1
  <2>2. /\ Append(s, n + 1) \in Seq(Nat) /\ Len(Append(s, n + 1)) = m + 1
        /\ Append(s, n + 1)[m + 1] = n + 1 /\ \A k \in 1 .. m : Append(s, n + 1)[k] = s[k]
    <3>1. n + 1 \in Nat
      BY <1>2
    <3>2. /\ Append(s, n + 1) \in Seq(Nat) /\ Len(Append(s, n + 1)) = Len(s) + 1
          /\ Append(s, n + 1)[Len(s) + 1] = n + 1
          /\ \A k \in 1 .. Len(s) : Append(s, n + 1)[k] = s[k]
      BY <1>3, <3>1, AppendProperties
    <3>3. QED
      BY <1>3, <3>2
  <2>3. QED
    BY <2>1, <2>2
<1>5. DOMAIN t = 1 .. m + 1
  BY <1>4, LenProperties
<1>6. PICK v : v = [str |-> l.val, serial_no |-> Cardinality(TuplesIn(d)) + 1]
  OBVIOUS
<1>7. ValueIn(e, n + 1, m + 1) = v
  <2>1. ValueIn(e, n + 1, m + 1) = GivenIn(e, n + 1)
    BY <1>1, <1>2, NoReplaces
  <2>2. /\ TuplesIn(e) \cap 1 .. n + 1 = TuplesIn(e)
        /\ Cardinality(TuplesIn(e)) = Cardinality(TuplesIn(d)) + 1
    BY <1>1, <1>2, TuplesCounted
  <2>3. QED
    BY <1>2, <1>6, <2>1, <2>2 DEF GivenIn
<1>8. \A k \in 1 .. m : ValueIn(e, t[k], k) = ValuesIn(d, path)[k]
  <2>1. \A k \in 1 .. m : ~Puts(d, l, s[k], k)
    BY <1>1 DEF Puts
  <2>2. \A k \in 1 .. m : ValueIn(e, s[k], k) = ValueIn(d, s[k], k)
    BY <1>3, <2>1, ValueStep
  <2>3. QED
    BY <1>3, <1>4, <2>2
<1>9. PICK u : /\ u = ValuesIn(d, path) /\ DOMAIN u = 1 .. m
               /\ \A k \in 1 .. m : ValueIn(e, t[k], k) = u[k]
  BY <1>3, <1>8
<1>10. ValuesIn(e, path) = [k \in 1 .. m + 1 |-> ValueIn(e, t[k], k)]
  BY <1>4, <1>5 DEF ValuesIn
<1>11. \A k \in 1 .. m + 1 : ValueIn(e, t[k], k) = IF k \in 1 .. m THEN u[k] ELSE v
  <2>1. \A k \in 1 .. m + 1 : k \in 1 .. m \/ (k = m + 1 /\ k \notin 1 .. m)
    BY <1>3
  <2>2. QED
    BY <1>4, <1>7, <1>9, <2>1
<1>12. ValuesIn(e, path) = [k \in 1 .. m + 1 |-> IF k \in 1 .. m THEN u[k] ELSE v]
  BY <1>10, <1>11
<1>13. Append(u, v) = [k \in 1 .. m + 1 |-> IF k \in 1 .. m THEN u[k] ELSE v]
  <2>1. PICK S : S = {u[k] : k \in 1 .. m} \cup {v}
    OBVIOUS
  <2>2. u = [k \in 1 .. m |-> u[k]]
    <3>1. ValuesIn(d, path) = [k \in DOMAIN LinesIn(d, path) |-> ValueIn(d, LinesIn(d, path)[k], k)]
      BY DEF ValuesIn
    <3>2. QED
      BY <1>9, <3>1
  <2>3. u \in [1 .. m -> S] /\ v \in S
    BY <2>1, <2>2
  <2>4. u \in Seq(S) /\ Len(u) = m
    <3>1. u \in Seq(S)
      BY <1>3, <2>3, SeqDef
    <3>2. QED
      BY <1>3, <1>9, <3>1, LenProperties
  <2>5. PICK w : /\ w = Append(u, v) /\ w \in Seq(S) /\ Len(w) = m + 1
                 /\ w[m + 1] = v /\ \A k \in 1 .. m : w[k] = u[k]
    <3>1. /\ Append(u, v) \in Seq(S) /\ Len(Append(u, v)) = Len(u) + 1
          /\ Append(u, v)[Len(u) + 1] = v /\ \A k \in 1 .. Len(u) : Append(u, v)[k] = u[k]
      BY <2>3, <2>4, AppendProperties
    <3>2. QED
      BY <2>4, <3>1
  <2>6. w \in [1 .. m + 1 -> S]
    BY <2>5, LenProperties
  <2>7. \A k \in 1 .. m + 1 : w[k] = IF k \in 1 .. m THEN u[k] ELSE v
    <3>1. \A k \in 1 .. m + 1 : k \in 1 .. m \/ (k = m + 1 /\ k \notin 1 .. m)
      BY <1>3
    <3>2. QED
      BY <2>5, <3>1
  <2>8. w = [k \in 1 .. m + 1 |-> w[k]]
    BY <2>6
  <2>9. QED
    BY <2>5, <2>7, <2>8
<1>14. QED
  BY <1>6, <1>9, <1>12, <1>13

---------------------------------------------------------------------------
(* What one more line changes in the meaning of the text.                  *)

LEMMA RangeStep ==
  ASSUME NEW d, NEW l, NEW e, Adds(e, d, l)
  PROVE  /\ l.kind # "pair" => Range(PathsIn(e)) = Range(PathsIn(d))
         /\ l.kind = "pair" =>
              Range(PathsIn(e)) = Range(PathsIn(d)) \cup {PathsIn(e)[Len(d) + 1]}
<1>1. PICK n : n = Len(d) /\ n \in Nat
  BY LineAdded
<1>2. /\ PairsIn(d) \subseteq 1 .. n /\ PairsIn(e) \subseteq 1 .. n + 1
      /\ \A i \in 1 .. n : i \in PairsIn(e) <=> i \in PairsIn(d)
      /\ n + 1 \in PairsIn(e) <=> l.kind = "pair"
  BY <1>1, SamePairs
<1>3. \A i \in PairsIn(d) : PathsIn(e)[i] = PathsIn(d)[i] /\ i \in PairsIn(e)
  BY <1>2, PathsStay
<1>4. \A i \in PairsIn(e) : i \in PairsIn(d) \/ (i = n + 1 /\ l.kind = "pair")
  BY <1>1, <1>2
<1>5. DOMAIN PathsIn(d) = PairsIn(d) /\ DOMAIN PathsIn(e) = PairsIn(e)
  BY DEF PathsIn
<1>6. QED
  BY <1>1, <1>2, <1>3, <1>4, <1>5 DEF Range

LEMMA MeaningFiled ==
  ASSUME NEW d, NEW l, NEW e, Adds(e, d, l), l.kind = "pair",
         NEW p, p = PathsIn(e)[Len(d) + 1]
  PROVE  /\ l.val = "" => MeaningOf(e) = Entry(MeaningOf(d), p)
         /\ l.val # "" => MeaningOf(e) = AppendValue(MeaningOf(d), p,
                            [str |-> l.val, serial_no |-> Cardinality(TuplesIn(d)) + 1])
<1>1. d \in Seq(Lines)
  BY DEF Adds
<1>2. PICK D, E : /\ D = Range(PathsIn(d)) /\ E = Range(PathsIn(e)) /\ E = D \cup {p}
                  /\ MeaningOf(d) = [path \in D |-> ValuesIn(d, path)]
                  /\ MeaningOf(e) = [path \in E |-> ValuesIn(e, path)]
  <2>1. Range(PathsIn(e)) = Range(PathsIn(d)) \cup {PathsIn(e)[Len(d) + 1]}
    BY RangeStep
  <2>2. QED
    BY <2>1 DEF MeaningOf
<1>3. \A path : path \notin D => ValuesIn(d, path) = <<>>
  BY <1>1, <1>2, LinesAre
<1>4. Entry(MeaningOf(d), p) = [path \in E |-> ValuesIn(d, path)]
  BY <1>2, <1>3 DEF Entry
<1>5. \A path : Fills(e, d, l, path) <=> l.val # "" /\ path = p
  BY DEF Fills
<1>6. \A path : ~Fills(e, d, l, path) => ValuesIn(e, path) = ValuesIn(d, path)
  BY ValuesStay
<1>7. CASE l.val = ""
  <2>1. \A path \in E : ValuesIn(e, path) = ValuesIn(d, path)
    BY <1>5, <1>6, <1>7
  <2>2. MeaningOf(e) = Entry(MeaningOf(d), p)
    BY <1>2, <1>4, <2>1
  <2>3. QED
    BY <1>7, <2>2
<1>8. CASE l.val # ""
  <2>1. PICK v : v = [str |-> l.val, serial_no |-> Cardinality(TuplesIn(d)) + 1]
    OBVIOUS
  <2>2. ValuesIn(e, p) = Append(ValuesIn(d, p), v)
    <3>1. Fills(e, d, l, p)
      BY <1>5, <1>8
    <3>2. ValuesIn(e, p) = Append(ValuesIn(d, p),
                             [str |-> l.val, serial_no |-> Cardinality(TuplesIn(d)) + 1])
      BY <3>1, ValuesMore
    <3>3. QED
      BY <2>1, <3>2
  <2>3. \A path \in E : ValuesIn(e, path) = IF path = p THEN Append(ValuesIn(d, path), v)
                                            ELSE ValuesIn(d, path)
    BY <1>5, <1>6, <2>2
  <2>4. AppendValue(MeaningOf(d), p, v)
          = [path \in E |-> IF path = p THEN Append(ValuesIn(d, path), v) ELSE ValuesIn(d, path)]
    BY <1>2, <1>4 DEF AppendValue
  <2>5. MeaningOf(e) = [path \in E |-> IF path = p THEN Append(ValuesIn(d, path), v)
                                     ELSE ValuesIn(d, path)]
    BY <1>2, <2>3
  <2>6. MeaningOf(e) = AppendValue(MeaningOf(d), p, v)
    BY <2>4, <2>5
  <2>7. QED
    BY <1>8, <2>1, <2>6
<1>9. QED
  BY <1>7, <1>8

LEMMA MeaningStays ==
  ASSUME NEW d, NEW l, NEW e, Adds(e, d, l), l.kind \notin {"pair", "replace"}
  PROVE  MeaningOf(e) = MeaningOf(d)
<1>1. Range(PathsIn(e)) = Range(PathsIn(d))
  BY RangeStep
<1>2. \A path : ~Fills(e, d, l, path)
  BY DEF Fills
<1>3. \A path : ValuesIn(e, path) = ValuesIn(d, path)
  BY <1>2, ValuesStay
<1>4. QED
  BY <1>1, <1>3 DEF MeaningOf

LEMMA MeaningReplaced ==
  ASSUME NEW d, NEW l, NEW e, Adds(e, d, l), l.kind = "replace", l.ndx \in Nat \cup {NoNdx},
         l.sym \in DOMAIN MeaningOf(d),
         IF l.ndx = NoNdx THEN Len(MeaningOf(d)[l.sym]) = 1
         ELSE l.ndx < Len(MeaningOf(d)[l.sym]) /\ MeaningOf(d)[l.sym][l.ndx + 1] # Wild
  PROVE  MeaningOf(e) = [MeaningOf(d) EXCEPT ![l.sym] =
                           IF l.ndx = NoNdx THEN <<Wild>>
                           ELSE [MeaningOf(d)[l.sym] EXCEPT ![l.ndx + 1].str = l.val]]
<1>1. d \in Seq(Lines)
  BY DEF Adds
<1>2. PICK D : /\ D = Range(PathsIn(d)) /\ MeaningOf(d) = [path \in D |-> ValuesIn(d, path)]
               /\ MeaningOf(e) = [path \in D |-> ValuesIn(e, path)]
  <2>1. Range(PathsIn(e)) = Range(PathsIn(d))
    BY RangeStep
  <2>2. QED
    BY <2>1 DEF MeaningOf
<1>3. \A path \in D : path # l.sym => ValuesIn(e, path) = ValuesIn(d, path)
  <2>1. \A path : ~Fills(e, d, l, path)
    BY DEF Fills
  <2>2. QED
    BY <2>1, ValuesStay
<1>4. PICK p, vals, m : p = l.sym /\ p \in D /\ vals = ValuesIn(d, p) /\ m = Len(LinesIn(d, p))
  BY <1>2
<1>5. /\ m \in Nat /\ DOMAIN vals = 1 .. m /\ vals = [k \in 1 .. m |-> vals[k]]
      /\ \A k \in 1 .. m : vals[k] = ValueIn(d, LinesIn(d, p)[k], k)
  <2>1. /\ Len(LinesIn(d, p)) \in Nat /\ DOMAIN ValuesIn(d, p) = 1 .. Len(LinesIn(d, p))
        /\ \A k \in 1 .. Len(LinesIn(d, p)) :
              ValuesIn(d, p)[k] = ValueIn(d, LinesIn(d, p)[k], k)
    BY <1>1, LinesAre
  <2>2. ValuesIn(d, p) = [k \in DOMAIN LinesIn(d, p) |-> ValueIn(d, LinesIn(d, p)[k], k)]
    BY DEF ValuesIn
  <2>3. vals = [k \in DOMAIN vals |-> vals[k]]
    BY <1>4, <2>2
  <2>4. QED
    BY <1>4, <2>1, <2>3
<1>6. Len(vals) = m
  <2>1. PICK S : S = {vals[k] : k \in 1 .. m}
    OBVIOUS
  <2>2. vals \in [1 .. m -> S]
    BY <1>5, <2>1
  <2>3. vals \in Seq(S)
    BY <1>5, <2>2, SeqDef
  <2>4. QED
    BY <1>5, <2>3, LenProperties
<1>7. MeaningOf(d)[l.sym] = vals
  BY <1>2, <1>4
<1>8. ValuesIn(e, p) = [k \in 1 .. m |->
                          IF l.ndx \in {NoNdx, k - 1} THEN PutIn(d, l, LinesIn(d, p)[k]) ELSE vals[k]]
  <2>1. ValuesIn(e, l.sym)
           = [k \in DOMAIN ValuesIn(d, l.sym) |->
                IF l.ndx \in {NoNdx, k - 1} THEN PutIn(d, l, LinesIn(d, l.sym)[k])
                ELSE ValuesIn(d, l.sym)[k]]
    BY ValuesReplaced
  <2>2. QED
    BY <1>4, <1>5, <2>1
<1>9. CASE l.ndx = NoNdx
  <2>1. m = 1
    BY <1>6, <1>7, <1>9
  <2>2. ValuesIn(e, p) = [k \in 1 .. 1 |-> Wild]
    BY <1>8, <1>9, <2>1 DEF PutIn
  <2>3. ValuesIn(e, p) = <<Wild>>
    BY <2>2
  <2>4. MeaningOf(e) = [MeaningOf(d) EXCEPT ![p] = <<Wild>>]
    BY <1>2, <1>3, <1>4, <2>3
  <2>5. QED
    BY <1>4, <1>9, <2>4
<1>10. CASE l.ndx # NoNdx
  <2>1. PICK j : j = l.ndx + 1 /\ j \in 1 .. m /\ vals[j] # Wild /\ l.ndx = j - 1
    BY <1>5, <1>6, <1>7, <1>10
  <2>2. PICK g : g = GivenIn(d, LinesIn(d, p)[j])
    OBVIOUS
  <2>3. vals[j] = g \/ \E w : vals[j] = [g EXCEPT !.str = w]
    <3>1. vals[j] = ValueIn(d, LinesIn(d, p)[j], j)
      BY <1>5, <2>1
    <3>2. QED
      BY <2>1, <2>2, <3>1 DEF ValueIn
  <2>4. [vals[j] EXCEPT !.str = l.val] = [g EXCEPT !.str = l.val]
    BY <2>2, <2>3 DEF GivenIn
  <2>5. \A k \in 1 .. m : l.ndx \in {NoNdx, k - 1} <=> k = j
    BY <1>5, <1>10, <2>1
  <2>6. PutIn(d, l, LinesIn(d, p)[j]) = [vals[j] EXCEPT !.str = l.val]
    BY <1>10, <2>2, <2>4 DEF PutIn
  <2>7. ValuesIn(e, p)
          = [k \in 1 .. m |-> IF k = j THEN [vals[j] EXCEPT !.str = l.val] ELSE vals[k]]
    BY <1>8, <2>5, <2>6
  <2>8. ValuesIn(e, p) = [vals EXCEPT ![j].str = l.val]
    BY <1>5, <2>1, <2>7
  <2>9. MeaningOf(e) = [MeaningOf(d) EXCEPT ![p] = [vals EXCEPT ![j].str = l.val]]
    BY <1>2, <1>3, <1>4, <2>8
  <2>10. QED
    BY <1>4, <1>7, <1>10, <2>1, <2>9
<1>11. QED
  BY <1>9, <1>10

---------------------------------------------------------------------------
(* The map holds the meaning of the lines read so far.                     *)

\* The open lines, and their blocks; what is left of them when a line closes some.
StackedAs(d, s, blocks) == Stacked(d, s) /\ blocks = ValsOf(d, s)
LeftOf(blocks, l) == SubSeq(blocks, 1, Len(blocks) - Ends(l))

\* The values in the map, the last serial number and the blocks that are open.
Means(m, no, blocks, d) ==
  /\ d \in Seq(Lines) /\ m = MeaningOf(d) /\ no = Cardinality(TuplesIn(d))
  /\ \E s : StackedAs(d, s, blocks)
TextMeans == Means(entry_map, serial_no_seq, curlyBlock_lst, doc)

\* Until the run fails or has done with the map.
TextInv == pc \in {"options", "parse", "configure"} => TextMeans
FiledInv == StartInv /\ TextInv

LEMMA NoText == Means(<<>>, 0, <<>>, <<>>)
<1> DEFINE d == <<>>
<1>1. d \in Seq(Lines) /\ DOMAIN d = {} /\ Len(d) = 0
  OBVIOUS
<1> HIDE DEF d
<1>2. PairsIn(d) = {} /\ TuplesIn(d) = {}
  BY <1>1 DEF PairsIn, TuplesIn
<1>3. DOMAIN PathsIn(d) = {}
  BY <1>2 DEF PathsIn
<1>4. Range(PathsIn(d)) = {}
  BY <1>3 DEF Range
<1>5. MeaningOf(d) = <<>>
  BY <1>4 DEF MeaningOf
<1>6. Cardinality(TuplesIn(d)) = 0
  BY <1>2, FS_EmptySet
<1>7. Stacked(d, <<>>)
  <2>1. OpenIn(d) = {}
    BY <1>1 DEF OpenIn
  <2>2. DepthAt(d, 0) = 0
    <3>1. /\ {j \in 1 .. 0 : OpensAt(d, j)} = {} /\ {j \in 1 .. 0 : Ends(d[j]) > 0} = {}
          /\ {j \in 1 .. 0 : Ends(d[j]) = 2} = {} /\ Cardinality({}) = 0
      BY FS_EmptySet
    <3>2. QED
      BY <3>1 DEF DepthAt
  <2>3. Len(<<>>) = 0 /\ 1 .. 0 = {}
    OBVIOUS
  <2>4. QED
    BY <1>1, <2>1, <2>2, <2>3, ListsNone DEF Stacked
<1>8. ValsOf(d, <<>>) = <<>>
  BY DEF ValsOf
<1>9. QED
  BY <1>1, <1>5, <1>6, <1>7, <1>8 DEF Means, StackedAs, d

\* What is left of the blocks when some have been closed, and when one is opened.
LEMMA BlocksStep ==
  ASSUME NEW d, NEW l, NEW e, Adds(e, d, l), NEW s, NEW blocks, StackedAs(d, s, blocks),
         Ends(l) <= Len(blocks)
  PROVE  \E m \in 0 .. Len(s) :
           /\ m = Len(s) - Ends(l)
           /\ ValsOf(d, SubSeq(s, 1, m)) = LeftOf(blocks, l)
           /\ ValsOf(e, StackAfter(s, m, d, l))
                = IF OpensLine(l) THEN Append(LeftOf(blocks, l), l.val) ELSE LeftOf(blocks, l)
<1>1. PICK n : n = Len(d) /\ n \in Nat /\ e[n + 1] = l /\ \A j \in 1 .. n : e[j] = d[j]
  <2>1. Len(d) \in Nat /\ e[Len(d) + 1] = l /\ \A j \in 1 .. Len(d) : e[j] = d[j]
    BY LineAdded
  <2>2. QED
    BY <2>1
<1>2. Lists(s, OpenIn(d)) /\ OpenIn(d) \subseteq 1 .. n
  BY <1>1 DEF StackedAs, Stacked, OpenIn
<1>3. PICK q : q = Len(s) /\ q \in Nat /\ DOMAIN s = 1 .. q /\ \A k \in 1 .. q : s[k] \in 1 .. n
  <2>1. Len(s) \in Nat /\ DOMAIN s = 1 .. Len(s) /\ \A k \in 1 .. Len(s) : s[k] \in OpenIn(d)
    BY <1>2, ListsParts
  <2>2. QED
    BY <1>2, <2>1
<1>4. PICK S : S = {d[j].val : j \in 1 .. n} \cup {l.val}
  OBVIOUS
<1>5. blocks = [k \in 1 .. q |-> d[s[k]].val] /\ blocks \in Seq(S) /\ Len(blocks) = q
  <2>1. blocks = [k \in 1 .. q |-> d[s[k]].val]
    BY <1>3 DEF StackedAs, ValsOf
  <2>2. blocks \in [1 .. q -> S]
    BY <1>3, <1>4, <2>1
  <2>3. blocks \in Seq(S)
    BY <1>3, <2>2, SeqDef
  <2>4. QED
    BY <1>3, <2>1, <2>2, <2>3, LenProperties
<1>6. PICK m \in 0 .. q : m = q - Ends(l)
  <2>1. Ends(l) \in {0, 1, 2} /\ Ends(l) <= q
    BY <1>5, EndsIs
  <2>2. q - Ends(l) \in 0 .. q
    BY <1>3, <2>1
  <2>3. QED
    BY <2>2
<1>7. PICK r : /\ r = SubSeq(s, 1, m) /\ DOMAIN r = 1 .. m /\ Len(r) = m /\ r \in Seq(Nat)
               /\ \A k \in 1 .. m : r[k] = s[k]
  <2>1. m \in 0 .. Len(s)
    BY <1>3, <1>6
  <2>2. /\ Lists(SubSeq(s, 1, m), {s[k] : k \in 1 .. m}) /\ Len(SubSeq(s, 1, m)) = m
        /\ \A k \in 1 .. m : SubSeq(s, 1, m)[k] = s[k]
    BY <1>2, <2>1, ListsFirst
  <2>3. DOMAIN SubSeq(s, 1, m) = 1 .. m /\ SubSeq(s, 1, m) \in Seq(Nat)
    BY <2>2, ListsParts
  <2>4. QED
    BY <2>2, <2>3
<1>8. PICK b : /\ b = SubSeq(blocks, 1, m) /\ b \in Seq(S) /\ Len(b) = m /\ DOMAIN b = 1 .. m
               /\ \A k \in 1 .. m : b[k] = blocks[k]
  <2>1. \A k \in 1 .. m : k \in 1 .. q /\ blocks[k] \in S
    BY <1>3, <1>5, <1>6, ElementOfSeq
  <2>2. SubSeq(blocks, 1, m) \in Seq(S) /\ Len(SubSeq(blocks, 1, m)) = m
        /\ \A k \in 1 .. m : SubSeq(blocks, 1, m)[k] = blocks[k]
    BY <1>3, <1>5, <1>6, <2>1, SubSeqProperties
  <2>3. QED
    BY <2>2, LenProperties
<1>9. \A k \in 1 .. m : b[k] = d[s[k]].val /\ e[s[k]] = d[s[k]]
  <2>1. \A k \in 1 .. m : k \in 1 .. q
    BY <1>3, <1>6
  <2>2. QED
    BY <1>1, <1>3, <1>5, <1>8, <2>1
<1>10. b = [k \in 1 .. m |-> b[k]]
  BY <1>8, LenProperties
<1>11. ValsOf(d, r) = b /\ ValsOf(e, r) = b
  <2>1. \A k \in 1 .. m : d[r[k]].val = b[k] /\ e[r[k]].val = b[k]
    BY <1>7, <1>9
  <2>2. DOMAIN r = 1 .. m
    BY <1>7
  <2>3. ValsOf(d, r) = [k \in 1 .. m |-> b[k]] /\ ValsOf(e, r) = [k \in 1 .. m |-> b[k]]
    BY <2>1, <2>2 DEF ValsOf
  <2>4. QED
    BY <1>10, <2>3
<1>12. ValsOf(e, StackAfter(s, m, d, l)) = IF OpensLine(l) THEN Append(b, l.val) ELSE b
  <2>1. CASE ~OpensLine(l)
    BY <1>7, <1>11, <2>1 DEF StackAfter
  <2>2. CASE OpensLine(l)
    <3>1. PICK t : /\ t = Append(r, n + 1) /\ DOMAIN t = 1 .. m + 1
                   /\ t[m + 1] = n + 1 /\ \A k \in 1 .. m : t[k] = r[k]
      <4>1. n + 1 \in Nat
        BY <1>1
      <4>2. /\ Append(r, n + 1) \in Seq(Nat) /\ Len(Append(r, n + 1)) = Len(r) + 1
            /\ Append(r, n + 1)[Len(r) + 1] = n + 1
            /\ \A k \in 1 .. Len(r) : Append(r, n + 1)[k] = r[k]
        BY <1>7, <4>1, AppendProperties
      <4>3. DOMAIN Append(r, n + 1) = 1 .. Len(r) + 1
        BY <4>2, LenProperties
      <4>4. QED
        BY <1>7, <4>2, <4>3
    <3>2. PICK c : /\ c = Append(b, l.val) /\ c = [k \in 1 .. m + 1 |-> c[k]]
                   /\ c[m + 1] = l.val /\ \A k \in 1 .. m : c[k] = b[k]
      <4>1. l.val \in S
        BY <1>4
      <4>2. /\ Append(b, l.val) \in Seq(S) /\ Len(Append(b, l.val)) = Len(b) + 1
            /\ Append(b, l.val)[Len(b) + 1] = l.val
            /\ \A k \in 1 .. Len(b) : Append(b, l.val)[k] = b[k]
        BY <1>8, <4>1, AppendProperties
      <4>3. Append(b, l.val) = [k \in 1 .. Len(b) + 1 |-> Append(b, l.val)[k]]
        BY <4>2, LenProperties
      <4>4. Len(b) = m
        BY <1>8
      <4>5. PICK c : c = Append(b, l.val)
        OBVIOUS
      <4>6. c = [k \in 1 .. m + 1 |-> c[k]] /\ c[m + 1] = l.val /\ \A k \in 1 .. m : c[k] = b[k]
        BY <4>2, <4>3, <4>4, <4>5
      <4>7. QED
        BY <4>5, <4>6
    <3>3. \A k \in 1 .. m + 1 : k \in 1 .. m \/ k = m + 1
      BY <1>6
    <3>4. \A k \in 1 .. m + 1 : e[t[k]].val = c[k]
      <4>1. ASSUME NEW k \in 1 .. m PROVE e[t[k]].val = c[k]
        <5>1. t[k] = s[k] /\ c[k] = b[k]
          BY <1>7, <3>1, <3>2
        <5>2. QED
          BY <1>9, <5>1
      <4>2. e[t[m + 1]].val = c[m + 1]
        BY <1>1, <3>1, <3>2
      <4>3. QED
        BY <3>3, <4>1, <4>2
    <3>5. ValsOf(e, t) = [k \in 1 .. m + 1 |-> c[k]]
      BY <3>1, <3>4 DEF ValsOf
    <3>6. StackAfter(s, m, d, l) = t
      BY <1>1, <1>7, <2>2, <3>1 DEF StackAfter
    <3>7. QED
      BY <2>2, <3>2, <3>5, <3>6
  <2>3. QED
    BY <2>1, <2>2
<1>13. QED
  <2>1. LeftOf(blocks, l) = b
    BY <1>5, <1>6, <1>8 DEF LeftOf
  <2>2. QED
    BY <1>3, <1>6, <1>7, <1>11, <1>12, <2>1

AfterLine(blocks, l) ==
  IF OpensLine(l) THEN Append(LeftOf(blocks, l), l.val) ELSE LeftOf(blocks, l)

LEMMA OpenStep ==
  ASSUME NEW d, NEW l, NEW e, Adds(e, d, l), NEW s, NEW blocks, StackedAs(d, s, blocks),
         Ends(l) <= Len(blocks)
  PROVE  /\ l.kind = "pair" => PathsIn(e)[Len(d) + 1] = LeftOf(blocks, l) \o l.sym
         /\ \E t : StackedAs(e, t, AfterLine(blocks, l))
<1> DEFINE b == LeftOf(blocks, l)
           new == IF OpensLine(l) THEN Append(b, l.val) ELSE b
<1>1. PICK m \in 0 .. Len(s) : /\ m = Len(s) - Ends(l) /\ ValsOf(d, SubSeq(s, 1, m)) = b
                              /\ ValsOf(e, StackAfter(s, m, d, l)) = new
  BY BlocksStep
<1>2. Stacked(d, s)
  BY DEF StackedAs
<1> HIDE DEF b, new
<1>3. Stacked(e, StackAfter(s, m, d, l))
  BY <1>1, <1>2, StackStep
<1>4. ASSUME l.kind = "pair" PROVE PathsIn(e)[Len(d) + 1] = b \o l.sym
  <2>1. PathsIn(e)[Len(d) + 1] = ValsOf(d, SubSeq(s, 1, m)) \o l.sym
    BY <1>1, <1>2, <1>4, PathNew
  <2>2. QED
    BY <1>1, <2>1
<1>5. StackedAs(e, StackAfter(s, m, d, l), new)
  BY <1>1, <1>3 DEF StackedAs
<1>6. QED
  BY <1>4, <1>5 DEF b, new, AfterLine

\* A pair is filed under the blocks it does not close.
LEMMA PairMeans ==
  ASSUME NEW m, NEW no, NEW blocks, NEW d, Means(m, no, blocks, d),
         NEW l, NEW e, Adds(e, d, l), l.kind = "pair", Ends(l) <= Len(blocks)
  PROVE  /\ l.val = "" =>
              Means(Entry(m, LeftOf(blocks, l) \o l.sym), no, AfterLine(blocks, l), e)
         /\ l.val # "" =>
              Means(AppendValue(m, LeftOf(blocks, l) \o l.sym,
                                [str |-> l.val, serial_no |-> no + 1]),
                    no + 1, AfterLine(blocks, l), e)
<1>1. m = MeaningOf(d) /\ no = Cardinality(TuplesIn(d))
  BY DEF Means
<1>2. PICK s : StackedAs(d, s, blocks)
  BY DEF Means
<1>3. e \in Seq(Lines)
  BY LineAdded
<1>4. /\ PathsIn(e)[Len(d) + 1] = LeftOf(blocks, l) \o l.sym
      /\ \E t : StackedAs(e, t, AfterLine(blocks, l))
  BY <1>2, OpenStep
<1>5. /\ Cardinality(TuplesIn(d)) \in Nat
      /\ l.val = "" => Cardinality(TuplesIn(e)) = Cardinality(TuplesIn(d))
      /\ l.val # "" => Cardinality(TuplesIn(e)) = Cardinality(TuplesIn(d)) + 1
  <2>1. /\ Cardinality(TuplesIn(d)) \in Nat
        /\ Cardinality(TuplesIn(e))
             = Cardinality(TuplesIn(d)) + IF l.kind = "pair" /\ l.val # "" THEN 1 ELSE 0
    BY TuplesCounted
  <2>2. PICK c \in Nat : c = Cardinality(TuplesIn(d))
    BY <2>1
  <2>3. PICK a : a = (IF l.kind = "pair" /\ l.val # "" THEN 1 ELSE 0)
    OBVIOUS
  <2>4. Cardinality(TuplesIn(e)) = c + a
    BY <2>1, <2>2, <2>3
  <2>5. ASSUME l.val = "" PROVE Cardinality(TuplesIn(e)) = c
    <3>1. a = 0
      BY <2>3, <2>5
    <3>2. QED
      BY <2>2, <2>4, <3>1
  <2>6. ASSUME l.val # "" PROVE Cardinality(TuplesIn(e)) = c + 1
    <3>1. a = 1
      BY <2>3, <2>6
    <3>2. QED
      BY <2>4, <3>1
  <2>7. QED
    BY <2>1, <2>2, <2>5, <2>6
<1>6. PICK p : p = PathsIn(e)[Len(d) + 1] /\ p = LeftOf(blocks, l) \o l.sym
  BY <1>4
<1>7. /\ l.val = "" => MeaningOf(e) = Entry(MeaningOf(d), p)
      /\ l.val # "" => MeaningOf(e) = AppendValue(MeaningOf(d), p,
                            [str |-> l.val, serial_no |-> Cardinality(TuplesIn(d)) + 1])
  BY <1>6, MeaningFiled
<1>8. ASSUME l.val = ""
       PROVE  Means(Entry(m, LeftOf(blocks, l) \o l.sym), no, AfterLine(blocks, l), e)
  <2>1. Entry(m, LeftOf(blocks, l) \o l.sym) = MeaningOf(e)
    BY <1>1, <1>6, <1>7, <1>8
  <2>2. no = Cardinality(TuplesIn(e))
    <3>1. Cardinality(TuplesIn(e)) = Cardinality(TuplesIn(d))
      BY <1>5, <1>8
    <3>2. QED
      BY <1>1, <3>1
  <2>3. QED
    BY <1>3, <1>4, <2>1, <2>2 DEF Means
<1>9. ASSUME l.val # ""
       PROVE  Means(AppendValue(m, LeftOf(blocks, l) \o l.sym,
                                [str |-> l.val, serial_no |-> no + 1]),
                    no + 1, AfterLine(blocks, l), e)
  <2>1. AppendValue(m, LeftOf(blocks, l) \o l.sym, [str |-> l.val, serial_no |-> no + 1])
          = MeaningOf(e)
    BY <1>1, <1>6, <1>7, <1>9
  <2>2. no + 1 = Cardinality(TuplesIn(e))
    BY <1>1, <1>5, <1>9
  <2>3. QED
    BY <1>3, <1>4, <2>1, <2>2 DEF Means
<1>10. QED
  BY <1>8, <1>9

\* Any other line adds no value.
LEMMA OtherMeans ==
  ASSUME NEW m, NEW no, NEW blocks, NEW d, Means(m, no, blocks, d),
         NEW l, NEW e, Adds(e, d, l), l.kind # "pair", Ends(l) <= Len(blocks)
  PROVE  Means(MeaningOf(e), no, LeftOf(blocks, l), e)
<1>1. no = Cardinality(TuplesIn(d))
  BY DEF Means
<1>2. PICK s : StackedAs(d, s, blocks)
  BY DEF Means
<1>3. e \in Seq(Lines)
  BY LineAdded
<1>4. \E t : StackedAs(e, t, AfterLine(blocks, l))
  BY <1>2, OpenStep
<1>5. \E t : StackedAs(e, t, LeftOf(blocks, l))
  BY <1>4 DEF AfterLine, OpensLine
<1>6. no = Cardinality(TuplesIn(e))
  <2>1. /\ Cardinality(TuplesIn(e))
           = Cardinality(TuplesIn(d)) + IF l.kind = "pair" /\ l.val # "" THEN 1 ELSE 0
        /\ Cardinality(TuplesIn(d)) \in Nat
    BY TuplesCounted
  <2>2. QED
    BY <1>1, <2>1
<1>7. QED
  BY <1>3, <1>5, <1>6 DEF Means

LEMMA PairReads ==
  ASSUME TextMeans, NEW l \in Lines, NEW rest, Pair(l, rest, TRUE)
  PROVE  TextMeans'
<1> DEFINE p == LeftOf(curlyBlock_lst, l) \o l.sym
           new == AfterLine(curlyBlock_lst, l)
<1>1. Adds(doc', doc, l) /\ l.kind = "pair" /\ Ends(l) <= Len(curlyBlock_lst)
  BY DEF Pair, Recorded, Adds, TextMeans, Means
<1>2. Closed(Ends(l)) = LeftOf(curlyBlock_lst, l)
  BY DEF Closed, LeftOf
<1>3. Means(entry_map, serial_no_seq, curlyBlock_lst, doc)
  BY DEF TextMeans
<1>4. /\ l.val = "" => Means(Entry(entry_map, p), serial_no_seq, new, doc')
      /\ l.val # "" =>
           Means(AppendValue(entry_map, p, [str |-> l.val, serial_no |-> serial_no_seq + 1]),
                 serial_no_seq + 1, new, doc')
  BY <1>1, <1>3, PairMeans
<1>5. curlyBlock_lst' = new
  BY <1>1, <1>2 DEF Pair, AfterLine, OpensLine
<1>6. p = Closed(Ends(l)) \o l.sym
  BY <1>2
<1> HIDE DEF p, new
<1>7. CASE l.val = ""
  <2>1. entry_map' = Entry(entry_map, p) /\ serial_no_seq' = serial_no_seq
    BY <1>6, <1>7 DEF Pair
  <2>2. QED
    BY <1>4, <1>5, <1>7, <2>1 DEF TextMeans
<1>8. CASE l.val # ""
  <2>1. serial_no_seq' = serial_no_seq + 1
    BY <1>8 DEF Pair
  <2>2. entry_map' = AppendValue(entry_map, p, [str |-> l.val, serial_no |-> serial_no_seq'])
    BY <1>6, <1>8 DEF Pair
  <2>3. QED
    BY <1>4, <1>5, <1>8, <2>1, <2>2 DEF TextMeans
<1>9. QED
  BY <1>7, <1>8

LEMMA ReplaceReads ==
  ASSUME TextMeans, NEW l \in Lines, NEW rest, Replace(l, rest, TRUE)
  PROVE  TextMeans'
<1>1. /\ Adds(doc', doc, l) /\ l.kind = "replace" /\ Ends(l) <= Len(curlyBlock_lst)
      /\ curlyBlock_lst' = Closed(Ends(l)) /\ serial_no_seq' = serial_no_seq
  BY DEF Replace, Recorded, Adds, TextMeans, Means
<1>2. l.ndx \in Nat \cup {NoNdx}
  BY DEF Lines
<1>3. /\ l.sym \in DOMAIN entry_map
      /\ IF l.ndx = NoNdx THEN Len(entry_map[l.sym]) = 1
         ELSE l.ndx < Len(entry_map[l.sym]) /\ entry_map[l.sym][l.ndx + 1] # Wild
      /\ entry_map' = [entry_map EXCEPT ![l.sym] =
                         IF l.ndx = NoNdx THEN <<Wild>>
                         ELSE [entry_map[l.sym] EXCEPT ![l.ndx + 1].str = l.val]]
  BY DEF Replace
<1>4. entry_map = MeaningOf(doc)
  BY DEF TextMeans, Means
<1>5. /\ l.sym \in DOMAIN MeaningOf(doc)
      /\ IF l.ndx = NoNdx THEN Len(MeaningOf(doc)[l.sym]) = 1
         ELSE l.ndx < Len(MeaningOf(doc)[l.sym]) /\ MeaningOf(doc)[l.sym][l.ndx + 1] # Wild
  BY <1>3, <1>4
<1>6. MeaningOf(doc') = [MeaningOf(doc) EXCEPT ![l.sym] =
                           IF l.ndx = NoNdx THEN <<Wild>>
                           ELSE [MeaningOf(doc)[l.sym] EXCEPT ![l.ndx + 1].str = l.val]]
  BY <1>1, <1>2, <1>5, MeaningReplaced
<1>7. entry_map' = MeaningOf(doc')
  BY <1>3, <1>4, <1>6
<1>8. Closed(Ends(l)) = LeftOf(curlyBlock_lst, l)
  BY DEF Closed, LeftOf
<1>9. Means(MeaningOf(doc'), serial_no_seq, Closed(Ends(l)), doc')
  BY <1>1, <1>8, OtherMeans DEF TextMeans
<1>10. QED
  BY <1>1, <1>7, <1>9 DEF TextMeans

\* Of a line that opens a file, too, the } at its end is all there is to the blocks.
LEMMA CloseReads ==
  ASSUME TextMeans, NEW l \in Lines, NEW rest, Close(l, rest, TRUE) \/ Include(l, rest, TRUE)
  PROVE  TextMeans'
<1>1. /\ Adds(doc', doc, l) /\ l.kind \in {"close", "include"} /\ Ends(l) <= Len(curlyBlock_lst)
      /\ curlyBlock_lst' = Closed(Ends(l)) /\ UNCHANGED <<entry_map, serial_no_seq>>
  BY DEF Close, Include, Recorded, Adds, TextMeans, Means
<1>2. MeaningOf(doc') = MeaningOf(doc)
  BY <1>1, MeaningStays
<1>3. Closed(Ends(l)) = LeftOf(curlyBlock_lst, l)
  BY DEF Closed, LeftOf
<1>4. Means(MeaningOf(doc'), serial_no_seq, Closed(Ends(l)), doc')
  BY <1>1, <1>3, OtherMeans DEF TextMeans
<1>5. entry_map = MeaningOf(doc)
  BY DEF TextMeans, Means
<1>6. QED
  BY <1>1, <1>2, <1>4, <1>5 DEF TextMeans

\* Every line that can be read keeps the map what the lines mean.
LEMMA LineReads ==
  ASSUME TextMeans, NEW l \in Lines, NEW rest, Line(l, rest, TRUE)
  PROVE  TextMeans'
<1>1. CASE Pair(l, rest, TRUE)
  BY <1>1, PairReads
<1>2. CASE Replace(l, rest, TRUE)
  BY <1>2, ReplaceReads
<1>3. CASE Close(l, rest, TRUE)
  BY <1>3, CloseReads
<1>4. CASE Include(l, rest, TRUE)
  BY <1>4, CloseReads
<1>5. ~Broken(l, TRUE)
  BY DEF Broken
<1>6. QED
  BY <1>1, <1>2, <1>3, <1>4, <1>5 DEF Line

LEMMA FiledInit == Init => FiledInv
<1> SUFFICES ASSUME Init PROVE FiledInv
  OBVIOUS
<1>1. entry_map = <<>> /\ serial_no_seq = 0 /\ curlyBlock_lst = <<>> /\ doc = <<>>
  BY DEF Init, CfgInit
<1>2. TextMeans
  BY <1>1, NoText DEF TextMeans
<1>3. QED
  BY <1>2, StartInit DEF FiledInv, TextInv

LEMMA ReadFiles == FiledInv /\ ReadLine => TextInv'
<1> SUFFICES ASSUME FiledInv, ReadLine PROVE TextInv'
  OBVIOUS
<1>1. PICK next \in NextLines, ok \in BOOLEAN :
        Line(next[1], next[2], ok) /\ Goto(IF ok THEN "parse" ELSE "failed")
  BY DEF ReadLine
<1>2. pc = "parse" /\ StartInv /\ TextMeans
  BY DEF ReadLine, FiledInv, TextInv
<1>3. next[1] \in Lines
  BY <1>1, <1>2, NextLineTyped, DeviantAssumption DEF NextLines, StartInv, MapInv
<1>4. CASE ok
  <2>1. Line(next[1], next[2], TRUE)
    BY <1>1, <1>4
  <2>2. TextMeans'
    BY <1>2, <1>3, <2>1, LineReads
  <2>3. QED
    BY <2>2 DEF TextInv
<1>5. CASE ~ok
  BY <1>1, <1>5 DEF Goto, TextInv
<1>6. QED
  BY <1>4, <1>5

\* No other step reads a line or changes what has been read.
LEMMA OtherFiles ==
  FiledInv /\ (GetOption \/ OptionsDone \/ SkipLine \/ FileEnds \/ Configure \/ Configured)
    => TextInv'
<1> SUFFICES ASSUME FiledInv,
                    GetOption \/ OptionsDone \/ SkipLine \/ FileEnds \/ Configure \/ Configured
             PROVE  TextInv'
  OBVIOUS
<1>1. UNCHANGED <<entry_map, serial_no_seq, curlyBlock_lst, doc>>
  <2>1. CASE GetOption \/ OptionsDone \/ Configured
    BY <2>1 DEF GetOption, OptionsDone, Configured, cfgVars
  <2>2. CASE SkipLine \/ Configure
    BY <2>2 DEF SkipLine, Configure, readVars
  <2>3. CASE FileEnds
    BY <2>3 DEF FileEnds, EndOfFile, readVars
  <2>4. QED
    BY <2>1, <2>2, <2>3
<1>2. pc \in {"options", "parse", "configure"}
  BY DEF GetOption, OptionsDone, SkipLine, FileEnds, Configured,
         Configure, WalkSection, InitMaxOff, InitLogType, LogTypeUnopened, Doing
<1>3. TextMeans
  BY <1>2 DEF FiledInv, TextInv
<1>4. TextMeans'
  BY <1>1, <1>3 DEF TextMeans
<1>5. QED
  BY <1>4 DEF TextInv

LEMMA FiledNext == FiledInv /\ [Next]_vars => FiledInv'
<1> SUFFICES ASSUME FiledInv, [Next]_vars PROVE FiledInv'
  OBVIOUS
<1>1. StartInv'
  BY StartNext DEF FiledInv
<1>2. TextInv'
  <2>1. CASE UNCHANGED vars
    BY <2>1 DEF vars, cfgVars, mainVars, FiledInv, TextInv, TextMeans
  <2>2. CASE Next
    BY <2>2, ReadFiles, OtherFiles DEF Next
  <2>3. QED
    BY <2>1, <2>2
<1>3. QED
  BY <1>1, <1>2 DEF FiledInv

\* What the next rests on: while the file is read, and while the map is walked, the
\* map holds what the lines read so far mean, the serial number counts their values,
\* and the open blocks are those of the lines that no later line has closed.
THEOREM FiledInvariant == Spec => []FiledInv
BY FiledInit, FiledNext, PTL DEF Spec

\* When configure() begins, the map that _CFGMAP_fh_read() has filled holds each value
\* under the blocks around the line it stands on, in the order of the text, and with
\* the last replacement a .replace line has made of it; and it holds nothing else.
THEOREM MapCorrect == Spec => []MapIsTheText
<1>1. FiledInv => MapIsTheText
  <2> SUFFICES ASSUME FiledInv, pc = "configure" PROVE entry_map = Meaning
    BY DEF MapIsTheText, FiledWhereWritten
  <2>1. entry_map = MeaningOf(doc)
    BY DEF FiledInv, TextInv, TextMeans, Means
  <2>2. QED
    BY <2>1, MeaningIs
<1>2. QED
  BY <1>1, FiledInvariant, PTL
=============================================================================
