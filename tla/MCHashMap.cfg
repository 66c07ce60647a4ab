SPECIFICATION Spec
CONSTANTS
  Garbage = Garbage
  n1 = n1
  n2 = n2
  n3 = n3
  n4 = n4
  n5 = n5
  x = x
  y = y
  Keys <- MCKeys
  Hash <- MCHash
  Inserts <- MCInserts
  Values = {x, y}
  Addresses = {n1, n2, n3, n4, n5}
  NumBuckets = 2
  SlotsPerBucket = 4
  RtnArrSize = 2
SYMMETRY Symmetry
INVARIANTS
  TypeOK
  BucketsValid
  NodesInPlace
PROPERTY
  ImplementsMultiMap
