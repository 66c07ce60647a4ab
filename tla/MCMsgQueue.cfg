SPECIFICATION Spec
CONSTANTS
  Threads = {t1, t2, t3}
  Msgs = {a, b}
  MaxItems = 3
  Garbage = Garbage
  None = None
SYMMETRY Symmetry
INVARIANTS
  TypeOK
  RingInv
PROPERTY
  ImplementsFifo
