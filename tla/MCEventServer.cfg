SPECIFICATION Spec
CONSTANTS
  Main = main
  Workers = {w1, w2}
  WorkerSpecs <- MCWorkerSpecs
  Specs <- MCSpecs
  Signals <- MCSignals
  Vsigs = {"v"}
  MaxCallbacks = 2
  MaxEvents = 1
  MaxTime = 2
INVARIANTS
  TypeOK
  FiledOnce
  CalledWhileRegistered
  KeysUnique
  EveryoneServed
SYMMETRY Symmetry
CHECK_DEADLOCK FALSE
