SPECIFICATION Spec
CONSTANTS
  None = None
  Mgr = Mgr
  NItems = 3
  MaxThreads = 2
  VsigMax = 1000
  Outcomes = {"REV", "MATCH", "FATAL"}
INVARIANTS
  TypeOK
  OneTaskEach
  NoUninitialisedReport
  CompleteUnlessTimedOut
  QueuesSuffice
  NoSignalAfterJoin
PROPERTY
  ImplementsProgress
