SPECIFICATION Spec
CONSTANTS
  None = None
  Mgr = Mgr
  NItems = 1
  MaxThreads = 1
  VsigMax = 1000
  Outcomes = {"REV", "MATCH"}
INVARIANT
  ReturnCountsCompleted
