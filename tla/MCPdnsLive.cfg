SPECIFICATION FairSpec
CONSTANTS
  None = None
  Mgr = Mgr
  NItems = 2
  MaxThreads = 2
  VsigMax = 1000
  Outcomes = {"REV", "NXDOMAIN", "FATAL"}
PROPERTY
  Termination
