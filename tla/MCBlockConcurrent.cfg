SPECIFICATION FairSpec
CONSTANTS
  a1 = a1
  a2 = a2
  a3 = a3
  b1 = b1
  b2 = b2
  b3 = b3
  NULL = NULL
  Runs = {r1, r2}
  V4 = {a1, a2}
  V6 = {}
  Allowed <- MCAllowed
  Counts = {1, 2}
  Modes = {"apply", "names"}
  MaxAddr = 2
  MaxEvents = 1
PROPERTIES
  RunsEnd
  Converges
