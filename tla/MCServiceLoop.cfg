SPECIFICATION FairSpec
CONSTANTS
  x = x
  y = y
  Gone = Gone
  Addrs = {x, y}
  Patterns <- MCPatterns
  Asked = {y}
  Backlog <- MCBacklog
  MaxLen = 2
  MaxTargets = 2
  MaxEvents = 3
INVARIANTS
  TypeOK
  CacheTrue
  CountsTrue
  CacheBounded
  WatchesTheLog
PROPERTY
  Noticed
CHECK_DEADLOCK FALSE
