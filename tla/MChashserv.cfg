SPECIFICATION FairSpec
CONSTANTS
  b1 = b1
  b2 = b2
  t1 = t1
  t2 = t2
  Builds = {b1, b2}
  Conns = {1, 2}
  Taskhashes = {t1, t2}
  Outhashes = {1}
  Unihashes = {t1, t2}
  None = None
  InitCaches <- MCCaches
  Upstreams <- MCUpstreams
  Retries = 1
  MaxCalls = 2
  MaxCrashes = 1
INVARIANTS
  CacheAgrees
  SameOutput
PROPERTIES
  UnihashStable
  CallsEnd
CHECK_DEADLOCK FALSE
