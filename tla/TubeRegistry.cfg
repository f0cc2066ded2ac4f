SPECIFICATION FairSpec
CONSTANTS
  TubeIds = {t1}
  Convs = {v1}
  Closers = {k1, k2}
  MaxTubes = 2
CHECK_DEADLOCK FALSE
INVARIANTS ClosedOnce 
PROPERTIES NeverReplaced ClosingTubesLeave DeadTubesLeave
