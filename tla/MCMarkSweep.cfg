\* CHECK_DEADLOCK FALSE: collect returns.
CONSTANTS
  N = 3
  K = 4
SPECIFICATION MCSpec
INVARIANTS TypeOK SubtractExact ScannedKept ForwardKept GarbageFound
PROPERTIES SingledOutDies OnlyGarbageReclaimed
CHECK_DEADLOCK FALSE
