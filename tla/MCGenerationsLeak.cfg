\* CHECK_DEADLOCK FALSE: nothing is known after a list is torn.
CONSTANTS
  Threads = {t1, t2}
  Objects = {o1, o2}
  Word = 3
  Share = 2
  Size <- SmallSize
SPECIFICATION Spec
INVARIANT ShutdownFindsNoLeak
CHECK_DEADLOCK FALSE
