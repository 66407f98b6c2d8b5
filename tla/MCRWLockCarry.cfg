CONSTANTS
  Threads = {t1, t2, t3}
  Word = 4
SPECIFICATION Spec
INVARIANT ExclusiveMode
CHECK_DEADLOCK FALSE
