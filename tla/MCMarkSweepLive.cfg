CONSTANTS
  N = 3
  K = 3
SPECIFICATION MCSpec
INVARIANT StillAliveIsDoomed
CHECK_DEADLOCK FALSE
