\* CHECK_DEADLOCK FALSE: nothing is known after a list is torn.
CONSTANTS
  Threads = {t1, t2}
  Objects = {o1, o2}
  Word = 3
  Share = 2
  Size <- SmallSize
SPECIFICATION Spec
PROPERTIES CollectionEnds
CHECK_DEADLOCK FALSE
