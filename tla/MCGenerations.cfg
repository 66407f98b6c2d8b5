\* CHECK_DEADLOCK FALSE: nothing is known after a list is torn.
CONSTANTS
  Threads = {t1, t2}
  Objects = {o1, o2, o3}
  Word = 4
  Share = 2
  Size <- SmallSize
SPECIFICATION Spec
INVARIANTS TypeOK CountsConserved CountsExact GenAgrees OneCollector FastAges FullAges
CHECK_DEADLOCK FALSE
SYMMETRY Symmetry
