CONSTANTS
  alone = alone
  main = main
  peer = peer
  xs = xs
  ys = ys
  Threads = {alone, main, peer}
  ArrayNames = {xs, ys}
  Literals = {xs}
  Absent = Absent
  HugeUp = HugeUp
  HugeDown = HugeDown
  Top = Top
  Nobody = Nobody
  Items <- MCItems
  CallsOf <- MCCallsOf
  Budgets <- MCBudgets
  Beginnings <- MCBeginnings
SPECIFICATION Spec
CHECK_DEADLOCK FALSE
INVARIANTS TypeOK MemorySafe AloneMeans IteratorFaithful
PROPERTIES CallsReturn
