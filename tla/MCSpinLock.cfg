CONSTANTS
  Threads = {t1, t2, t3}
  Word = 4
SPECIFICATION Spec
INVARIANTS TypeOK MutualExclusion Window
PROPERTIES EveryoneEnters ImplementsFairLock
