CONSTANTS
  Threads = {t1, t2, t3}
  Word = 4
SPECIFICATION Spec
CONSTRAINT BeforeCarry
INVARIANTS TypeOK ExclusiveUntilCarry LoadsStayFresh WindowUntilCarry
PROPERTIES EveryoneEnters ImplementsFairRWLock
