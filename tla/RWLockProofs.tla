---------------------------- MODULE RWLockProofs ----------------------------
(***************************************************************************)
(* RWLock for every number of threads and every counter width.  Exclusion  *)
(* is not inductive: it rests on Window, which ties the three counters to  *)
(* the numbers of readers and of queued threads, and on Fresh, that the    *)
(* two loads of writeUnlock are not overtaken.  All of it holds until the  *)
(* carry of writeUnlock, and only until then.                              *)
(***************************************************************************)
EXTENDS RWLock, Lines

\* Counting on from a ticket brings every other one a step nearer.
LEMMA SuccWord ==
  ASSUME NEW a \in Words PROVE Succ(a) \in Words
BY WordAssumption DEF Words, Succ

LEMMA NothingTyped == 0 \in Words /\ NothingLoaded \in [reads : Words, writes : Words]
BY WordAssumption DEF Words, NothingLoaded

LEMMA LowBitWord ==
  ASSUME NEW a \in Words PROVE SetLowBit(a) \in Words
BY WordAssumption, ThreadsAssumption DEF Words, SetLowBit

LEMMA AheadSucc ==
  ASSUME NEW a \in Words, NEW b \in Words, a # b
  PROVE  Ahead(Succ(a), b) = Ahead(a, b) - 1 /\ Ahead(a, b) \in Int
BY WordAssumption DEF Words, Ahead, Succ

LEMMA PastSucc ==
  ASSUME NEW a \in Words, NEW n \in Nat, n < Word
  PROVE  Succ(Past(a, n)) = Past(a, n + 1)
BY WordAssumption DEF Words, Past, Succ

\* Type correctness: the counters never leave their range, not even when the
\* carry corrupts the high half.
LEMMA TypeInvariant == Init /\ [][Next]_vars => []TypeOK
<1>1. Init => TypeOK
  BY NothingTyped DEF Init, TypeOK, Modes
<1>2. ASSUME TypeOK, NEW t \in Threads, NEW place \in {"readSpin", "writeSpin"}, Draw(t, place)
      PROVE  TypeOK'
  BY <1>2, SuccWord DEF TypeOK, Draw, Goto, Modes
<1>3. ASSUME TypeOK, NEW t \in Threads, Step(t)
      PROVE  TypeOK'
  <2> USE <1>3 DEF TypeOK, Goto, Leave, Modes
  <2>1. CASE ReadTurn(t)
    BY <2>1 DEF ReadTurn
  <2>2. CASE ReadAdmit(t)
    BY <2>2, SuccWord DEF ReadAdmit
  <2>3. CASE ReadUnlock(t)
    BY <2>3, SuccWord, NothingTyped DEF ReadUnlock
  <2>4. CASE WriteTurn(t)
    BY <2>4 DEF WriteTurn
  <2>5. CASE LoadReads(t)
    BY <2>5 DEF LoadReads
  <2>6. CASE LoadWrites(t)
    BY <2>6 DEF LoadWrites
  <2>7. CASE StoreAccess(t)
    <3>1. Succ(loaded[t].reads) \in Words /\ Succ(loaded[t].writes) \in Words
      <4>1. loaded[t].reads \in Words /\ loaded[t].writes \in Words
        OBVIOUS
      <4> QED
        BY <4>1, SuccWord
    <3>2. SetLowBit(Succ(loaded[t].writes)) \in Words
      BY <3>1, LowBitWord
    <3> QED
      BY <2>7, <3>1, <3>2, NothingTyped DEF StoreAccess
  <2> QED
    BY <2>1, <2>2, <2>3, <2>4, <2>5, <2>6, <2>7 DEF Step
<1>4. TypeOK /\ UNCHANGED vars => TypeOK'
  BY DEF TypeOK, vars
<1>5. TypeOK /\ [Next]_vars => TypeOK'
  BY <1>2, <1>3, <1>4 DEF Next
<1> QED
  BY <1>1, <1>5, PTL

\* Readers and queued threads are different threads: at most Word together.
LEMMA Sizes ==
  ASSUME NEW R \in SUBSET Threads, NEW Q \in SUBSET Threads, R \cap Q = {}
  PROVE  /\ IsFiniteSet(R) /\ IsFiniteSet(Q)
         /\ Cardinality(R) \in Nat /\ Cardinality(Q) \in Nat
         /\ Cardinality(R) + Cardinality(Q) <= Word
         /\ Cardinality(R) = 0 => R = {}
         /\ Cardinality(Q) = 0 => Q = {}
<1>1. IsFiniteSet(R) /\ IsFiniteSet(Q) /\ IsFiniteSet(R \cup Q)
  BY FS_Subset, ThreadsAssumption
<1>2. Cardinality(R) \in Nat /\ Cardinality(Q) \in Nat /\ Cardinality(Threads) \in Nat
  BY <1>1, FS_CardinalityType, ThreadsAssumption
<1>3. Cardinality(R \cup Q) = Cardinality(R) + Cardinality(Q)
  <2>1. Cardinality(R \cup Q) = Cardinality(R) + Cardinality(Q) - Cardinality({})
    BY <1>1, FS_Union
  <2> QED
    BY <1>2, <2>1, FS_EmptySet
<1>4. Cardinality(R \cup Q) <= Cardinality(Threads)
  BY FS_Subset, ThreadsAssumption
<1> QED
  BY <1>1, <1>2, <1>3, <1>4, FS_EmptySet, ThreadsAssumption, WordAssumption

\* The sizes in a state of the lock.
LEMMA LockSizes ==
  /\ IsFiniteSet(Reading) /\ IsFiniteSet(Queue)
  /\ Cardinality(Reading) \in Nat /\ Cardinality(Queue) \in Nat
  /\ Cardinality(Reading) + Cardinality(Queue) <= Word
  /\ Cardinality(Reading) = 0 => Reading = {}
  /\ Cardinality(Queue) = 0 => Queue = {}
<1>1. Reading \in SUBSET Threads /\ Queue \in SUBSET Threads /\ Reading \cap Queue = {}
  BY DEF Reading, Queue, Waiting, Writing
<1> QED
  BY <1>1, Sizes, Zenon

\* A writer whose ticket _writes shows finds no reader inside: the readers
\* would put its ticket out of the window.
LEMMA WriterTurn ==
  ASSUME TypeOK, Window, NEW t \in Queue, tk[t] = writes
  PROVE  reads = writes /\ Reading = {}
<1>1. Cardinality(Queue) # 0
  BY LockSizes
<1>2. Distance(t) < Cardinality(Queue) /\ tk[t] \in Words
  BY DEF Window, Queue, Waiting, Writing, TypeOK
<1>3. Cardinality(Reading) = 0
  BY <1>1, <1>2, LockSizes, WordAssumption
  DEF Window, Past, Distance, Ahead, TypeOK, Words
<1> QED
  BY <1>3, LockSizes, WordAssumption DEF Window, Past, TypeOK, Words

\* While a writer is inside, nobody else is, and no reader is being admitted.
LEMMA WriterAlone ==
  ASSUME TypeOK, Window, NEW t \in Writing
  PROVE  /\ Reading = {}
         /\ Writing = {t}
         /\ \A s \in Threads : pc[s] # "readAdmit"
<1>1. t \in Queue /\ tk[t] = writes /\ tk[t] = reads /\ t \in Threads
  BY DEF Window, Queue, Writing
<1>2. Reading = {}
  BY <1>1, WriterTurn
<1>3. \A s \in Writing : s = t
  BY <1>1 DEF Window, Queue
<1>4. ASSUME NEW s \in Threads, pc[s] = "readAdmit" PROVE FALSE
  <2>1. s \in Queue /\ tk[s] = tk[t]
    BY <1>1, <1>4 DEF Window, Queue, Waiting
  <2>2. s = t
    BY <1>1, <2>1 DEF Window
  <2> QED
    BY <2>2, <1>4 DEF Writing
<1> QED
  BY <1>2, <1>3, <1>4

LEMMA WindowExcludes == TypeOK /\ Window => ExclusiveMode
BY WriterAlone DEF ExclusiveMode

\* No step takes the lock out of the window.
LEMMA DrawStep ==
  ASSUME TypeOK, Window, Fresh,
         NEW t \in Threads, NEW place \in {"readSpin", "writeSpin"}, Draw(t, place)
  PROVE  Window' /\ Fresh'
<1> USE WordAssumption DEF TypeOK, Words
<1>1. Reading' = Reading /\ Queue' = Queue \cup {t} /\ Writing' = Writing
  BY DEF Draw, Goto, Reading, Queue, Waiting, Writing
<1>2. t \notin Queue /\ t \notin Reading
  BY DEF Draw, Reading, Queue, Waiting, Writing
<1>3. /\ Cardinality(Queue)' = Cardinality(Queue) + 1
      /\ Cardinality(Reading)' = Cardinality(Reading)
  BY <1>1, <1>2, LockSizes, FS_AddElement
<1>4. Cardinality(Reading) + Cardinality(Queue) + 1 <= Word
  <2>1. Queue \cup {t} \in SUBSET Threads /\ Reading \in SUBSET Threads
        /\ Reading \cap (Queue \cup {t}) = {}
    BY <1>2 DEF Reading, Queue, Waiting, Writing
  <2> QED
    BY <2>1, <1>1, <1>3, Sizes
<1>5. UNCHANGED <<reads, writes, loaded>> /\ tickets' = Succ(tickets)
  BY DEF Draw
<1>6. tk' = [tk EXCEPT ![t] = tickets]
  BY DEF Draw
<1>7. Ahead(reads, tickets) = Cardinality(Queue)
  BY <1>4, LockSizes DEF Window, Past, Ahead
<1>8. ASSUME NEW s \in Queue PROVE tk'[s] = tk[s] /\ tk[s] # tickets /\ s \in Threads
  BY <1>2, <1>6, <1>7, LockSizes DEF Window, Distance, Queue, Waiting, Writing
<1>9. tk'[t] = tickets
  BY <1>6
<1>10. (\A s \in Queue : Distance(s) < Cardinality(Queue))'
  <2> SUFFICES ASSUME NEW s \in Queue' PROVE Distance(s)' < Cardinality(Queue)'
    OBVIOUS
  <2>1. CASE s = t
    BY <2>1, <1>3, <1>5, <1>7, <1>9, LockSizes DEF Distance, Ahead
  <2>2. CASE s \in Queue
    <3>1. Distance(s)' = Distance(s) /\ Distance(s) \in Int
      BY <2>2, <1>5, <1>8 DEF Distance, Ahead
    <3>2. Distance(s) < Cardinality(Queue)
      BY <2>2 DEF Window
    <3> QED
      BY <3>1, <3>2, <1>3, LockSizes
  <2> QED
    BY <2>1, <2>2, <1>1
<1>11. (\A r, s \in Queue : tk[r] = tk[s] => r = s)'
  BY <1>1, <1>8, <1>9 DEF Window
<1>12. (reads = Past(writes, Cardinality(Reading)))'
  BY <1>3, <1>5 DEF Window, Past
<1>13. (tickets = Past(reads, Cardinality(Queue)))'
  <2>1. tickets' = Past(reads, Cardinality(Queue) + 1)
    <3>1. Cardinality(Queue) \in Nat /\ Cardinality(Queue) < Word /\ reads \in Words
      BY <1>4, LockSizes
    <3> QED
      BY <3>1, <1>5, PastSucc DEF Window
  <2> QED
    BY <2>1, <1>3, <1>5 DEF Past
<1>14. (\A s \in Writing : tk[s] = reads /\ reads = writes)'
  BY <1>1, <1>5, <1>8 DEF Window, Queue
<1>15. (\A s \in Threads : pc[s] = "readAdmit" => tk[s] = reads)'
  BY <1>5, <1>6 DEF Window, Draw, Goto
<1>16. Fresh'
  BY <1>5 DEF Fresh, Draw, Goto
<1> QED
  BY <1>10, <1>11, <1>12, <1>13, <1>14, <1>15, <1>16 DEF Window

\* Steps that move a thread without moving a counter or leaving the queue.
LEMMA TurnStep ==
  ASSUME TypeOK, Window, Fresh, NEW t \in Threads,
         ReadTurn(t) \/ WriteTurn(t) \/ LoadReads(t) \/ LoadWrites(t)
  PROVE  Window' /\ Fresh'
<1>1. Reading' = Reading /\ Queue' = Queue /\ UNCHANGED <<reads, writes, tickets, tk>>
  BY DEF ReadTurn, WriteTurn, LoadReads, LoadWrites, Goto,
         Reading, Queue, Waiting, Writing, TypeOK
<1>2. (\A s \in Writing : tk[s] = reads /\ reads = writes)'
  <2>1. CASE WriteTurn(t)
    <3>1. t \in Queue /\ tk[t] = writes
      BY <2>1 DEF WriteTurn, Queue, Waiting
    <3>2. reads = writes
      BY <3>1, WriterTurn
    <3>3. Writing' = Writing \cup {t}
      BY <2>1 DEF WriteTurn, Goto, Writing, TypeOK
    <3> QED
      BY <1>1, <3>1, <3>2, <3>3 DEF Window
  <2>2. CASE ReadTurn(t) \/ LoadReads(t) \/ LoadWrites(t)
    <3>1. Writing' = Writing
      BY <2>2 DEF ReadTurn, LoadReads, LoadWrites, Goto, Writing, TypeOK
    <3> QED
      BY <1>1, <3>1 DEF Window
  <2> QED
    BY <2>1, <2>2
<1>3. (\A s \in Threads : pc[s] = "readAdmit" => tk[s] = reads)'
  BY <1>1 DEF Window, ReadTurn, WriteTurn, LoadReads, LoadWrites, Goto, TypeOK
<1>4. Window'
  BY <1>1, <1>2, <1>3 DEF Window, Distance, Ahead, Past
<1>5. Fresh'
  BY <1>1 DEF Fresh, ReadTurn, WriteTurn, LoadReads, LoadWrites, Goto, TypeOK
<1> QED
  BY <1>4, <1>5

\* The turn passes from the first of the queue to the second.
LEMMA Advance ==
  ASSUME TypeOK, Window, NEW t \in Queue, tk[t] = reads,
         reads' = Succ(reads), tickets' = tickets, Queue' = Queue \ {t},
         \A s \in Queue \ {t} : tk'[s] = tk[s]
  PROVE  /\ (\A s \in Queue : Distance(s) < Cardinality(Queue))'
         /\ (\A r, s \in Queue : tk[r] = tk[s] => r = s)'
         /\ (tickets = Past(reads, Cardinality(Queue)))'
<1> USE WordAssumption DEF TypeOK, Words
<1>1. Cardinality(Queue)' = Cardinality(Queue) - 1 /\ Cardinality(Queue) >= 1
  <2>1. Cardinality(Queue)' = Cardinality(Queue) - 1 /\ Cardinality(Queue) # 0
    BY LockSizes, FS_RemoveElement
  <2> QED
    BY <2>1, LockSizes
<1>2. ASSUME NEW s \in Queue'
      PROVE  Distance(s)' = Distance(s) - 1 /\ Distance(s) \in Int
  <2>1. s \in Queue /\ s \in Threads /\ tk[s] # reads /\ tk'[s] = tk[s]
    BY DEF Window, Queue, Waiting, Writing
  <2>2. tk[s] \in Words /\ reads \in Words
    BY <2>1
  <2>3. Ahead(Succ(reads), tk[s]) = Ahead(reads, tk[s]) - 1 /\ Ahead(reads, tk[s]) \in Int
    BY <2>1, <2>2, AheadSucc
  <2> QED
    BY <2>1, <2>3 DEF Distance, Ahead
<1>3. (\A s \in Queue : Distance(s) < Cardinality(Queue))'
  BY <1>1, <1>2, LockSizes DEF Window
<1>4. (\A r, s \in Queue : tk[r] = tk[s] => r = s)'
  BY DEF Window
<1>5. (tickets = Past(reads, Cardinality(Queue)))'
  BY <1>1, LockSizes DEF Window, Past, Succ
<1> QED
  BY <1>3, <1>4, <1>5

LEMMA AdmitStep ==
  ASSUME TypeOK, Window, Fresh, NEW t \in Threads, ReadAdmit(t)
  PROVE  Window' /\ Fresh'
<1> USE WordAssumption DEF TypeOK, Words
<1>1. t \in Queue /\ tk[t] = reads /\ Writing = {} /\ Writing' = {}
  BY WriterAlone DEF ReadAdmit, Goto, Window, Queue, Waiting, Writing
<1>2. Reading' = Reading \cup {t} /\ Queue' = Queue \ {t} /\ t \notin Reading
  BY DEF ReadAdmit, Goto, Reading, Queue, Waiting, Writing
<1>3. reads' = Succ(reads) /\ UNCHANGED <<writes, tickets, tk>>
  BY DEF ReadAdmit
<1>4. Cardinality(Reading)' = Cardinality(Reading) + 1
  BY <1>2, LockSizes, FS_AddElement
<1>5. Cardinality(Reading) < Word
  <2>1. Cardinality(Queue) # 0
    BY <1>1, LockSizes
  <2> QED
    BY <2>1, LockSizes
<1>6. (reads = Past(writes, Cardinality(Reading)))'
  BY <1>3, <1>4, <1>5, LockSizes DEF Window, Past, Succ
<1>7. (\A s \in Threads : pc[s] = "readAdmit" => tk[s] = reads)'
  <2> SUFFICES ASSUME NEW s \in Threads, pc'[s] = "readAdmit" PROVE FALSE
    OBVIOUS
  <2>1. pc[s] = "readAdmit" /\ s # t
    BY DEF ReadAdmit, Goto
  <2>2. s \in Queue /\ tk[s] = tk[t]
    BY <2>1, <1>1 DEF Window, Queue, Waiting
  <2> QED
    BY <2>1, <2>2, <1>1 DEF Window
<1>8. Fresh'
  BY <1>1 DEF Fresh, Writing, ReadAdmit, Goto
<1>9. /\ (\A s \in Queue : Distance(s) < Cardinality(Queue))'
      /\ (\A r, s \in Queue : tk[r] = tk[s] => r = s)'
      /\ (tickets = Past(reads, Cardinality(Queue)))'
  BY <1>1, <1>2, <1>3, Advance
<1> QED
  BY <1>1, <1>6, <1>7, <1>8, <1>9 DEF Window

LEMMA ReadUnlockStep ==
  ASSUME TypeOK, Window, Fresh, NEW t \in Threads, ReadUnlock(t)
  PROVE  Window' /\ Fresh'
<1> USE WordAssumption DEF TypeOK, Words
<1>1. t \in Reading /\ Reading' = Reading \ {t} /\ Queue' = Queue
  BY DEF ReadUnlock, Leave, Goto, Reading, Queue, Waiting, Writing
<1>2. Writing = {} /\ Writing' = {}
  BY <1>1, WriterAlone DEF ReadUnlock, Leave, Goto, Writing
<1>3. writes' = Succ(writes) /\ UNCHANGED <<reads, tickets>>
      /\ tk' = [tk EXCEPT ![t] = 0]
  BY DEF ReadUnlock, Leave
<1>4. Cardinality(Reading)' = Cardinality(Reading) - 1 /\ Cardinality(Reading) >= 1
  <2>1. Cardinality(Reading)' = Cardinality(Reading) - 1 /\ Cardinality(Reading) # 0
    BY <1>1, LockSizes, FS_RemoveElement
  <2> QED
    BY <2>1, LockSizes
<1>5. (reads = Past(writes, Cardinality(Reading)))'
  BY <1>3, <1>4, LockSizes DEF Window, Past, Succ
<1>6. \A s \in Queue : tk'[s] = tk[s] /\ s \in Threads
  BY <1>3 DEF ReadUnlock, Queue, Waiting, Writing
<1>7. (\A s \in Queue : Distance(s) < Cardinality(Queue))'
  BY <1>1, <1>3, <1>6 DEF Window, Distance, Ahead
<1>8. (\A r, s \in Queue : tk[r] = tk[s] => r = s)'
  BY <1>1, <1>6 DEF Window
<1>9. (tickets = Past(reads, Cardinality(Queue)))'
  BY <1>1, <1>3 DEF Window, Past
<1>10. (\A s \in Threads : pc[s] = "readAdmit" => tk[s] = reads)'
  BY <1>3 DEF Window, ReadUnlock, Leave, Goto
<1>11. Fresh'
  BY <1>2 DEF Fresh, Writing
<1> QED
  BY <1>2, <1>5, <1>7, <1>8, <1>9, <1>10, <1>11 DEF Window

LEMMA StoreStep ==
  ASSUME TypeOK, Window, Fresh, NEW t \in Threads, StoreAccess(t), ~carried'
  PROVE  Window' /\ Fresh'
<1> USE WordAssumption DEF TypeOK, Words
<1>1. t \in Writing /\ t \in Queue /\ tk[t] = reads /\ reads = writes
  BY DEF StoreAccess, Writing, Queue, Window
<1>2. Reading = {} /\ Writing = {t} /\ \A s \in Threads : pc[s] # "readAdmit"
  BY <1>1, WriterAlone
<1>3. loaded[t].reads = reads /\ loaded[t].writes = writes /\ reads # Word - 1
  BY DEF Fresh, StoreAccess
<1>4. /\ reads' = Succ(reads) /\ writes' = Succ(writes)
      /\ UNCHANGED tickets /\ tk' = [tk EXCEPT ![t] = 0]
  BY <1>3 DEF StoreAccess, Leave
<1>5. Reading' = {} /\ Writing' = {} /\ Queue' = Queue \ {t}
  BY <1>2 DEF StoreAccess, Leave, Goto, Reading, Queue, Waiting, Writing
<1>6. \A s \in Queue \ {t} : tk'[s] = tk[s]
  BY <1>4 DEF Queue, Waiting, Writing
<1>7. /\ (\A s \in Queue : Distance(s) < Cardinality(Queue))'
      /\ (\A r, s \in Queue : tk[r] = tk[s] => r = s)'
      /\ (tickets = Past(reads, Cardinality(Queue)))'
  BY <1>1, <1>4, <1>5, <1>6, Advance
<1>8. (reads = Past(writes, Cardinality(Reading)))'
  <2>1. Cardinality(Reading)' = 0
    BY <1>5, FS_EmptySet
  <2> QED
    BY <2>1, <1>1, <1>4 DEF Past, Succ
<1>9. (\A s \in Threads : pc[s] = "readAdmit" => tk[s] = reads)'
  BY <1>2 DEF StoreAccess, Leave, Goto
<1>10. Fresh'
  BY <1>5 DEF Fresh, Writing
<1> QED
  BY <1>5, <1>7, <1>8, <1>9, <1>10 DEF Window

LEMMA InvInit == Init => Window /\ Fresh
<1> SUFFICES ASSUME Init PROVE Window /\ Fresh
  OBVIOUS
<1>1. Reading = {} /\ Writing = {} /\ Queue = {}
  BY DEF Init, Reading, Writing, Queue, Waiting
<1>2. Cardinality(Reading) = 0 /\ Cardinality(Queue) = 0
  BY <1>1, FS_EmptySet
<1> QED
  BY <1>1, <1>2, WordAssumption DEF Init, Window, Fresh, Past

LEMMA WindowStep ==
  ASSUME TypeOK, Window, Fresh, [Next]_vars, ~carried'
  PROVE  Window' /\ Fresh'
<1>1. ASSUME NEW t \in Threads, NEW place \in {"readSpin", "writeSpin"}, Draw(t, place)
      PROVE  Window' /\ Fresh'
  BY <1>1, DrawStep
<1>2. ASSUME NEW t \in Threads, Step(t)
      PROVE  Window' /\ Fresh'
  BY <1>2, TurnStep, AdmitStep, ReadUnlockStep, StoreStep DEF Step
<1>3. CASE UNCHANGED vars
  BY <1>3 DEF vars, Window, Fresh, Distance, Ahead, Past, Reading, Queue, Waiting, Writing
<1> QED
  BY <1>1, <1>2, <1>3 DEF Next

LEMMA CarryStays == [Next]_vars /\ carried \in BOOLEAN /\ ~carried' => ~carried
BY DEF Next, vars, Draw, Step, ReadTurn, ReadAdmit, ReadUnlock, WriteTurn,
       LoadReads, LoadWrites, StoreAccess

LEMMA WindowInvariant == Spec => []TypeOK /\ [](WindowUntilCarry /\ LoadsStayFresh)
<1> DEFINE Good == ~carried => Window /\ Fresh
<1>1. Init => Good
  BY InvInit
<1>2. TypeOK /\ Good /\ [Next]_vars => Good'
  <2> SUFFICES ASSUME TypeOK, Good, [Next]_vars, ~carried' PROVE Window' /\ Fresh'
    OBVIOUS
  <2>1. ~carried
    BY CarryStays DEF TypeOK
  <2> QED
    BY <2>1, WindowStep
<1>3. Good => WindowUntilCarry /\ LoadsStayFresh
  BY DEF WindowUntilCarry, LoadsStayFresh
<1>4. Spec => []TypeOK
  BY TypeInvariant, PTL DEF Spec
<1> QED
  BY <1>1, <1>2, <1>3, <1>4, PTL DEF Spec

\* Type correctness: the two halves of _access stay in their width, not even
\* the carry of writeUnlock takes them out of it.
THEOREM TypeCorrect == Spec => []TypeOK
BY WindowInvariant, PTL

\* Until the carry the readers inside separate _writes from _reads and the
\* queue separates _reads from _tickets, for every number of threads and every
\* width, however often the counters wrap.
THEOREM CountersKeepWindow == Spec => []WindowUntilCarry
BY WindowInvariant, PTL

\* Until the carry no counter moves between the loads of writeUnlock and its
\* store: the two loads and the store need not be atomic.
THEOREM NoStaleStore == Spec => []LoadsStayFresh
BY WindowInvariant, PTL

\* Until the carry a writer is alone in the lock: the exclusive mode that the
\* containers rely on.
THEOREM Exclusion == Spec => []ExclusiveUntilCarry
<1>1. TypeOK /\ WindowUntilCarry => ExclusiveUntilCarry
  BY WindowExcludes DEF WindowUntilCarry, ExclusiveUntilCarry
<1> QED
  BY <1>1, WindowInvariant, PTL

-----------------------------------------------------------------------------
\* The place of a waiting request: a writer inside still has the first ticket.
Place == [t \in Waiting |-> Distance(t) - Cardinality(Writing) + 1]

Requests == [t \in Waiting |-> RequestOf(t)]

InLine == /\ Line \in [1 .. Cardinality(Waiting) -> Abstract!Request]
          /\ Place \in [Waiting -> 1 .. Cardinality(Waiting)]
          /\ Requests \in [Waiting -> Abstract!Request]
          /\ \A t \in Waiting : Line[Place[t]] = Requests[t]
          /\ \A k \in 1 .. Cardinality(Waiting) : \E t \in Waiting : Place[t] = k

LEMMA WaitingFinite ==
  /\ IsFiniteSet(Waiting) /\ Cardinality(Waiting) \in Nat
  /\ IsFiniteSet(Writing) /\ Cardinality(Writing) \in Nat
  /\ Cardinality(Queue) = Cardinality(Waiting) + Cardinality(Writing)
<1>1. /\ Waiting \in SUBSET Threads /\ Writing \in SUBSET Threads
      /\ Waiting \cap Writing = {} /\ Queue = Waiting \cup Writing
  BY DEF Waiting, Writing, Queue
<1>2. /\ IsFiniteSet(Waiting) /\ Cardinality(Waiting) \in Nat
      /\ IsFiniteSet(Writing) /\ Cardinality(Writing) \in Nat
  BY <1>1, Sizes
<1>3. Cardinality(Queue) = Cardinality(Waiting) + Cardinality(Writing) - Cardinality({})
  BY <1>1, <1>2, FS_Union
<1> QED
  BY <1>2, <1>3, FS_EmptySet

\* The one writer inside, if there is one, has the ticket at distance zero.
LEMMA AtMostOneWriter ==
  ASSUME TypeOK, Window
  PROVE  \/ Writing = {} /\ Cardinality(Writing) = 0
         \/ \E t \in Threads : Writing = {t} /\ Cardinality(Writing) = 1 /\ Distance(t) = 0
<1>1. CASE Writing = {}
  BY <1>1, FS_EmptySet
<1>2. ASSUME NEW t \in Writing
      PROVE  t \in Threads /\ Writing = {t} /\ Cardinality(Writing) = 1 /\ Distance(t) = 0
  <2>1. Writing = {t} /\ t \in Threads /\ tk[t] = reads
    BY WriterAlone DEF Window, Writing
  <2>2. Distance(t) = 0
    BY <2>1, WordAssumption DEF Distance, Ahead, TypeOK, Words
  <2> QED
    BY <2>1, <2>2, FS_Singleton
<1> QED
  BY <1>1, <1>2

\* The window seen from the line: every place is taken, by the one request
\* whose ticket is that far from being admitted.
LEMMA Places == TypeOK /\ Window => InLine
<1> SUFFICES ASSUME TypeOK, Window PROVE InLine
  OBVIOUS
<1> DEFINE n == Cardinality(Waiting)
           m == Cardinality(Writing)
           f == [t \in Waiting |-> Distance(t) - m]
           Before(t) == Cardinality({s \in Waiting : Distance(s) < Distance(t)})
<1>1. /\ IsFiniteSet(Waiting) /\ n \in Nat /\ m \in {0, 1}
      /\ Cardinality(Queue) = n + m
  BY WaitingFinite, AtMostOneWriter
<1>2. ASSUME NEW t \in Waiting
      PROVE  /\ t \in Threads /\ t \in Queue /\ tk[t] \in Words
             /\ Distance(t) \in Int /\ Distance(t) >= m /\ Distance(t) < n + m
  <2>1. t \in Threads /\ t \in Queue /\ tk[t] \in Words /\ reads \in Words
    BY DEF Waiting, Queue, TypeOK
  <2>2. Distance(t) \in Int /\ Distance(t) >= 0 /\ (tk[t] # reads => Distance(t) >= 1)
    BY <2>1, WordAssumption DEF Distance, Ahead, Words
  <2>3. CASE m = 1
    <3>1. PICK s \in Writing : TRUE
      BY <2>3, AtMostOneWriter
    <3>2. s \in Queue /\ s # t /\ tk[s] = reads
      BY DEF Queue, Waiting, Writing, Window
    <3>3. tk[t] # reads
      BY <2>1, <3>2 DEF Window
    <3> QED
      BY <1>1, <2>1, <2>2, <2>3, <3>3 DEF Window
  <2>4. CASE m = 0
    BY <1>1, <2>1, <2>2, <2>4 DEF Window
  <2> QED
    BY <1>1, <2>3, <2>4
<1>3. ASSUME NEW s \in Waiting, NEW t \in Waiting, Distance(s) = Distance(t) PROVE s = t
  <2>1. tk[s] = tk[t]
    <3>1. tk[s] \in Words /\ tk[t] \in Words /\ reads \in Words
      BY <1>2 DEF TypeOK
    <3> QED
      BY <3>1, <1>3, WordAssumption DEF Words, Distance, Ahead
  <2> QED
    BY <1>2, <2>1 DEF Window
<1> HIDE DEF n, m
<1>4. /\ f \in [Waiting -> Int]
      /\ \A s \in Waiting : 0 <= f[s] /\ f[s] < n
      /\ \A s, t \in Waiting : f[s] = f[t] => s = t
      /\ \A s, t \in Waiting : f[s] < f[t] <=> Distance(s) < Distance(t)
  BY <1>1, <1>2, <1>3
<1>5. \A t \in Waiting : Before(t) = f[t]
  <2> HIDE DEF f
  <2>1. \A t \in Waiting : Cardinality({s \in Waiting : f[s] < f[t]}) = f[t]
    BY <1>1, <1>4, Ranks DEF n
  <2>2. ASSUME NEW t \in Waiting
        PROVE  {s \in Waiting : f[s] < f[t]} = {s \in Waiting : Distance(s) < Distance(t)}
    BY <1>4
  <2> QED
    BY <2>1, <2>2
<1>6. \A k \in 0 .. (n - 1) : \E t \in Waiting : f[t] = k
  <2> HIDE DEF f
  <2> QED
    BY <1>1, <1>4, FillsWindow DEF n
<1>7. Place = [t \in Waiting |-> f[t] + 1]
  BY DEF Place, m
<1>8. Place \in [Waiting -> 1 .. n] /\ \A t \in Waiting : Place[t] = f[t] + 1
  <2> HIDE DEF f
  <2> QED
    BY <1>1, <1>4, <1>7
<1>9. Requests \in [Waiting -> Abstract!Request] /\ \A t \in Waiting : Requests[t] = RequestOf(t)
  BY <1>2 DEF Requests, RequestOf, Abstract!Request
<1>10. ASSUME NEW k \in 1 .. n
       PROVE  \E t \in Waiting : Place[t] = k /\ Line[k] = Requests[t]
  <2>1. \E t \in Waiting : Before(t) = k - 1
    <3>1. k - 1 \in 0 .. (n - 1)
      BY <1>1
    <3> QED
      BY <3>1, <1>5, <1>6
  <2> DEFINE who == CHOOSE t \in Waiting : Before(t) = k - 1
  <2>2. Line[k] = RequestOf(who)
    BY DEF Line, n
  <2> HIDE DEF Before
  <2>3. who \in Waiting /\ Before(who) = k - 1
    BY <2>1
  <2> HIDE DEF who, f
  <2>4. Place[who] = k
    BY <1>1, <1>4, <1>5, <1>8, <2>3
  <2> QED
    BY <1>9, <2>2, <2>3, <2>4
<1>11. \A s, t \in Waiting : Place[s] = Place[t] => s = t
  <2> HIDE DEF f
  <2> QED
    BY <1>4, <1>8
<1>12. \A t \in Waiting : Line[Place[t]] = Requests[t]
  BY <1>8, <1>10, <1>11
<1>13. Line \in [1 .. n -> Abstract!Request]
  <2>1. \A k \in 1 .. n : Line[k] \in Abstract!Request
    BY <1>9, <1>10
  <2> QED
    BY <2>1 DEF Line, n
<1> QED
  BY <1>8, <1>9, <1>10, <1>12, <1>13 DEF InLine, n

\* A step that leaves everyone in their places leaves the line as it is.
LEMMA LineStays ==
  ASSUME InLine, InLine', Waiting' = Waiting, Place' = Place, Requests' = Requests
  PROVE  Line' = Line
<1> DEFINE n == Cardinality(Waiting)
<1>1. Line \in [1 .. n -> Abstract!Request] /\ Line' \in [1 .. n -> Abstract!Request]
  BY DEF InLine, Abstract!Request
<1>2. ASSUME NEW k \in 1 .. n PROVE Line'[k] = Line[k]
  <2>1. PICK t \in Waiting : Place[t] = k
    BY DEF InLine
  <2>2. Line'[Place'[t]] = Requests'[t] /\ Line[Place[t]] = Requests[t]
    BY DEF InLine
  <2> QED
    BY <2>1, <2>2
<1>3. n \in Nat
  BY WaitingFinite
<1> HIDE DEF n
<1> QED
  BY <1>1, <1>2, <1>3, SameIs

\* The first of the line is taken out of it, and everyone else moves up.
LEMMA LineMoves ==
  ASSUME InLine, InLine', NEW t \in Waiting, Waiting' = Waiting \ {t}, Place[t] = 1,
         \A s \in Waiting \ {t} : Place'[s] = Place[s] - 1 /\ Requests'[s] = Requests[s]
  PROVE  Line # <<>> /\ Head(Line) = Requests[t] /\ Line' = Tail(Line)
<1> DEFINE n == Cardinality(Waiting)
<1>1. n \in Nat \ {0} /\ Cardinality(Waiting') = n - 1
  BY WaitingFinite, FS_RemoveElement, FS_EmptySet
<1>2. Line \in [1 .. n -> Abstract!Request] /\ Line' \in [1 .. (n - 1) -> Abstract!Request]
  BY <1>1 DEF InLine, Abstract!Request
<1>3. ASSUME NEW k \in 1 .. (n - 1) PROVE Line'[k] = Line[k + 1]
  <2>1. k + 1 \in 1 .. n
    BY <1>1
  <2>2. PICK s \in Waiting : Place[s] = k + 1
    BY <2>1 DEF InLine
  <2>3. s \in Waiting' /\ Place'[s] = k /\ Requests'[s] = Requests[s]
    BY <1>1, <2>2
  <2>4. Line'[Place'[s]] = Requests'[s] /\ Line[Place[s]] = Requests[s]
    BY <2>3 DEF InLine
  <2> QED
    BY <2>2, <2>3, <2>4
<1>4. Line[1] = Requests[t]
  BY DEF InLine
<1> HIDE DEF n
<1> QED
  BY <1>1, <1>2, <1>3, <1>4, TailIs

\* Whoever draws a ticket comes last.
LEMMA LineGrows ==
  ASSUME InLine, InLine', NEW t, t \notin Waiting, Waiting' = Waiting \cup {t},
         Place'[t] = Cardinality(Waiting) + 1,
         \A s \in Waiting : Place'[s] = Place[s] /\ Requests'[s] = Requests[s]
  PROVE  Line' = Append(Line, Requests'[t])
<1> DEFINE n == Cardinality(Waiting)
<1>1. n \in Nat /\ Cardinality(Waiting') = n + 1
  BY WaitingFinite, FS_AddElement
<1>2. /\ Line \in [1 .. n -> Abstract!Request] /\ Line' \in [1 .. (n + 1) -> Abstract!Request]
      /\ Requests'[t] \in Abstract!Request
  BY <1>1 DEF InLine, Abstract!Request
<1>3. ASSUME NEW k \in 1 .. n PROVE Line'[k] = Line[k]
  <2>1. PICK s \in Waiting : Place[s] = k
    BY DEF InLine
  <2>2. Line'[Place'[s]] = Requests'[s] /\ Line[Place[s]] = Requests[s]
    BY DEF InLine
  <2> QED
    BY <2>1, <2>2
<1>4. Line'[n + 1] = Requests'[t]
  <2>1. Line'[Place'[t]] = Requests'[t]
    BY DEF InLine
  <2> QED
    BY <2>1
<1> HIDE DEF n
<1> QED
  BY <1>1, <1>2, <1>3, <1>4, AppendIs

\* Each operation of the lock is one of the line.
LEMMA DrawAsks ==
  ASSUME TypeOK, Window, InLine, InLine',
         NEW t \in Threads, NEW place \in {"readSpin", "writeSpin"}, Draw(t, place)
  PROVE  \E r \in Abstract!Request : Abstract!Ask(r)
<1>1. /\ Waiting' = Waiting \cup {t} /\ Writing' = Writing /\ Reading' = Reading
      /\ Queue' = Queue \cup {t}
      /\ t \notin Waiting /\ t \notin Writing /\ t \notin Reading /\ t \notin Queue
  BY DEF Draw, Goto, Waiting, Writing, Reading, Queue, TypeOK
<1>2. /\ UNCHANGED reads /\ tk' = [tk EXCEPT ![t] = tickets]
      /\ pc' = [pc EXCEPT ![t] = place]
  BY DEF Draw, Goto
<1>3. \A s \in Waiting : /\ s # t /\ s \in Threads
                         /\ Place'[s] = Place[s] /\ Requests'[s] = Requests[s]
  <2> SUFFICES ASSUME NEW s \in Waiting
               PROVE  /\ s # t /\ s \in Threads
                      /\ Place'[s] = Place[s] /\ Requests'[s] = Requests[s]
    OBVIOUS
  <2>1. s # t /\ s \in Threads /\ s \in Waiting'
    BY <1>1 DEF Waiting
  <2>2. tk'[s] = tk[s] /\ pc'[s] = pc[s]
    BY <1>2, <2>1 DEF TypeOK
  <2> QED
    BY <1>1, <1>2, <2>1, <2>2 DEF Place, Requests, RequestOf, Distance
<1>4. Place'[t] = Cardinality(Waiting) + 1
  <2>1. tk'[t] = tickets /\ t \in Waiting'
    BY <1>1, <1>2 DEF TypeOK
  <2>2. Place'[t] = Ahead(reads, tickets) - Cardinality(Writing) + 1
    BY <1>1, <1>2, <2>1 DEF Place, Distance
  <2>3. Cardinality(Queue) < Word
    <3>1. Queue \cup {t} \in SUBSET Threads
      BY DEF Queue, Waiting, Writing
    <3>2. Cardinality(Queue \cup {t}) <= Word
      <4>1. IsFiniteSet(Queue \cup {t}) /\ Cardinality(Queue \cup {t}) <= Cardinality(Threads)
        BY <3>1, FS_Subset, ThreadsAssumption
      <4> QED
        BY <4>1, FS_CardinalityType, ThreadsAssumption, WordAssumption
    <3>3. Cardinality(Queue \cup {t}) = Cardinality(Queue) + 1
      BY <1>1, LockSizes, FS_AddElement
    <3> QED
      BY <3>2, <3>3, LockSizes, WordAssumption
  <2>4. Ahead(reads, tickets) = Cardinality(Queue)
    BY <2>3, LockSizes, WordAssumption DEF Window, Past, Ahead, TypeOK, Words
  <2> QED
    BY <2>2, <2>4, WaitingFinite
<1>5. Line' = Append(Line, Requests'[t])
  BY <1>1, <1>3, <1>4, LineGrows
<1>6. Requests'[t] \in Abstract!Request /\ Requests'[t].who = t
  <2>1. t \in Waiting'
    BY <1>1
  <2> QED
    BY <2>1 DEF Requests, RequestOf, InLine
<1>7. ASSUME NEW k \in DOMAIN Line PROVE Line[k].who # t
  <2>1. k \in 1 .. Cardinality(Waiting)
    BY DEF InLine
  <2>2. PICK s \in Waiting : Place[s] = k
    BY <2>1 DEF InLine
  <2>3. Line[k] = RequestOf(s)
    BY <2>2 DEF InLine, Requests
  <2> QED
    BY <1>3, <2>3 DEF RequestOf
<1>8. Abstract!Ask(Requests'[t])
  BY <1>1, <1>5, <1>6, <1>7 DEF Abstract!Ask
<1> QED
  BY <1>6, <1>8

LEMMA TurnStutters ==
  ASSUME TypeOK, InLine, InLine', NEW t \in Threads,
         ReadTurn(t) \/ LoadReads(t) \/ LoadWrites(t)
  PROVE  UNCHANGED Abstract!lock
<1>1. /\ Waiting' = Waiting /\ Writing' = Writing /\ Reading' = Reading
      /\ UNCHANGED <<reads, tk>>
  BY DEF ReadTurn, LoadReads, LoadWrites, Goto, Waiting, Writing, Reading, TypeOK
<1>2. \A s \in Waiting : pc'[s] = "writeSpin" <=> pc[s] = "writeSpin"
  BY DEF ReadTurn, LoadReads, LoadWrites, Goto, Waiting, TypeOK
<1>3. Place' = Place
  BY <1>1 DEF Place, Distance
<1>4. Requests' = Requests
  BY <1>1, <1>2 DEF Requests, RequestOf
<1>5. Line' = Line
  BY <1>1, <1>3, <1>4, LineStays
<1> QED
  BY <1>1, <1>5 DEF Abstract!lock

LEMMA AdmitGrants ==
  ASSUME TypeOK, Window, InLine, InLine', NEW t \in Threads, ReadAdmit(t)
  PROVE  Abstract!GrantRead
<1>1. t \in Waiting /\ tk[t] = reads /\ Writing = {} /\ Writing' = {}
  BY WriterAlone DEF ReadAdmit, Goto, Window, Waiting, Writing
<1>2. Reading' = Reading \cup {t} /\ Waiting' = Waiting \ {t}
  BY DEF ReadAdmit, Goto, Reading, Waiting, TypeOK
<1>3. reads' = Succ(reads) /\ UNCHANGED tk /\ pc' = [pc EXCEPT ![t] = "reading"]
  BY DEF ReadAdmit, Goto
<1>4. Cardinality(Writing) = 0 /\ Cardinality(Writing') = 0
  BY <1>1, FS_EmptySet
<1>5. Place[t] = 1
  <2>1. Distance(t) = 0
    BY <1>1, WordAssumption DEF Distance, Ahead, TypeOK, Words
  <2> QED
    BY <1>1, <1>4, <2>1 DEF Place
<1>6. ASSUME NEW s \in Waiting \ {t}
      PROVE  Place'[s] = Place[s] - 1 /\ Requests'[s] = Requests[s]
  <2>1. s \in Waiting /\ s \in Waiting' /\ s \in Threads /\ pc'[s] = pc[s]
    BY <1>2, <1>3 DEF Waiting, TypeOK
  <2>2. tk[s] \in Words /\ reads \in Words /\ tk[s] # reads
    BY <1>1, <2>1 DEF TypeOK, Window, Queue
  <2>3. Ahead(Succ(reads), tk[s]) = Ahead(reads, tk[s]) - 1 /\ Ahead(reads, tk[s]) \in Int
    BY <2>2, AheadSucc
  <2>4. /\ Place'[s] = Ahead(Succ(reads), tk[s]) - 0 + 1
        /\ Place[s] = Ahead(reads, tk[s]) - 0 + 1
    BY <1>3, <1>4, <2>1 DEF Place, Distance
  <2> QED
    BY <2>1, <2>3, <2>4 DEF Requests, RequestOf
<1>7. Line # <<>> /\ Head(Line) = Requests[t] /\ Line' = Tail(Line)
  BY <1>1, <1>2, <1>5, <1>6, LineMoves
<1>8. Requests[t].who = t /\ Requests[t].mode = "read"
  BY <1>1 DEF ReadAdmit, Requests, RequestOf
<1> QED
  BY <1>1, <1>2, <1>7, <1>8 DEF Abstract!GrantRead

LEMMA WriterGranted ==
  ASSUME TypeOK, Window, InLine, InLine', NEW t \in Threads, WriteTurn(t)
  PROVE  Abstract!GrantWrite
<1>1. /\ t \in Waiting /\ tk[t] = writes /\ t \in Queue
      /\ pc[t] = "writeSpin" /\ pc' = [pc EXCEPT ![t] = "writing"]
      /\ UNCHANGED <<reads, tk>>
  BY DEF WriteTurn, Goto, Waiting, Queue
<1>2. reads = writes /\ Reading = {}
  BY <1>1, WriterTurn
<1>3. Writing = {}
  <2> SUFFICES ASSUME NEW s \in Writing PROVE FALSE
    OBVIOUS
  <2>1. s \in Queue /\ tk[s] = tk[t]
    BY <1>1, <1>2 DEF Queue, Window
  <2>2. s = t
    BY <1>1, <2>1 DEF Window
  <2> QED
    BY <1>1, <2>2 DEF Writing
<1>4. Waiting' = Waiting \ {t} /\ Writing' = {t} /\ Reading' = Reading
  BY <1>1, <1>3 DEF Waiting, Writing, Reading, TypeOK
<1>5. Cardinality(Writing) = 0 /\ Cardinality(Writing') = 1
  BY <1>3, <1>4, FS_EmptySet, FS_Singleton
<1>6. Place[t] = 1
  <2>1. Distance(t) = 0
    BY <1>1, <1>2, WordAssumption DEF Distance, Ahead, TypeOK, Words
  <2> QED
    BY <1>1, <1>5, <2>1 DEF Place
<1>7. ASSUME NEW s \in Waiting \ {t}
      PROVE  Place'[s] = Place[s] - 1 /\ Requests'[s] = Requests[s]
  <2>1. s \in Waiting /\ s \in Waiting' /\ s \in Threads /\ pc'[s] = pc[s]
    BY <1>1, <1>4 DEF Waiting, TypeOK
  <2>2. tk[s] \in Words /\ reads \in Words
    BY <2>1 DEF TypeOK
  <2>3. Ahead(reads, tk[s]) \in Int
    BY <2>2, WordAssumption DEF Ahead, Words
  <2>4. /\ Place'[s] = Ahead(reads, tk[s]) - 1 + 1
        /\ Place[s] = Ahead(reads, tk[s]) - 0 + 1
    BY <1>1, <1>5, <2>1 DEF Place, Distance
  <2> QED
    BY <2>1, <2>3, <2>4 DEF Requests, RequestOf
<1>8. Line # <<>> /\ Head(Line) = Requests[t] /\ Line' = Tail(Line)
  BY <1>1, <1>4, <1>6, <1>7, LineMoves
<1>9. Requests[t].who = t /\ Requests[t].mode = "write"
  BY <1>1 DEF Requests, RequestOf
<1> QED
  BY <1>2, <1>3, <1>4, <1>8, <1>9 DEF Abstract!GrantWrite

LEMMA UnlockLeaves ==
  ASSUME TypeOK, Window, Fresh, InLine, InLine', NEW t \in Threads,
         ReadUnlock(t) \/ (StoreAccess(t) /\ ~carried')
  PROVE  Abstract!Leave(t)
<1>1. /\ Waiting' = Waiting /\ t \notin Waiting
      /\ tk' = [tk EXCEPT ![t] = 0] /\ pc' = [pc EXCEPT ![t] = "idle"]
  BY DEF ReadUnlock, StoreAccess, Leave, Goto, Waiting, TypeOK
<1>2. /\ Reading' = Reading \ {t} /\ Writing' = Writing \ {t}
      /\ t \in Reading \cup Writing
  BY <1>1 DEF ReadUnlock, StoreAccess, Reading, Writing, TypeOK
<1>3. \A s \in Waiting : /\ s \in Threads /\ s # t
                         /\ tk'[s] = tk[s] /\ pc'[s] = pc[s] /\ tk[s] \in Words
  BY <1>1 DEF Waiting, TypeOK
<1>4. Requests' = Requests
  BY <1>1, <1>3 DEF Requests, RequestOf
<1>5. ASSUME NEW s \in Waiting
      PROVE  Distance(s) - Cardinality(Writing)
             = Ahead(reads', tk'[s]) - Cardinality(Writing')
  <2>1. CASE ReadUnlock(t)
    <3>1. Writing' = Writing /\ UNCHANGED reads
      BY <1>2, <2>1 DEF ReadUnlock, Writing
    <3> QED
      BY <3>1, <1>3 DEF Distance
  <2>2. CASE StoreAccess(t) /\ ~carried'
    <3>1. t \in Writing /\ tk[t] = reads /\ reads = writes
      BY <2>2 DEF StoreAccess, Writing, Window
    <3>2. Writing = {t} /\ Writing' = {}
      BY <1>2, <3>1, WriterAlone
    <3>3. Cardinality(Writing) = 1 /\ Cardinality(Writing') = 0
      BY <3>2, FS_Singleton, FS_EmptySet
    <3>4. reads' = Succ(reads)
      BY <2>2 DEF StoreAccess, Fresh
    <3>5. tk[s] # reads
      BY <3>1, <1>3 DEF Window, Queue
    <3>6. Ahead(Succ(reads), tk[s]) = Ahead(reads, tk[s]) - 1 /\ Ahead(reads, tk[s]) \in Int
      BY <1>3, <3>5, AheadSucc DEF TypeOK
    <3> QED
      BY <1>3, <3>3, <3>4, <3>6 DEF Distance
  <2> QED
    BY <2>1, <2>2
<1>6. Place' = Place
  BY <1>1, <1>5 DEF Place, Distance
<1>7. Line' = Line
  BY <1>1, <1>4, <1>6, LineStays
<1> QED
  BY <1>2, <1>7 DEF Abstract!Leave

LEMMA LineStep ==
  ASSUME TypeOK, Window, Fresh, InLine, InLine', [Next]_vars, ~carried'
  PROVE  [Abstract!Next]_(Abstract!lock)
<1>1. ASSUME NEW t \in Threads, NEW place \in {"readSpin", "writeSpin"}, Draw(t, place)
      PROVE  Abstract!Next
  BY <1>1, DrawAsks DEF Abstract!Next
<1>2. ASSUME NEW t \in Threads, Step(t)
      PROVE  [Abstract!Next]_(Abstract!lock)
  <2>1. CASE ReadTurn(t) \/ LoadReads(t) \/ LoadWrites(t)
    BY <2>1, TurnStutters
  <2>2. CASE ReadAdmit(t)
    BY <2>2, AdmitGrants DEF Abstract!Next
  <2>3. CASE WriteTurn(t)
    BY <2>3, WriterGranted DEF Abstract!Next
  <2>4. CASE ReadUnlock(t) \/ StoreAccess(t)
    BY <2>4, UnlockLeaves DEF Abstract!Next
  <2> QED
    BY <1>2, <2>1, <2>2, <2>3, <2>4 DEF Step
<1>3. CASE UNCHANGED vars
  <2>1. /\ Waiting' = Waiting /\ Writing' = Writing /\ Reading' = Reading
        /\ UNCHANGED <<reads, tk, pc>>
    BY <1>3 DEF vars, Waiting, Writing, Reading
  <2>2. Place' = Place /\ Requests' = Requests
    BY <2>1 DEF Place, Requests, RequestOf, Distance
  <2>3. Line' = Line
    BY <2>1, <2>2, LineStays
  <2> QED
    BY <2>1, <2>3 DEF Abstract!lock
<1> QED
  BY <1>1, <1>2, <1>3 DEF Next

\* The counters implement a first-come first-served read-write lock until the
\* carry: every step of the four operations is one of a line of requests.
THEOREM Implements == Spec => ImplementsFairRWLock
<1>1. Init => Abstract!Init
  <2> SUFFICES ASSUME Init PROVE Abstract!Init
    OBVIOUS
  <2>1. Waiting = {} /\ Reading = {} /\ Writing = {} /\ Cardinality(Waiting) = 0
    BY FS_EmptySet DEF Init, Waiting, Reading, Writing
  <2>2. Line = <<>>
    BY <2>1 DEF Line
  <2> QED
    BY <2>1, <2>2 DEF Abstract!Init
<1> DEFINE Inv == TypeOK /\ WindowUntilCarry /\ LoadsStayFresh
<1>2. Inv /\ Inv' /\ [Next]_vars => [carried' \/ Abstract!Next]_(Abstract!lock)
  <2> SUFFICES ASSUME Inv, Inv', [Next]_vars, ~carried'
               PROVE  [Abstract!Next]_(Abstract!lock)
    OBVIOUS
  <2>1. ~carried
    BY CarryStays DEF TypeOK
  <2>2. TypeOK /\ Window /\ Fresh /\ InLine
    BY <2>1, Places DEF WindowUntilCarry, LoadsStayFresh
  <2>3. InLine'
    <3>1. TypeOK' /\ Window' => InLine'
      BY Places, PTL
    <3> QED
      BY <3>1 DEF WindowUntilCarry
  <2> QED
    BY <2>2, <2>3, LineStep
<1>3. Spec => []Inv
  BY WindowInvariant, PTL
<1> QED
  BY <1>1, <1>2, <1>3, PTL DEF Spec, ImplementsFairRWLock
=============================================================================
