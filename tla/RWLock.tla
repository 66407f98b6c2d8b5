------------------------------- MODULE RWLock -------------------------------
(***************************************************************************)
(* Utils::RWLock (include/utils/RWLock.h): the ticket read-write lock that *)
(* guards arrays, maps and the module cache.  Everybody draws a ticket; a  *)
(* reader waits for _reads to show it and passes the turn on at once, a    *)
(* writer waits for _writes, which only counts who has left.  _reads and   *)
(* _writes are the two halves of the 64-bit _access that writeUnlock       *)
(* stores.                                                                 *)
(***************************************************************************)
EXTENDS Wrap, FiniteSets

CONSTANT Threads

\* Counters are machine words, and there are not more threads than values.
ASSUME ThreadsAssumption ==
  /\ Word % 2 = 0
  /\ IsFiniteSet(Threads)
  /\ Cardinality(Threads) <= Word

VARIABLES reads,     \* _reads: tickets admitted
          writes,    \* _writes: tickets given back
          tickets,   \* _tickets: tickets drawn
          tk,        \* the local tk of readLock and writeLock, per thread
          pc,        \* where each thread is
          loaded,    \* what writeUnlock has loaded so far, per thread
          carried    \* history: has a carry left the low half of _access?

vars == <<reads, writes, tickets, tk, pc, loaded, carried>>

Modes == {"idle", "readSpin", "readAdmit", "reading",
          "writeSpin", "writing", "loadedReads", "loadedWrites", "loadedBoth"}

Reading == {t \in Threads : pc[t] = "reading"}
Writing == {t \in Threads : pc[t] \in {"writing", "loadedReads", "loadedWrites", "loadedBoth"}}
Waiting == {t \in Threads : pc[t] \in {"readSpin", "readAdmit", "writeSpin"}}
Queue   == Waiting \cup Writing

NothingLoaded == [reads |-> 0, writes |-> 0]

Init == /\ reads = 0
        /\ writes = 0
        /\ tickets = 0
        /\ tk = [t \in Threads |-> 0]
        /\ pc = [t \in Threads |-> "idle"]
        /\ loaded = [t \in Threads |-> NothingLoaded]
        /\ carried = FALSE

Goto(t, place) == pc' = [pc EXCEPT ![t] = place]

\* The end of a lock operation; its local variables are gone.
Leave(t) == Goto(t, "idle") /\ tk' = [tk EXCEPT ![t] = 0]

\* auto tk = _tickets.fetch_add(1), the first step of both lock operations.
Draw(t, place) == /\ pc[t] = "idle"
                  /\ tk' = [tk EXCEPT ![t] = tickets]
                  /\ tickets' = Succ(tickets)
                  /\ Goto(t, place)
                  /\ UNCHANGED <<reads, writes, loaded, carried>>

\* readLock: the load that ends the spin, then _reads.fetch_add(1).
ReadTurn(t) == /\ pc[t] = "readSpin"
               /\ tk[t] = reads
               /\ Goto(t, "readAdmit")
               /\ UNCHANGED <<reads, writes, tickets, tk, loaded, carried>>

ReadAdmitLate(t) == /\ pc[t] = "readAdmit"       \* mutant: the turn is kept
                    /\ Goto(t, "reading")
                    /\ UNCHANGED <<reads, writes, tickets, tk, loaded, carried>>

ReadAdmit(t) == /\ pc[t] = "readAdmit"
                /\ reads' = Succ(reads)
                /\ Goto(t, "reading")
                /\ UNCHANGED <<writes, tickets, tk, loaded, carried>>

\* readUnlock: _writes.fetch_add(1).
ReadUnlock(t) == /\ pc[t] = "reading"
                 /\ writes' = Succ(writes)
                 /\ Leave(t)
                 /\ UNCHANGED <<reads, tickets, loaded, carried>>

\* writeLock: the load that ends the spin.
WriteTurnOnReads(t) == /\ pc[t] = "writeSpin"    \* mutant: spins on _reads
                       /\ tk[t] = reads
                       /\ Goto(t, "writing")
                       /\ UNCHANGED <<reads, writes, tickets, tk, loaded, carried>>

WriteTurn(t) == /\ pc[t] = "writeSpin"
                /\ tk[t] = writes
                /\ Goto(t, "writing")
                /\ UNCHANGED <<reads, writes, tickets, tk, loaded, carried>>

\* writeUnlock loads both halves, in the order the compiler likes, ...
LoadReads(t) == /\ pc[t] \in {"writing", "loadedWrites"}
                /\ loaded' = [loaded EXCEPT ![t] = [reads |-> reads, writes |-> loaded[t].writes]]
                /\ Goto(t, IF pc[t] = "writing" THEN "loadedReads" ELSE "loadedBoth")
                /\ UNCHANGED <<reads, writes, tickets, tk, carried>>

LoadWrites(t) == /\ pc[t] \in {"writing", "loadedReads"}
                 /\ loaded' = [loaded EXCEPT ![t] = [reads |-> loaded[t].reads, writes |-> writes]]
                 /\ Goto(t, IF pc[t] = "writing" THEN "loadedWrites" ELSE "loadedBoth")
                 /\ UNCHANGED <<reads, writes, tickets, tk, carried>>

\* ... and stores (reads + 1ul) | ((writes + 1ul) << 32ul): a 64-bit sum, so
\* that the carry out of the low half is or-ed into the lowest bit of the
\* high half.
SetLowBit(x) == IF x % 2 = 0 THEN x + 1 ELSE x

StoreReadsOnly(t) ==                             \* mutant: only readers are let in
  /\ pc[t] = "loadedBoth"
  /\ reads' = Succ(loaded[t].reads)
  /\ carried' = (carried \/ loaded[t].reads = Word - 1)
  /\ loaded' = [loaded EXCEPT ![t] = NothingLoaded]
  /\ Leave(t)
  /\ UNCHANGED <<writes, tickets>>

StoreWide(t) ==                                  \* mutant: the halves do not wrap
  /\ pc[t] = "loadedBoth"
  /\ reads' = loaded[t].reads + 1
  /\ writes' = loaded[t].writes + 1
  /\ loaded' = [loaded EXCEPT ![t] = NothingLoaded]
  /\ Leave(t)
  /\ UNCHANGED <<tickets, carried>>

StoreAccess(t) ==
  /\ pc[t] = "loadedBoth"
  /\ reads' = Succ(loaded[t].reads)
  /\ writes' = IF loaded[t].reads = Word - 1
               THEN SetLowBit(Succ(loaded[t].writes))
               ELSE Succ(loaded[t].writes)
  /\ carried' = (carried \/ loaded[t].reads = Word - 1)
  /\ loaded' = [loaded EXCEPT ![t] = NothingLoaded]
  /\ Leave(t)
  /\ UNCHANGED <<tickets>>

Step(t) == \/ ReadTurn(t) \/ ReadAdmit(t) \/ ReadUnlock(t)
           \/ WriteTurn(t) \/ LoadReads(t) \/ LoadWrites(t) \/ StoreAccess(t)

Next == \E t \in Threads : Draw(t, "readSpin") \/ Draw(t, "writeSpin") \/ Step(t)

\* A thread in the lock keeps running: the destructors of Read and Write end
\* every critical section, and no thread has to ask for the lock.
Fairness == \A t \in Threads : WF_vars(Step(t))

Spec == Init /\ [][Next]_vars /\ Fairness

-----------------------------------------------------------------------------
TypeOK == /\ reads \in Words
          /\ writes \in Words
          /\ tickets \in Words
          /\ tk \in [Threads -> Words]
          /\ pc \in [Threads -> Modes]
          /\ loaded \in [Threads -> [reads : Words, writes : Words]]
          /\ carried \in BOOLEAN

\* A writer is alone: what the comments of MapObject and ArrayObject call the
\* exclusive mode.
ExclusiveMode == \A s \in Writing, t \in Reading \cup Writing : s = t

\* The same, for as long as no writer has left while _reads was at its maximum.
ExclusiveUntilCarry == ~carried => ExclusiveMode

\* What writeUnlock has loaded is still what the counters hold when it stores
\* their sum: nobody else moves them in between.
Fresh == \A t \in Threads :
           /\ pc[t] \in {"loadedReads", "loadedBoth"} => loaded[t].reads = reads
           /\ pc[t] \in {"loadedWrites", "loadedBoth"} => loaded[t].writes = writes

LoadsStayFresh == ~carried => Fresh

\* n past x, around the wrap.
Past(x, n) == IF x + n < Word THEN x + n ELSE x + n - Word

\* How far a thread's ticket is from being admitted.
Distance(t) == Ahead(reads, tk[t])

\* The readers inside separate _writes from _reads, the queue separates _reads
\* from _tickets, the tickets of the queue are distinct and fill that window,
\* and only the first of them acts: what makes the lock exclusive.
Window == /\ reads = Past(writes, Cardinality(Reading))
          /\ tickets = Past(reads, Cardinality(Queue))
          /\ \A t \in Queue : Distance(t) < Cardinality(Queue)
          /\ \A s, t \in Queue : tk[s] = tk[t] => s = t
          /\ \A t \in Writing : tk[t] = reads /\ reads = writes
          /\ \A t \in Threads : pc[t] = "readAdmit" => tk[t] = reads

WindowUntilCarry == ~carried => Window

\* Readers and writers are served: whoever draws a ticket gets in, unless the
\* carry happens.
EveryoneEnters ==
  [](~carried) =>
    \A t \in Threads : /\ pc[t] = "readSpin" ~> pc[t] = "reading"
                       /\ pc[t] = "writeSpin" ~> pc[t] = "writing"
-----------------------------------------------------------------------------
\* What the abstract lock of FairRWLock keeps instead of counters: the requests
\* that wait, in the order they drew their tickets.
RequestOf(t) == [who  |-> t,
                 mode |-> IF pc[t] = "writeSpin" THEN "write" ELSE "read"]

Line == [k \in 1 .. Cardinality(Waiting) |->
          RequestOf(CHOOSE t \in Waiting :
                      Cardinality({s \in Waiting : Distance(s) < Distance(t)}) = k - 1)]

Abstract == INSTANCE FairRWLock WITH line <- Line, readers <- Reading, writers <- Writing

\* Until the carry, every step of the lock is a step of a line of requests
\* that are granted first come first served.
ImplementsFairRWLock ==
  Abstract!Init /\ [][carried' \/ Abstract!Next]_(Abstract!lock)
=============================================================================
