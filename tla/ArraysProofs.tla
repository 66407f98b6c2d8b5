---------------------------- MODULE ArraysProofs ----------------------------
(***************************************************************************)
(* Proofs about arrays that threads share, for any number of threads,      *)
(* arrays, calls and items:                                                *)
(*                                                                         *)
(*   - the locks are held as they should, and a thread leaves the bounds   *)
(*     of a vector only in the ways of MemorySafe;                         *)
(*   - arrays hold items and results are lists, whatever is inserted,      *)
(*     removed, overwritten and repeated (TypeOK);                         *)
(*   - an iterator is faithful to its array (IteratorFaithful);            *)
(*   - a call that nobody disturbs means what the language says            *)
(*     (AloneMeans).                                                       *)
(*                                                                         *)
(* An index, a slice and an iterator are checked where they are used, so   *)
(* that the first invariant has to say nothing of them.  A comparison is   *)
(* not: it goes by the sizes it read at first, and what makes it safe is   *)
(* that they still are the sizes as long as nobody else has stored         *)
(* anything.  ContentInv, on top of it, is what the vectors hold: it needs *)
(* that slices are within the bounds they were computed for, and what the  *)
(* loops of removeSlice, setSlice and repeat make of a sequence.           *)
(* AloneInv is what an undisturbed call has found out on its way, as the   *)
(* language names it; lemmas without threads say that those loops do what  *)
(* ListMeaning does with sets of positions.                                *)
(***************************************************************************)
EXTENDS Arrays, Lines

IsSlice(s) == s = [begin |-> s.begin, count |-> s.count, step |-> s.step, stop |-> s.stop]

Shape == /\ pc = [t \in Threads |-> pc[t]]
         /\ call = [t \in Threads |-> call[t]]
         /\ at = [t \in Threads |-> at[t]]
         /\ disturbed = [t \in Threads |-> disturbed[t]]
         /\ lock \in [ArrayNames -> [read : SUBSET Threads, write : SUBSET Threads]]
         /\ \A t \in Threads : IsSlice(at[t])
         /\ \A t \in Threads : pc[t] # "idle" => Uses(call[t]) \subseteq ArrayNames

\* A thread that compares knows both sizes unless someone has stored something
\* since, and sees a difference only at a place that is within both.
Knows(t) ==
  /\ pc[t] \in {"scan", "differ"} /\ call[t].op = "compare" /\ ~disturbed[t] =>
       at[t].begin = Size(Array(t)) /\ at[t].stop = Size(Source(t))
  /\ pc[t] = "differ" => /\ call[t].op = "compare"
                         /\ at[t].count < at[t].begin /\ at[t].count < at[t].stop

Inv == Shape /\ LocksHeld /\ MemorySafe /\ \A t \in Threads : Knows(t)

\* What a step of t may do that keeps the invariant: it changes nothing of other
\* threads but tells them when it stores something, ...
Frame(t) == /\ pc' = [pc EXCEPT ![t] = pc'[t]]
            /\ call' = [call EXCEPT ![t] = call'[t]]
            /\ at' = [at EXCEPT ![t] = at'[t]]
            /\ IsSlice(at'[t])
            /\ pc'[t] # "idle" => Uses(call'[t]) \subseteq ArrayNames

Tells(t) == /\ disturbed' = [u \in Threads |-> disturbed'[u]]
            /\ \A u \in Threads \ {t} : \/ items' = items /\ disturbed'[u] = disturbed[u]
                                        \/ pc[u] # "idle" => disturbed'[u]

\* ... and it takes a lock that is free for it, gives one back, or does neither.
Locks(t) ==
  \/ lock' = lock
  \/ \E a \in ArrayNames : Unlock(t, a)
  \/ \E a \in ArrayNames : /\ lock[a].write = {}
                           /\ \/ lock' = [lock EXCEPT ![a].read = @ \cup {t}]
                              \/ lock[a].read = {} /\ lock' = [lock EXCEPT ![a].write = {t}]

Holds(t) == pc[t] = "locked" =>
  t \in (IF call[t].op \in Reads \cup {"concatCopy"} THEN lock[Array(t)].read ELSE lock[Array(t)].write)

\* A step that keeps to this keeps the invariant for the other threads, too.
LEMMA StepKeepsInv ==
  ASSUME Inv, NEW t \in Threads, broken = Nobody, broken' = Nobody,
         Frame(t), Tells(t), Locks(t), Holds(t)', Knows(t)'
  PROVE  Inv'
PROOF
<1>1. \A u \in Threads \ {t} : pc'[u] = pc[u] /\ call'[u] = call[u] /\ at'[u] = at[u]
  BY DEF Frame, Inv, Shape
<1>. DEFINE Typed == lock' \in [ArrayNames -> [read : SUBSET Threads, write : SUBSET Threads]]
            Alone == \A a \in ArrayNames :
                       \/ lock'[a].write = {}
                       \/ lock'[a].read = {} /\ \E u \in Threads : lock'[a].write = {u}
            Kept  == \A a \in ArrayNames : /\ lock[a].read \ {t} \subseteq lock'[a].read
                                           /\ lock[a].write \ {t} \subseteq lock'[a].write
<1>2. Typed /\ Alone /\ Kept
  <2>1. CASE lock' = lock
    BY <2>1 DEF Inv, Shape, LocksHeld
  <2>2. ASSUME NEW a \in ArrayNames, Unlock(t, a)  PROVE Typed /\ Alone /\ Kept
    <3>1. \A b \in ArrayNames :
            lock'[b] = IF b = a THEN [read |-> lock[a].read \ {t}, write |-> lock[a].write \ {t}]
                                ELSE lock[b]
      BY <2>2 DEF Inv, Shape, Unlock
    <3>2. Typed
      BY <2>2 DEF Inv, Shape, Unlock
    <3>3. Alone
      BY <3>1 DEF Inv, LocksHeld
    <3>4. Kept
      BY <3>1
    <3>. QED BY <3>2, <3>3, <3>4
  <2>3. ASSUME NEW a \in ArrayNames, lock[a].write = {}, lock' = [lock EXCEPT ![a].read = @ \cup {t}]
        PROVE  Typed /\ Alone /\ Kept
    BY <2>3 DEF Inv, Shape, LocksHeld
  <2>4. ASSUME NEW a \in ArrayNames, lock[a].write = {}, lock[a].read = {},
               lock' = [lock EXCEPT ![a].write = {t}]
        PROVE  Typed /\ Alone /\ Kept
    BY <2>4 DEF Inv, Shape, LocksHeld
  <2>. QED BY <2>1, <2>2, <2>3, <2>4 DEF Locks
<1>3. Shape'
  <2>1. \A u \in Threads : IsSlice(at'[u])
    BY <1>1 DEF Inv, Shape, Frame, IsSlice
  <2>2. \A u \in Threads : pc'[u] # "idle" => Uses(call'[u]) \subseteq ArrayNames
    BY <1>1 DEF Inv, Shape, Frame
  <2>3. /\ pc' = [u \in Threads |-> pc'[u]]
        /\ call' = [u \in Threads |-> call'[u]]
        /\ at' = [u \in Threads |-> at'[u]]
    BY DEF Inv, Shape, Frame
  <2>. QED BY <1>2, <2>1, <2>2, <2>3 DEF Shape, Tells, IsSlice
<1>4. LocksHeld'
  <2>1. ASSUME NEW u \in Threads, pc'[u] = "locked"
        PROVE  u \in (IF call'[u].op \in Reads \cup {"concatCopy"} THEN lock'[Array(u)'].read
                                                                    ELSE lock'[Array(u)'].write)
    <3>1. CASE u = t  BY <2>1, <3>1 DEF Holds, Array
    <3>2. CASE u # t
      <4>1. Array(u) \in ArrayNames  BY <2>1, <3>2, <1>1 DEF Inv, Shape, Uses, Array
      <4>. QED BY <2>1, <3>2, <4>1, <1>1, <1>2 DEF Inv, LocksHeld, Array
    <3>. QED BY <3>1, <3>2
  <2>. QED BY <1>2, <2>1 DEF LocksHeld
<1>5. MemorySafe'
  BY DEF MemorySafe
<1>6. ASSUME NEW u \in Threads  PROVE Knows(u)'
  <2>1. CASE u = t  BY <2>1
  <2>2. CASE u # t
    BY <2>2, <1>1 DEF Inv, Knows, Tells, Array, Source, Size
  <2>. QED BY <2>1, <2>2
<1>. QED BY <1>3, <1>4, <1>5, <1>6 DEF Inv

\* A step of t as above, after which t holds the locks and knows the sizes it should.
Keeps(t) == /\ broken = Nobody /\ broken' = Nobody
            /\ Frame(t) /\ Tells(t) /\ Locks(t) /\ Holds(t)' /\ Knows(t)'

\* In such a step, t goes to p in its call, and its slice becomes s.
Moves(t, p, s) == /\ pc' = [pc EXCEPT ![t] = p] /\ call' = call
                  /\ at' = [at EXCEPT ![t] = s]

\* A step is none of a machine word, zero, or another number; Top is no number.
LEMMA Steps ==
  /\ \A x : x \in HugeSteps \/ x = 0 \/ x \notin HugeSteps \cup {0}
  /\ 0 \notin HugeSteps /\ 1 \notin HugeSteps /\ Absent \notin HugeSteps
  /\ \A x \in HugeSteps : x \notin Int /\ x # Absent
BY BoundaryAssumption DEF HugeSteps

\* Every step keeps the invariant, most of them as Keeps says; a step that leaves
\* the bounds of a vector does it in one of the ways of MemorySafe.
LEMMA NextKeepsInv ==
  ASSUME Inv, [Next]_vars  PROVE Inv'
PROOF
<1>1. CASE UNCHANGED vars
  <2>1. UNCHANGED <<items, mods, lock, named, pc, at, noted, call, broken, disturbed>>
    BY <1>1 DEF vars, work, history
  <2>2. Shape' /\ LocksHeld'
    BY <2>1 DEF Inv, Shape, LocksHeld, Array, IsSlice, Uses, FromArray
  <2>3. MemorySafe'
    BY <2>1 DEF Inv, MemorySafe, Excused, Size, Uses, FromArray
  <2>4. \A t \in Threads : Knows(t)'
    BY <2>1 DEF Inv, Knows, Array, Source, Size
  <2>. QED BY <2>2, <2>3, <2>4 DEF Inv
<1>2. ASSUME NEW a \in Literals, Forget(a)  PROVE Inv'
  BY <1>2 DEF Forget, work, history, Inv, Shape, LocksHeld, MemorySafe, Excused, Knows, Array, Source,
              Size, IsSlice, Uses, FromArray
<1>3. ASSUME NEW t \in Threads, Break(t), Excused(t)  PROVE Inv'
  <2>. USE DEF work, history, Array, Source, Size, Uses, FromArray
  <2>1. Excused(t)'
    BY <1>3 DEF Break, Excused
  <2>2. Shape' /\ LocksHeld' /\ \A u \in Threads : Knows(u)'
    BY <1>3 DEF Break, Inv, Shape, LocksHeld, Knows, IsSlice
  <2>. QED BY <1>3, <2>1, <2>2 DEF Inv, MemorySafe, Break
<1>4. ASSUME NEW t \in Threads, NEW c \in CallsOf[t], Call(t, c)  PROVE Keeps(t)
  <2>1. Entry(c) \notin {"idle", "locked", "scan", "differ"}
    BY DEF Entry, Indexed, Sliced, Scans
  <2>2. Uses(c) \subseteq ArrayNames
    BY CallsAssumption DEF CallOK
  <2>. QED BY <1>4, <2>1, <2>2 DEF Call, Goto, Keeps, Frame, Tells, Locks, Holds, Knows, Inv, Shape
<1>5. ASSUME NEW t \in Threads, NEW p, NEW s, IsSlice(s), pc[t] # "idle", Moves(t, p, s)
      PROVE  Frame(t) /\ pc'[t] = p /\ at'[t] = s /\ call'[t] = call[t]
  BY <1>5 DEF Moves, Frame, Inv, Shape
<1>6. ASSUME NEW t \in Threads, NEW p, NEW s, IsSlice(s), pc[t] # "idle", Moves(t, p, s),
             p \notin {"locked", "scan", "differ"}, broken = Nobody, broken' = Nobody,
             Tells(t), Locks(t)
      PROVE  Keeps(t)
  <2>1. Frame(t) /\ pc'[t] = p
    BY <1>5, <1>6
  <2>. QED BY <1>6, <2>1 DEF Keeps, Holds, Knows
<1>7. ASSUME NEW t \in Threads  PROVE IsSlice(at[t]) /\ at = [at EXCEPT ![t] = at[t]]
  BY DEF Inv, Shape
<1>8. ASSUME NEW t \in Threads, UNCHANGED <<items, disturbed, lock>>  PROVE Tells(t) /\ Locks(t)
  BY <1>8 DEF Tells, Locks, Inv, Shape
<1>9. ASSUME NEW t \in Threads, NEW p, pc[t] # "idle", pc' = [pc EXCEPT ![t] = p],
             p \notin {"locked", "scan", "differ"}, broken = Nobody, broken' = Nobody,
             UNCHANGED <<at, call>>, Tells(t), Locks(t)
      PROVE  Keeps(t)
  BY <1>6, <1>7, <1>9 DEF Moves
<1>10. ASSUME NEW t \in Threads, Resolve(t)  PROVE Keeps(t)
  <2>1. ASSUME NEW s, Resolved(t, s), pc[t] # "idle", broken = Nobody,
               UNCHANGED <<items, lock, call, broken, disturbed>>
        PROVE  Keeps(t)
    <3>1. PICK p \in {"done", "gather", "lock"} : pc' = [pc EXCEPT ![t] = p]
      BY <2>1 DEF Resolved, Finish, Goto
    <3> DEFINE slice == [begin |-> s[1], count |-> s[2], step |-> s[3], stop |-> 0]
    <3>2. Moves(t, p, slice)
      BY <2>1, <3>1 DEF Resolved, Moves
    <3>3. IsSlice(slice)
      BY DEF IsSlice
    <3>4. Tells(t) /\ Locks(t)
      BY <1>8, <2>1
    <3>. HIDE DEF slice
    <3>. QED BY <1>6, <2>1, <3>2, <3>3, <3>4
  <2>2. ASSUME NEW p \in {"lock", "start", "stop"}, NEW s, pc[t] # "idle", broken = Nobody, IsSlice(s),
               pc' = [pc EXCEPT ![t] = p], at' = [at EXCEPT ![t] = s],
               UNCHANGED <<items, lock, call, broken, disturbed>>
        PROVE  Keeps(t)
    <3>1. Moves(t, p, s)  BY <2>2 DEF Moves
    <3>2. Tells(t) /\ Locks(t)  BY <1>8, <2>2
    <3>. QED BY <1>6, <2>2, <3>1, <3>2
  <2>3. ASSUME Goto(t, "done") \/ Goto(t, "default"), pc[t] # "idle", broken = Nobody,
               UNCHANGED <<at, items, lock, call, broken, disturbed>>
        PROVE  Keeps(t)
    <3>1. Tells(t) /\ Locks(t)  BY <1>8, <2>3
    <3>. QED BY <1>9, <2>3, <3>1 DEF Goto
  <2>4. \A i : /\ IsSlice([at[t] EXCEPT !.begin = i]) /\ IsSlice([at[t] EXCEPT !.stop = i])
               /\ [at EXCEPT ![t].begin = i] = [at EXCEPT ![t] = [at[t] EXCEPT !.begin = i]]
               /\ [at EXCEPT ![t].stop = i] = [at EXCEPT ![t] = [at[t] EXCEPT !.stop = i]]
    BY DEF Inv, Shape, IsSlice
  <2>5. CASE Index(t)
    <3>1. /\ pc[t] = "index" /\ broken = Nobody
          /\ UNCHANGED <<items, lock, call, broken, disturbed>>
      BY <2>5 DEF Index, At, history
    <3>2. \/ Goto(t, "done") /\ UNCHANGED at
          \/ \E i : at' = [at EXCEPT ![t].begin = i] /\ Goto(t, "lock")
      BY <2>5 DEF Index, Finish
    <3>. QED BY <2>2, <2>3, <2>4, <3>1, <3>2 DEF Goto
  <2>6. CASE Stride(t)
    <3>1. /\ pc[t] = "stride" /\ broken = Nobody
          /\ UNCHANGED <<items, lock, call, broken, disturbed>>
      BY <2>6 DEF Stride, At, history
    <3>2. \/ \E s : Resolved(t, s)
          \/ Goto(t, "default") /\ UNCHANGED at
      BY <2>6 DEF Stride
    <3>. QED BY <2>1, <2>3, <3>1, <3>2
  <2>9. CASE Default(t)
    <3>1. /\ pc[t] = "default" /\ broken = Nobody
          /\ UNCHANGED <<items, lock, call, broken, disturbed>>
      BY <2>9 DEF Default, At, history
    <3>2. \/ \E s : Resolved(t, s)
          \/ Goto(t, "done") /\ UNCHANGED at
          \/ \E b, e, d : /\ at' = [at EXCEPT ![t] = [begin |-> b, stop |-> e, step |-> d, count |-> 0]]
                          /\ Goto(t, "stop")
      BY <2>9, Steps DEF Default, Finish
    <3>3. \A b, e, d : IsSlice([begin |-> b, stop |-> e, step |-> d, count |-> 0])
      BY DEF IsSlice
    <3>. QED BY <2>1, <2>2, <2>3, <3>1, <3>2, <3>3 DEF Goto
  <2>7. CASE Stop(t)
    <3>1. /\ pc[t] = "stop" /\ broken = Nobody
          /\ UNCHANGED <<items, lock, call, broken, disturbed>>
      BY <2>7 DEF Stop, At, history
    <3>2. \/ Goto(t, "done") /\ UNCHANGED at
          \/ \E i : at' = [at EXCEPT ![t].stop = i] /\ Goto(t, "start")
      BY <2>7 DEF Stop, Finish
    <3>. QED BY <2>2, <2>3, <2>4, <3>1, <3>2 DEF Goto
  <2>8. CASE Start(t)
    <3>1. /\ pc[t] = "start" /\ broken = Nobody
          /\ UNCHANGED <<items, lock, call, broken, disturbed>>
      BY <2>8 DEF Start, At, history
    <3>2. \/ \E s : Resolved(t, s)
          \/ Goto(t, "done") /\ UNCHANGED at
      BY <2>8 DEF Start, Finish
    <3>. QED BY <2>1, <2>3, <3>1, <3>2
  <2>. QED BY <1>10, <2>5, <2>6, <2>7, <2>8, <2>9 DEF Resolve
<1>11. ASSUME NEW t \in Threads, Prepare(t)  PROVE Keeps(t)
  <2>1. CASE Gather(t) \/ Empty(t) \/ Iterator(t)
    <3>1. /\ pc[t] # "idle" /\ broken = Nobody
          /\ UNCHANGED <<at, items, lock, call, broken>>
      BY <2>1 DEF Gather, Empty, Iterator, At, history
    <3>2. Locks(t) /\ Tells(t)
      BY <2>1 DEF Gather, Empty, Iterator, Locks, Tells, Inv, Shape
    <3>3. \E p \in {"lock", "done"} : pc' = [pc EXCEPT ![t] = p]
      BY <2>1 DEF Gather, Empty, Iterator, Finish, Goto
    <3>. QED BY <1>9, <3>1, <3>2, <3>3
  <2>2. CASE CopyLock(t)
    <3>1. /\ pc[t] # "idle" /\ broken = Nobody /\ Source(t) \in ArrayNames
          /\ UNCHANGED <<at, items, call, broken, disturbed>>
          /\ pc' = [pc EXCEPT ![t] = "copying"]
      BY <2>2 DEF CopyLock, At, history, Goto, Inv, Shape, Uses, FromArray, Source
    <3>2. Locks(t) /\ Tells(t)
      BY <2>2, <3>1 DEF CopyLock, Locks, Tells, Inv, Shape
    <3>. QED BY <1>9, <3>1, <3>2
  <2>3. CASE Copy(t)
    <3>1. /\ pc[t] # "idle" /\ broken = Nobody /\ Source(t) \in ArrayNames
          /\ UNCHANGED <<at, items, call, broken, disturbed>>
          /\ \E p \in {"lock", "done"} : pc' = [pc EXCEPT ![t] = p]
      BY <2>3 DEF Copy, At, history, Goto, Finish, Inv, Shape, Uses, FromArray, Source
    <3>2. Locks(t) /\ Tells(t)
      BY <2>3, <3>1 DEF Copy, Locks, Tells, Inv, Shape
    <3>. QED BY <1>9, <3>1, <3>2
  <2>4. CASE Lock(t)
    <3>1. /\ pc[t] # "idle" /\ broken = Nobody /\ Array(t) \in ArrayNames
          /\ UNCHANGED <<at, items, call, broken, disturbed>>
          /\ pc' = [pc EXCEPT ![t] = "locked"]
      BY <2>4 DEF Lock, history, Goto, Inv, Shape, Uses, Array
    <3>2. Locks(t) /\ Tells(t)
      BY <2>4, <3>1 DEF Lock, Locks, Tells, Inv, Shape
    <3>3. Frame(t) /\ pc'[t] = "locked"
      BY <1>5, <1>7, <3>1 DEF Moves
    <3>4. Holds(t)'
      BY <2>4, <3>1, <3>3 DEF Lock, Holds, Array, Inv, Shape
    <3>. QED BY <3>1, <3>2, <3>3, <3>4 DEF Keeps, Knows
  <2>. QED BY <1>11, <2>1, <2>2, <2>3, <2>4 DEF Prepare
<1>12. ASSUME NEW t \in Threads, pc[t] = "locked", broken = Nobody,
              \E r : Leave(t, r) \/ \E s : Store(t, s, r)
       PROVE  Keeps(t)
  <2>1. Array(t) \in ArrayNames
    BY <1>12 DEF Inv, Shape, Uses, Array
  <2>2. Locks(t) /\ Tells(t)
    BY <1>12, <2>1 DEF Leave, Store, Locks, Tells, Inv, Shape
  <2>3. UNCHANGED <<at, call, broken>> /\ pc' = [pc EXCEPT ![t] = "done"]
    BY <1>12 DEF Leave, Store, Finish, Goto, history
  <2>. QED BY <1>9, <1>12, <2>2, <2>3
<1>13. ASSUME NEW t \in Threads, Work(t)  PROVE Keeps(t) \/ (Break(t) /\ Excused(t))
  <2>. USE DEF At
  <2>1. CASE \/ GetItem(t) \/ SetItem(t) \/ DelItem(t) \/ GetSlice(t) \/ DelSlice(t)
             \/ AppendItem(t) \/ Concat(t) \/ RepeatCopy(t)
    BY <1>12, <2>1 DEF GetItem, SetItem, DelItem, GetSlice, DelSlice, AppendItem, Concat, RepeatCopy
  <2>2. CASE SetSlice(t)
    BY <1>12, <2>2 DEF SetSlice, Stale, Own, Excused, Array, Source
  <2>3. CASE ConcatCopy(t)
    <3>1. /\ pc[t] = "locked" /\ broken = Nobody /\ Array(t) \in ArrayNames
          /\ UNCHANGED <<at, call, items, broken, disturbed>> /\ Unlock(t, Array(t))
          /\ pc' = [pc EXCEPT ![t] = "copy"]
      BY <2>3 DEF ConcatCopy, Goto, history, Inv, Shape, Uses, Array
    <3>2. Locks(t) /\ Tells(t)
      BY <3>1 DEF Locks, Tells, Inv, Shape
    <3>. QED BY <1>9, <3>1, <3>2
  <2>4. CASE Repeat(t)
    BY <1>12, <2>4 DEF Repeat, Excused, Size, Array
  <2>5. CASE IteratorNext(t)
    <3>1. /\ pc[t] = "locked" /\ broken = Nobody /\ Array(t) \in ArrayNames
          /\ call[t].op = "for"
      BY <2>5 DEF IteratorNext, Inv, Shape, Uses, Array
    <3>2. CASE \E r : Leave(t, r)
      BY <1>12, <3>1, <3>2
    <3>3. CASE Goto(t, "lock") /\ Unlock(t, Array(t)) /\ UNCHANGED <<at, call, items, broken, disturbed>>
      <4>1. Locks(t) /\ Tells(t)
        BY <3>1, <3>3 DEF Locks, Tells, Inv, Shape
      <4>. QED BY <1>9, <3>1, <3>3, <4>1 DEF Goto
    <3>4. CASE LastReference(t) /\ Break(t)
      <4>1. t \in lock[Array(t)].read
        BY <3>1 DEF Inv, LocksHeld, Reads
      <4>. QED BY <3>1, <3>4, <4>1 DEF LastReference, Excused, Array
    <3>. QED BY <2>5, <3>2, <3>3, <3>4 DEF IteratorNext, history
  <2>. QED BY <1>13, <2>1, <2>2, <2>3, <2>4, <2>5 DEF Work
<1>14. ASSUME NEW t \in Threads, Scan(t)  PROVE Keeps(t) \/ (Break(t) /\ Excused(t))
  <2>. USE DEF At
  <2>1. pc[t] \in {"sizes", "scan", "differ"} /\ broken = Nobody /\ call[t].op \in Scans
    BY <1>14 DEF Scan, Sizes, Search, Compare, Differ, Scans
  <2>2. ASSUME NEW r, Scanned(t, r)  PROVE Keeps(t)
    <3>1. /\ UNCHANGED <<at, call, items, lock, broken, disturbed>>
          /\ pc' = [pc EXCEPT ![t] = "done"]
      BY <2>2 DEF Scanned, Finish, Goto, history
    <3>2. Locks(t) /\ Tells(t)
      BY <1>8, <3>1
    <3>. QED BY <1>9, <2>1, <3>1, <3>2
  <2>3. ASSUME Advance(t), pc[t] = "scan"  PROVE Keeps(t)
    <3> DEFINE slice == [at[t] EXCEPT !.count = @ + 1]
    <3>1. /\ UNCHANGED <<pc, call, items, lock, broken, disturbed>>
          /\ at' = [at EXCEPT ![t] = slice]
      BY <2>3 DEF Advance, history, Inv, Shape
    <3>2. IsSlice(slice) /\ slice.begin = at[t].begin /\ slice.stop = at[t].stop
      BY DEF Inv, Shape, IsSlice
    <3>. HIDE DEF slice
    <3>3. Moves(t, "scan", slice)
      BY <2>3, <3>1 DEF Moves, Inv, Shape
    <3>4. Frame(t) /\ pc'[t] = "scan" /\ at'[t] = slice /\ call'[t] = call[t]
      BY <1>5, <2>1, <3>2, <3>3
    <3>5. Knows(t)'
      BY <2>3, <3>1, <3>2, <3>4 DEF Knows, Inv, Array, Source, Size
    <3>. QED BY <1>8, <2>1, <3>1, <3>4, <3>5 DEF Keeps, Holds
  <2>4. CASE Sizes(t)
    <3>1. PICK n \in {0, Size(Source(t))} :
            /\ Moves(t, "scan", [begin |-> Size(Array(t)), count |-> 0, step |-> 0, stop |-> n])
            /\ call[t].op = "compare" => n = Size(Source(t))
      BY <2>4 DEF Sizes, Moves, Goto, history
    <3> DEFINE slice == [begin |-> Size(Array(t)), count |-> 0, step |-> 0, stop |-> n]
    <3>2. IsSlice(slice) /\ slice.begin = Size(Array(t)) /\ slice.stop = n
      BY DEF IsSlice
    <3>. HIDE DEF slice
    <3>3. Frame(t) /\ pc'[t] = "scan" /\ at'[t] = slice /\ call'[t] = call[t]
      BY <1>5, <2>1, <3>1, <3>2 DEF slice
    <3>4. UNCHANGED <<items, lock, broken, disturbed>>
      BY <2>4 DEF Sizes
    <3>5. Knows(t)'
      BY <3>1, <3>2, <3>3, <3>4 DEF Knows, Array, Source, Size
    <3>. QED BY <1>8, <2>1, <3>3, <3>4, <3>5 DEF Keeps, Holds
  <2>5. CASE Search(t)
    <3>1. MayRead(Array(t), at[t].count) /\ MayMiss(Array(t), at[t].count) => lock[Array(t)].write # {}
      BY DEF MayMiss
    <3>. QED BY <2>1, <2>2, <2>3, <2>5, <3>1 DEF Search, Excused, Uses, Array
  <2>6. ASSUME call[t].op = "compare", ~disturbed[t], pc[t] \in {"scan", "differ"},
               at[t].count < at[t].begin, at[t].count < at[t].stop,
               MayMiss(Array(t), at[t].count) \/ MayMiss(Source(t), at[t].count)
        PROVE  lock[Array(t)].write # {} \/ lock[Source(t)].write # {}
    BY <2>6 DEF Inv, Knows, MayMiss, MayRead
  <2>7. call[t].op = "compare" => Uses(call[t]) = {Array(t), Source(t)}
    BY DEF Uses, FromArray, Array, Source
  <2>8. CASE Compare(t)
    <3>1. call[t].op = "compare" /\ pc[t] = "scan"
      BY <2>8 DEF Compare
    <3>2. ASSUME Goto(t, "differ"), at[t].count < at[t].begin, at[t].count < at[t].stop,
                 UNCHANGED <<items, lock, call, at, broken, disturbed>>
          PROVE  Keeps(t)
      <4>1. Frame(t) /\ pc'[t] = "differ" /\ at'[t] = at[t] /\ call'[t] = call[t]
        BY <1>5, <1>7, <3>1, <3>2 DEF Moves, Goto
      <4>2. Knows(t)'
        BY <3>1, <3>2, <4>1 DEF Inv, Knows, Array, Source, Size
      <4>. QED BY <1>8, <2>1, <3>2, <4>1, <4>2 DEF Keeps, Holds
    <3>. QED BY <2>2, <2>3, <2>6, <2>7, <2>8, <3>1, <3>2 DEF Compare, Excused, Scans, history
  <2>9. CASE Differ(t)
    <3>1. /\ call[t].op = "compare" /\ pc[t] = "differ"
          /\ at[t].count < at[t].begin /\ at[t].count < at[t].stop
      BY <2>9 DEF Differ, Inv, Knows
    <3>. QED BY <2>2, <2>6, <2>7, <2>9, <3>1 DEF Differ, Excused, Scans
  <2>. QED BY <1>14, <2>4, <2>5, <2>8, <2>9 DEF Scan
<1>15. ASSUME NEW t \in Threads, Return(t)  PROVE Keeps(t)
  <2>1. /\ pc[t] = "done" /\ broken = Nobody
        /\ UNCHANGED <<items, lock, call, broken>>
        /\ Moves(t, "idle", NoSlice)
    BY <1>15 DEF Return, Moves, Goto
  <2>2. Tells(t) /\ Locks(t)
    BY <1>15 DEF Return, Tells, Locks, Inv, Shape
  <2>3. IsSlice(NoSlice)
    BY DEF IsSlice, NoSlice
  <2>. QED BY <1>6, <2>1, <2>2, <2>3
<1>16. ASSUME NEW t \in Threads, Keeps(t)  PROVE Inv'
  BY <1>16, StepKeepsInv DEF Keeps
<1>17. ASSUME NEW t \in Threads, Step(t)  PROVE Inv'
  BY <1>3, <1>10, <1>11, <1>13, <1>14, <1>15, <1>16, <1>17 DEF Step
<1>. QED BY <1>1, <1>2, <1>4, <1>16, <1>17 DEF Next

\* ArrayObject: a thread that works under the lock of an array holds it, alone
\* when it may write; and nobody leaves the bounds of a vector but by repeating
\* in place, by the pointer of setSlice to a source that has changed, by a scan
\* next to a writer, or by an iterator that drops the array it has locked.
THEOREM LocksAndMemory == Spec => [](LocksHeld /\ MemorySafe)
PROOF
<1>1. Init => Inv
  BY DEF Init, Inv, Shape, LocksHeld, MemorySafe, Knows, IsSlice, NoSlice
<1>2. Inv /\ [Next]_vars => Inv'
  BY NextKeepsInv
<1>3. Inv => LocksHeld /\ MemorySafe
  BY DEF Inv
<1>. QED BY <1>1, <1>2, <1>3, PTL DEF Spec

-----------------------------------------------------------------------------
(* What the operations leave in an array is a sequence of items again.     *)

LEMMA EraseIs ==
  ASSUME NEW S, NEW s \in Seq(S), NEW i \in Nat, NEW n \in Nat, i + n <= Len(s)
  PROVE  /\ Erase(s, i, n) \in Seq(S) /\ Len(Erase(s, i, n)) = Len(s) - n
         /\ \A p \in 1 .. Len(s) - n : Erase(s, i, n)[p] = IF p <= i THEN s[p] ELSE s[p + n]
<1> DEFINE m == Len(s)
           a == SubSeq(s, 1, i)
           b == SubSeq(s, i + n + 1, m)
<1>1. m \in Nat /\ i <= m /\ i + n <= m /\ \A p \in 1 .. m : s[p] \in S
  BY ElementOfSeq, LenProperties
<1> HIDE DEF m
<1>2. a \in Seq(S) /\ Len(a) = i /\ \A p \in 1 .. i : a[p] = s[p]
  <2>1. 1 \in Int /\ i \in Int /\ \A p \in 1 .. i : s[p] \in S
    BY <1>1
  <2>2. /\ a \in Seq(S) /\ Len(a) = IF 1 <= i THEN i - 1 + 1 ELSE 0
        /\ \A p \in 1 .. i - 1 + 1 : a[p] = s[1 + p - 1]
    BY <2>1, SubSeqProperties
  <2> QED
    BY <2>2
<1>3. b \in Seq(S) /\ Len(b) = m - (i + n) /\ \A p \in 1 .. m - (i + n) : b[p] = s[p + (i + n)]
  <2> DEFINE k == i + n + 1
  <2>1. k \in Int /\ m \in Int /\ 1 <= k
    BY <1>1
  <2>2. \A p \in k .. m : s[p] \in S
    BY <1>1, <2>1
  <2> HIDE DEF k
  <2>3. /\ SubSeq(s, k, m) \in Seq(S) /\ Len(SubSeq(s, k, m)) = IF k <= m THEN m - k + 1 ELSE 0
        /\ \A p \in 1 .. m - k + 1 : SubSeq(s, k, m)[p] = s[k + p - 1]
    BY <2>1, <2>2, SubSeqProperties
  <2>4. k = i + n + 1
    BY DEF k
  <2>5. b = SubSeq(s, k, m)
    BY DEF k
  <2> HIDE DEF b
  <2>6. b \in Seq(S) /\ Len(b) = m - (i + n)
    BY <1>1, <2>3, <2>4, <2>5
  <2>7. ASSUME NEW p \in 1 .. m - (i + n) PROVE b[p] = s[p + (i + n)]
    <3>1. p \in 1 .. m - k + 1 /\ k + p - 1 = p + (i + n)
      BY <1>1, <2>4
    <3> QED
      BY <2>3, <2>5, <3>1
  <2> QED
    BY <2>6, <2>7
<1>4. Erase(s, i, n) = a \o b
  BY DEF Erase, m
<1> HIDE DEF a, b
<1>5. /\ a \o b \in Seq(S) /\ Len(a \o b) = Len(a) + Len(b)
      /\ \A p \in 1 .. Len(a) + Len(b) : (a \o b)[p] = IF p <= Len(a) THEN a[p] ELSE b[p - Len(a)]
  <2>1. a \in Seq(S) /\ b \in Seq(S)
    BY <1>2, <1>3
  <2> QED
    BY <2>1, ConcatProperties
<1>6. Len(a) + Len(b) = m - n /\ Len(a) = i
  BY <1>1, <1>2, <1>3
<1>7. ASSUME NEW p \in 1 .. m - n PROVE (a \o b)[p] = IF p <= i THEN s[p] ELSE s[p + n]
  <2>1. (a \o b)[p] = IF p <= i THEN a[p] ELSE b[p - i]
    BY <1>5, <1>6
  <2>2. p <= i => p \in 1 .. i
    BY <1>1
  <2>3. ~(p <= i) => p - i \in 1 .. m - (i + n) /\ (p - i) + (i + n) = p + n
    BY <1>1
  <2> QED
    BY <1>2, <1>3, <2>1, <2>2, <2>3
<1> QED
  BY <1>4, <1>5, <1>6, <1>7 DEF m

LEMMA InsertIs ==
  ASSUME NEW S, NEW s \in Seq(S), NEW i \in Nat, i <= Len(s), NEW v \in Seq(S)
  PROVE  Insert(s, i, v) \in Seq(S)
<1> DEFINE m == Len(s)
           k == i + 1
<1>1. m \in Nat /\ i <= m /\ \A p \in 1 .. m : s[p] \in S
  BY ElementOfSeq, LenProperties
<1> HIDE DEF m
<1>2. SubSeq(s, 1, i) \in Seq(S)
  <2>1. 1 \in Int /\ i \in Int /\ \A p \in 1 .. i : s[p] \in S
    BY <1>1
  <2> QED
    BY <2>1, SubSeqProperties
<1>3. SubSeq(s, k, m) \in Seq(S)
  <2>1. k \in Int /\ m \in Int /\ \A p \in k .. m : s[p] \in S
    BY <1>1
  <2> HIDE DEF k
  <2> QED
    BY <2>1, SubSeqProperties
<1>4. Insert(s, i, v) = SubSeq(s, 1, i) \o v \o SubSeq(s, k, m)
  BY DEF Insert, m
<1> HIDE DEF k
<1>5. SubSeq(s, 1, i) \o v \in Seq(S)
  BY <1>2, ConcatProperties
<1>6. (SubSeq(s, 1, i) \o v) \o SubSeq(s, k, m) \in Seq(S)
  BY <1>3, <1>5, ConcatProperties
<1> QED
  BY <1>4, <1>6

\* A function on 1 .. n is a sequence.
LEMMA MadeSeq ==
  ASSUME NEW S, NEW n \in Nat, NEW f \in [1 .. n -> S]
  PROVE  f \in Seq(S) /\ Len(f) = n
OBVIOUS

LEMMA ReverseIs ==
  ASSUME NEW S, NEW s \in Seq(S)
  PROVE  Reverse(s) \in Seq(S) /\ Len(Reverse(s)) = Len(s)
<1> DEFINE n == Len(s)
<1>1. n \in Nat /\ \A p \in 1 .. n : s[p] \in S
  BY ElementOfSeq, LenProperties
<1>2. Reverse(s) = [i \in 1 .. n |-> s[(n - i) + 1]]
  BY DEF Reverse
<1> HIDE DEF n
<1>3. \A i \in 1 .. n : (n - i) + 1 \in 1 .. n
  BY <1>1
<1>4. Reverse(s) \in [1 .. n -> S]
  BY <1>1, <1>2, <1>3
<1> QED
  BY <1>1, <1>4, MadeSeq DEF n

LEMMA RepeatedIs ==
  ASSUME NEW S, NEW s \in Seq(S), NEW count \in Nat
  PROVE  Repeated(s, count) \in Seq(S)
<1> DEFINE n == Len(s)
           m == count * n
<1>1. n \in Nat /\ \A p \in 1 .. n : s[p] \in S
  BY ElementOfSeq, LenProperties
<1>2. Repeated(s, count) = [p \in 1 .. m |-> s[((p - 1) % n) + 1]]
  BY DEF Repeated
<1> HIDE DEF n
<1>3. m \in Nat
  BY <1>1
<1>4. ASSUME NEW p \in 1 .. m PROVE ((p - 1) % n) + 1 \in 1 .. n
  <2>1. n # 0
    BY <1>1
  <2>2. n > 0 /\ p - 1 \in Nat
    BY <1>1, <1>3, <2>1
  <2>3. (p - 1) % n \in 0 .. n - 1
    BY <1>1, <2>2
  <2> QED
    BY <1>1, <2>3
<1> HIDE DEF m
<1>5. Repeated(s, count) \in [1 .. m -> S]
  BY <1>1, <1>2, <1>4
<1> QED
  BY <1>3, <1>5, MadeSeq

LEMMA TimesLeast ==
  ASSUME NEW a \in Nat, NEW b \in Nat, NEW c \in Nat, a <= b
  PROVE  a * c \in Nat /\ b * c \in Nat /\ a * c <= b * c
<1>1. PICK d \in Nat : b = a + d
  <2>1. b - a \in Nat /\ b = a + (b - a)
    OBVIOUS
  <2> QED
    BY <2>1
<1>2. b * c = a * c + d * c
  BY <1>1
<1>3. a * c \in Nat /\ d * c \in Nat
  OBVIOUS
<1> QED
  BY <1>2, <1>3

\* One turn of the loop of EraseEach.
EraseOne(slice, l) ==
  [s     |-> Erase(l.s, l.begin, 1),
   begin |-> (IF slice.step > 0 THEN l.begin - 1 ELSE l.begin) + slice.step]

EraseLoop(s, slice, n, f) ==
  f = [k \in 0 .. n |-> IF k = 0 THEN [s |-> s, begin |-> slice.begin] ELSE EraseOne(slice, f[k - 1])]

LEMMA EraseLoopIs ==
  ASSUME NEW s, NEW slice, slice.count \in Nat
  PROVE  \E f : EraseLoop(s, slice, slice.count, f) /\ EraseEach(s, slice) = f[slice.count].s
<1> DEFINE c == slice.count
           e == [s |-> s, begin |-> slice.begin]
           S == {n \in Nat : \E f : EraseLoop(s, slice, n, f)}
<1>1. 0 \in S
  <2> DEFINE f == [k \in 0 .. 0 |-> e]
  <2>1. \A k \in 0 .. 0 : k = 0
    OBVIOUS
  <2>2. f = [k \in 0 .. 0 |-> IF k = 0 THEN e ELSE EraseOne(slice, f[k - 1])]
    BY <2>1
  <2> HIDE DEF f
  <2>3. EraseLoop(s, slice, 0, f)
    BY <2>2 DEF EraseLoop
  <2> QED
    BY <2>3
<1>2. ASSUME NEW n \in Nat, n \in S PROVE n + 1 \in S
  <2>1. PICK f : EraseLoop(s, slice, n, f)
    BY <1>2
  <2> DEFINE g == [k \in 0 .. n + 1 |-> IF k = 0 THEN e ELSE EraseOne(slice, f[k - 1])]
  <2>2. \A k \in 0 .. n : f[k] = IF k = 0 THEN e ELSE EraseOne(slice, f[k - 1])
    BY <2>1 DEF EraseLoop
  <2>3. \A k \in 0 .. n : k \in 0 .. n + 1
    OBVIOUS
  <2>4. \A k \in 0 .. n : g[k] = f[k]
    BY <2>2, <2>3
  <2>5. \A k \in 0 .. n + 1 : k # 0 => k - 1 \in 0 .. n
    OBVIOUS
  <2>6. \A k \in 0 .. n + 1 : (IF k = 0 THEN e ELSE EraseOne(slice, f[k - 1]))
                              = (IF k = 0 THEN e ELSE EraseOne(slice, g[k - 1]))
    BY <2>4, <2>5
  <2>7. g = [k \in 0 .. n + 1 |-> IF k = 0 THEN e ELSE EraseOne(slice, g[k - 1])]
    BY <2>6
  <2> HIDE DEF g
  <2>8. EraseLoop(s, slice, n + 1, g)
    BY <2>7 DEF EraseLoop
  <2> QED
    BY <2>8
<1>3. c \in S
  <2> HIDE DEF S
  <2>1. Nat \subseteq S
    BY <1>1, <1>2, NatInd
  <2> QED
    BY <2>1
<1> DEFINE loop == CHOOSE f : EraseLoop(s, slice, c, f)
<1>4. EraseLoop(s, slice, c, loop)
  BY <1>3
<1>5. EraseEach(s, slice) = loop[c].s
  BY Zenon DEF EraseEach, EraseLoop, EraseOne
<1> HIDE DEF loop
<1> QED
  BY <1>4, <1>5

\* A slice that passed the range check.
InRange(n, c) == /\ c.begin \in Nat /\ c.count \in Nat \ {0} /\ c.step \in Int \ {0}
                 /\ ~OutOfRange(n, c)

\* The turn k of the loop erases at a place that is there.
LEMMA EraseEachIs ==
  ASSUME NEW S, NEW s \in Seq(S), NEW slice, InRange(Len(s), slice)
  PROVE  EraseEach(s, slice) \in Seq(S)
<1> DEFINE n == Len(s)
           c == slice.count
           b == slice.begin
           d == slice.step
           x == IF d > 0 THEN d - 1 ELSE d
<1>1. n \in Nat
  BY LenProperties
<1>2. /\ b \in Nat /\ c \in Nat \ {0} /\ d \in Int \ {0}
      /\ b < n /\ (d < 0 => (c - 1) * (-d) <= b) /\ (d > 0 => b + (c - 1) * d < n)
  <2>1. /\ b \in Nat /\ c \in Nat \ {0} /\ d \in Int \ {0}
        /\ ~(b >= n) /\ ~(d < 0 /\ b < (c - 1) * (-d)) /\ ~(d > 0 /\ b + (c - 1) * d >= n)
    BY Zenon DEF InRange, OutOfRange
  <2> HIDE DEF n, b, c, d
  <2>2. (c - 1) * (-d) \in Int /\ (c - 1) * d \in Int
    BY <2>1
  <2> QED
    BY <1>1, <2>1, <2>2
<1>3. PICK f : EraseLoop(s, slice, c, f) /\ EraseEach(s, slice) = f[c].s
  BY <1>2, EraseLoopIs
<1>4. \A k \in 0 .. c : f[k] = IF k = 0 THEN [s |-> s, begin |-> b] ELSE EraseOne(slice, f[k - 1])
  BY <1>3 DEF EraseLoop
<1> HIDE DEF n, b, c
<1> DEFINE P(k) == f[k].s \in Seq(S) /\ Len(f[k].s) = n - k /\ f[k].begin = b + k * x
           T == {k \in Nat : k <= c => P(k)}
<1>5. x \in Int
  BY <1>2
<1>6. 0 \in T
  <2>1. 0 \in 0 .. c
    BY <1>2
  <2>2. f[0] = [s |-> s, begin |-> b]
    BY <1>4, <2>1
  <2>3. b + 0 * x = b /\ n - 0 = n
    BY <1>1, <1>2, <1>5
  <2>4. f[0].s = s /\ f[0].begin = b
    BY <2>2
  <2>5. Len(s) = n
    BY DEF n
  <2> HIDE DEF x
  <2>6. P(0)
    BY <2>3, <2>4, <2>5
  <2> HIDE DEF P
  <2> QED
    BY <2>6
<1>7. ASSUME NEW k \in Nat, k \in T PROVE k + 1 \in T
  <2> SUFFICES ASSUME k + 1 <= c PROVE P(k + 1)
    OBVIOUS
  <2>1. P(k) /\ k <= c - 1 /\ k + 1 \in 0 .. c /\ (k + 1) - 1 = k /\ k + 1 # 0
    BY <1>2, <1>7
  <2> DEFINE i == f[k].begin
             r == f[k].s
  <2>2. f[k + 1] = EraseOne(slice, f[k])
    BY <1>4, <2>1
  <2>3. f[k + 1].s = Erase(r, i, 1) /\ f[k + 1].begin = (IF d > 0 THEN i - 1 ELSE i) + d
    BY <2>2 DEF EraseOne
  <2>4. r \in Seq(S) /\ Len(r) = n - k /\ i = b + k * x
    BY <2>1
  <2> HIDE DEF i, r, x
  <2>5. (k + 1) * x = k * x + x /\ k * x \in Int
    BY <1>5
  <2>6. i \in Nat /\ i + 1 <= n - k
    <3>1. CASE d > 0
      <4>1. d \in Nat /\ c - 1 \in Nat
        BY <1>2, <3>1
      <4>2. k * d <= (c - 1) * d /\ k * d \in Nat /\ (c - 1) * d \in Nat
        BY <2>1, <4>1, TimesLeast
      <4>3. x = d - 1 /\ x \in Nat
        BY <3>1, <4>1 DEF x
      <4> HIDE DEF d
      <4>4. k * x = k * d - k /\ k * x \in Nat
        <5>1. k * (d - 1) = k * d - k
          BY <4>1
        <5> QED
          BY <4>3, <5>1
      <4> USE DEF d
      <4> DEFINE u == k * d
                 v == (c - 1) * d
                 w == k * x
      <4>5. /\ u <= v /\ u \in Nat /\ v \in Nat /\ w = u - k /\ w \in Nat
            /\ i = b + w /\ b + v < n
        BY <1>2, <2>4, <3>1, <4>2, <4>4
      <4> HIDE DEF u, v, w
      <4> QED
        BY <1>1, <1>2, <4>5
    <3>2. CASE d < 0
      <4>1. -d \in Nat \ {0} /\ c - 1 \in Nat
        BY <1>2, <3>2
      <4>2. k * (-d) <= (c - 1) * (-d) /\ k * (-d) \in Nat /\ (c - 1) * (-d) \in Nat
        BY <2>1, <4>1, TimesLeast
      <4>3. k * x = -(k * (-d))
        <5>1. x = d /\ d \in Int
          BY <1>2, <3>2 DEF x
        <5> HIDE DEF d
        <5>2. k * d = -(k * (-d))
          BY <5>1
        <5> QED
          BY <5>1, <5>2
      <4>4. k * 1 <= k * (-d)
        <5> DEFINE y == -d
        <5>1. y \in Nat \ {0}
          BY <4>1
        <5> HIDE DEF y
        <5>2. 1 * k <= y * k
          BY <5>1, TimesLeast
        <5>3. 1 * k = k * 1 /\ y * k = k * y
          BY <5>1
        <5> QED
          BY <5>2, <5>3 DEF y
      <4> DEFINE u == k * (-d)
                 v == (c - 1) * (-d)
                 w == k * x
      <4>5. /\ u <= v /\ u \in Nat /\ v \in Nat /\ w = -u /\ k <= u
            /\ i = b + w /\ v <= b /\ b < n
        BY <1>2, <2>4, <3>2, <4>2, <4>3, <4>4
      <4> HIDE DEF u, v, w
      <4> QED
        BY <1>1, <1>2, <4>5
    <3> QED
      BY <1>2, <3>1, <3>2
  <2>7. Erase(r, i, 1) \in Seq(S) /\ Len(Erase(r, i, 1)) = (n - k) - 1
    <3>1. r \in Seq(S) /\ i \in Nat /\ 1 \in Nat /\ i + 1 <= Len(r)
      BY <2>4, <2>6
    <3>2. Erase(r, i, 1) \in Seq(S) /\ Len(Erase(r, i, 1)) = Len(r) - 1
      BY <3>1, EraseIs
    <3> QED
      BY <2>4, <3>2
  <2>8. (n - k) - 1 = n - (k + 1)
    BY <1>1
  <2>9. (IF d > 0 THEN i - 1 ELSE i) + d = b + (k + 1) * x
    <3>1. (IF d > 0 THEN i - 1 ELSE i) + d = i + x
      <4>1. d \in Int /\ i \in Int
        BY <1>2, <2>6
      <4> HIDE DEF d
      <4>2. CASE d > 0
        <5>1. x = d - 1
          BY <4>2 DEF x
        <5> QED
          BY <4>1, <4>2, <5>1
      <4>3. CASE ~(d > 0)
        <5>1. x = d
          BY <4>3 DEF x
        <5> QED
          BY <4>1, <4>3, <5>1
      <4> QED
        BY <4>2, <4>3
    <3> QED
      BY <1>2, <1>5, <2>4, <2>5, <3>1
  <2> QED
    BY <2>3, <2>7, <2>8, <2>9
<1>8. c \in T
  <2> HIDE DEF T
  <2>1. Nat \subseteq T
    BY <1>6, <1>7, NatInd
  <2> QED
    BY <1>2, <2>1
<1> QED
  BY <1>2, <1>3, <1>8 DEF n

\* The places of a slice that passed the range check are there, and no more of
\* them than there are items.
LEMMA SliceFits ==
  ASSUME NEW n \in Nat, NEW slice, InRange(n, slice)
  PROVE  /\ slice.count <= n
         /\ slice.begin < n
         /\ slice.step < 0 => (slice.count - 1) * (-slice.step) <= slice.begin
         /\ \A k \in Nat : k <= slice.count - 1 =>
              slice.begin + k * slice.step \in 0 .. n - 1
<1> DEFINE c == slice.count
           b == slice.begin
           d == slice.step
<1>1. /\ b \in Nat /\ c \in Nat \ {0} /\ d \in Int \ {0}
      /\ ~(b >= n) /\ ~(d < 0 /\ b < (c - 1) * (-d)) /\ ~(d > 0 /\ b + (c - 1) * d >= n)
  BY Zenon DEF InRange, OutOfRange
<1> HIDE DEF b, c, d
<1>2. c - 1 \in Nat
  BY <1>1
<1>3. CASE d > 0
  <2>1. d \in Nat /\ 1 <= d
    BY <1>1, <1>3
  <2> DEFINE v == (c - 1) * d
  <2>2. \A k \in Nat : k <= c - 1 => k * d \in Nat /\ k * d <= v /\ v \in Nat
    BY <1>2, <2>1, TimesLeast
  <2>3. 1 * (c - 1) <= d * (c - 1)
    BY <1>2, <2>1, TimesLeast
  <2>4. 1 * (c - 1) = c - 1 /\ d * (c - 1) = v
    BY <1>2, <2>1
  <2>5. b + v < n /\ v \in Nat
    <3>1. v \in Nat
      BY <1>2, <2>2
    <3>2. ~(b + v >= n)
      BY <1>1, <1>3
    <3> HIDE DEF v
    <3> QED
      BY <1>1, <3>1, <3>2
  <2> HIDE DEF v
  <2>6. \A k \in Nat : k <= c - 1 => b + k * d \in 0 .. n - 1
    <3> SUFFICES ASSUME NEW k \in Nat, k <= c - 1 PROVE b + k * d \in 0 .. n - 1
      OBVIOUS
    <3> DEFINE u == k * d
    <3>1. u \in Nat /\ u <= v
      BY <2>2
    <3> HIDE DEF u
    <3>2. b + u \in 0 .. n - 1
      BY <1>1, <2>5, <3>1
    <3> QED
      BY <3>2 DEF u
  <2>7. c <= n /\ b < n
    BY <1>1, <2>3, <2>4, <2>5
  <2>8. ~(d < 0)
    BY <2>1
  <2> QED
    BY <2>6, <2>7, <2>8 DEF b, c, d
<1>4. CASE d < 0
  <2> DEFINE y == -d
             v == (c - 1) * y
  <2>1. y \in Nat /\ 1 <= y
    BY <1>1, <1>4
  <2>2. \A k \in Nat : k * d = -(k * y)
    BY <1>1
  <2>3. ~(b < v)
    BY <1>1, <1>4
  <2> HIDE DEF y
  <2>4. \A k \in Nat : k <= c - 1 => k * y \in Nat /\ k * y <= v /\ v \in Nat
    BY <1>2, <2>1, TimesLeast
  <2>5. 1 * (c - 1) <= y * (c - 1)
    BY <1>2, <2>1, TimesLeast
  <2>6. 1 * (c - 1) = c - 1 /\ y * (c - 1) = v
    BY <1>2, <2>1
  <2>7. v \in Nat
    BY <1>2, <2>4
  <2> HIDE DEF v
  <2>8. v <= b /\ b < n
    BY <1>1, <2>3, <2>7
  <2>9. \A k \in Nat : k <= c - 1 => b + k * d \in 0 .. n - 1
    <3> SUFFICES ASSUME NEW k \in Nat, k <= c - 1 PROVE b + k * d \in 0 .. n - 1
      OBVIOUS
    <3> DEFINE u == k * y
               w == k * d
    <3>1. u \in Nat /\ u <= v /\ w = -u
      BY <2>2, <2>4
    <3> HIDE DEF u, w
    <3>2. b + w \in 0 .. n - 1
      BY <1>1, <2>7, <2>8, <3>1
    <3> QED
      BY <3>2 DEF w
  <2>10. c <= n
    BY <1>1, <2>5, <2>6, <2>8
  <2>11. (c - 1) * (-d) <= b
    BY <2>8 DEF v, y
  <2> QED
    BY <2>8, <2>9, <2>10, <2>11 DEF b, c, d
<1> QED
  BY <1>1, <1>3, <1>4

\* One turn of the loop of Overwritten, and the loop.
OverwriteOne(w, slice, values, own, k) ==
  LET to   == IF slice.step = -1 THEN slice.begin - slice.count + k + 1
              ELSE slice.begin + (k - 1) * slice.step + 1
      from == IF slice.step = -1 THEN slice.count - k + 1 ELSE k
  IN  [w EXCEPT ![to] = IF own THEN w[from] ELSE values[from]]

OverwriteLoop(s, slice, values, own, n, f) ==
  f = [k \in 0 .. n |-> IF k = 0 THEN s ELSE OverwriteOne(f[k - 1], slice, values, own, k)]

LEMMA OverwriteLoopIs ==
  ASSUME NEW s, NEW slice, NEW values, NEW own, slice.count \in Nat
  PROVE  \E f : /\ OverwriteLoop(s, slice, values, own, slice.count, f)
                /\ Overwritten(s, slice, values, own) = f[slice.count]
<1> DEFINE c == slice.count
           One(w, k) == OverwriteOne(w, slice, values, own, k)
           S == {n \in Nat : \E f : OverwriteLoop(s, slice, values, own, n, f)}
<1> HIDE DEF One
<1>0. \A n, f : OverwriteLoop(s, slice, values, own, n, f)
                  <=> f = [k \in 0 .. n |-> IF k = 0 THEN s ELSE One(f[k - 1], k)]
  BY DEF OverwriteLoop, One
<1>1. 0 \in S
  <2> DEFINE f == [k \in 0 .. 0 |-> s]
  <2>1. \A k \in 0 .. 0 : k = 0
    OBVIOUS
  <2>2. f = [k \in 0 .. 0 |-> IF k = 0 THEN s ELSE One(f[k - 1], k)]
    BY <2>1
  <2> HIDE DEF f
  <2>3. OverwriteLoop(s, slice, values, own, 0, f)
    BY <1>0, <2>2
  <2> QED
    BY <2>3
<1>2. ASSUME NEW n \in Nat, n \in S PROVE n + 1 \in S
  <2>1. PICK f : OverwriteLoop(s, slice, values, own, n, f)
    BY <1>2
  <2> DEFINE g == [k \in 0 .. n + 1 |-> IF k = 0 THEN s ELSE One(f[k - 1], k)]
  <2>2. \A k \in 0 .. n : f[k] = IF k = 0 THEN s ELSE One(f[k - 1], k)
    <3>1. f = [k \in 0 .. n |-> IF k = 0 THEN s ELSE One(f[k - 1], k)]
      BY <1>0, <2>1
    <3> QED
      BY <3>1
  <2>3. \A k \in 0 .. n : k \in 0 .. n + 1
    OBVIOUS
  <2>4. \A k \in 0 .. n : g[k] = f[k]
    BY <2>2, <2>3
  <2>5. \A k \in 0 .. n + 1 : k # 0 => k - 1 \in 0 .. n
    OBVIOUS
  <2>6. \A k \in 0 .. n + 1 : (IF k = 0 THEN s ELSE One(f[k - 1], k))
                              = (IF k = 0 THEN s ELSE One(g[k - 1], k))
    BY <2>4, <2>5
  <2>7. g = [k \in 0 .. n + 1 |-> IF k = 0 THEN s ELSE One(g[k - 1], k)]
    BY <2>6
  <2> HIDE DEF g
  <2>8. OverwriteLoop(s, slice, values, own, n + 1, g)
    BY <1>0, <2>7
  <2> QED
    BY <2>8
<1>3. c \in S
  <2> HIDE DEF S
  <2>1. Nat \subseteq S
    BY <1>1, <1>2, NatInd
  <2> QED
    BY <2>1
<1> DEFINE loop == CHOOSE f : OverwriteLoop(s, slice, values, own, c, f)
<1>4. OverwriteLoop(s, slice, values, own, c, loop)
  BY <1>3
<1>5. Overwritten(s, slice, values, own) = loop[c]
  BY Zenon DEF Overwritten, OverwriteLoop, OverwriteOne
<1> HIDE DEF loop
<1> QED
  BY <1>4, <1>5

\* setSlice, with as many values as places, keeps the length.
LEMMA OverwrittenIs ==
  ASSUME NEW S, NEW s \in Seq(S), NEW slice, NEW values \in Seq(S), NEW own,
         InRange(Len(s), slice), own \/ Len(values) = slice.count
  PROVE  Overwritten(s, slice, values, own) \in Seq(S)
<1> DEFINE n == Len(s)
           c == slice.count
           b == slice.begin
           d == slice.step
<1>1. n \in Nat /\ DOMAIN s = 1 .. n
  BY LenProperties
<1>2. /\ b \in Nat /\ c \in Nat \ {0} /\ d \in Int \ {0}
      /\ c <= n /\ b < n /\ (d < 0 => (c - 1) * (-d) <= b)
      /\ \A k \in Nat : k <= c - 1 => b + k * d \in 0 .. n - 1
  BY <1>1, SliceFits DEF InRange
<1>3. PICK f : OverwriteLoop(s, slice, values, own, c, f) /\ Overwritten(s, slice, values, own) = f[c]
  BY <1>2, OverwriteLoopIs
<1>4. \A k \in 0 .. c : f[k] = IF k = 0 THEN s ELSE OverwriteOne(f[k - 1], slice, values, own, k)
  BY <1>3 DEF OverwriteLoop
<1>5. s \in [1 .. n -> S] /\ (own \/ Len(values) = c) /\ DOMAIN values = 1 .. Len(values)
      /\ \A i \in 1 .. Len(values) : values[i] \in S
  BY <1>1, LenProperties, ElementOfSeq
<1> HIDE DEF n, b, c, d
<1> DEFINE T == {k \in Nat : k <= c => f[k] \in [1 .. n -> S]}
<1>6. 0 \in T
  <2>1. 0 \in 0 .. c /\ f[0] = s
    BY <1>2, <1>4
  <2> QED
    BY <1>5, <2>1
<1>7. ASSUME NEW k \in Nat, k \in T PROVE k + 1 \in T
  <2> SUFFICES ASSUME k + 1 <= c PROVE f[k + 1] \in [1 .. n -> S]
    OBVIOUS
  <2>1. f[k] \in [1 .. n -> S] /\ k <= c - 1 /\ k + 1 \in 0 .. c /\ (k + 1) - 1 = k /\ k + 1 # 0
    BY <1>2, <1>7
  <2> DEFINE w == f[k]
             to == IF d = -1 THEN b - c + (k + 1) + 1 ELSE b + ((k + 1) - 1) * d + 1
             from == IF d = -1 THEN c - (k + 1) + 1 ELSE k + 1
             v == IF own THEN w[from] ELSE values[from]
  <2>2. f[k + 1] = OverwriteOne(w, slice, values, own, k + 1)
    BY <1>4, <2>1
  <2>3. f[k + 1] = [w EXCEPT ![to] = v]
    BY <2>2 DEF OverwriteOne, b, c, d
  <2>4. from \in 1 .. c /\ from \in 1 .. n
    BY <1>1, <1>2, <2>1
  <2> HIDE DEF from
  <2>5. v \in S
    BY <1>5, <2>1, <2>4
  <2> HIDE DEF to, v
  <2> QED
    BY <2>1, <2>3, <2>5
<1>8. c \in T
  <2> HIDE DEF T
  <2>1. Nat \subseteq T
    BY <1>6, <1>7, NatInd
  <2> QED
    BY <1>2, <2>1
<1>9. f[c] \in [1 .. n -> S]
  BY <1>2, <1>8
<1> QED
  BY <1>1, <1>3, <1>9, MadeSeq

\* The places of a slice with the step 1 or -1 lie next to each other.
LEMMA RunFits ==
  ASSUME NEW n \in Nat, NEW slice, InRange(n, slice)
  PROVE  /\ slice.step = 1 => slice.begin + slice.count <= n
         /\ slice.step = -1 => /\ slice.begin - slice.count + 1 \in Nat
                               /\ slice.begin - slice.count + 1 + slice.count <= n
<1> DEFINE c == slice.count
           b == slice.begin
           d == slice.step
<1>1. /\ b \in Nat /\ c \in Nat \ {0} /\ d \in Int
      /\ c <= n /\ b < n /\ (d < 0 => (c - 1) * (-d) <= b)
      /\ \A k \in Nat : k <= c - 1 => b + k * d \in 0 .. n - 1
  BY SliceFits DEF InRange
<1> HIDE DEF b, c, d
<1>2. ASSUME d = 1 PROVE b + c <= n
  <2>1. c - 1 \in Nat /\ (c - 1) * 1 = c - 1
    BY <1>1
  <2>2. b + (c - 1) * 1 \in 0 .. n - 1
    BY <1>1, <1>2, <2>1
  <2> QED
    BY <1>1, <2>1, <2>2
<1>3. ASSUME d = -1 PROVE b - c + 1 \in Nat /\ b - c + 1 + c <= n
  <2>1. (c - 1) * (-(-1)) = c - 1
    BY <1>1
  <2>2. (c - 1) * (-(-1)) <= b
    BY <1>1, <1>3
  <2> QED
    BY <1>1, <2>1, <2>2
<1> QED
  BY <1>2, <1>3 DEF b, c, d

\* The length alone, of a sequence without a block.
LEMMA EraseLength ==
  ASSUME NEW S, NEW s \in Seq(S), NEW i \in Nat, NEW n \in Nat, i + n <= Len(s)
  PROVE  Erase(s, i, n) \in Seq(S) /\ Len(Erase(s, i, n)) = Len(s) - n
BY EraseIs

\* setSlice, with another number of values.
LEMMA SplicedIs ==
  ASSUME NEW S, NEW s \in Seq(S), NEW slice, NEW values \in Seq(S),
         InRange(Len(s), slice), slice.step \in {1, -1}
  PROVE  Spliced(s, slice, values) \in Seq(S)
<1> DEFINE n == Len(s)
           c == slice.count
           b == slice.begin
           d == slice.step
           low == b - c + 1
<1>1. /\ n \in Nat /\ b \in Nat /\ c \in Nat
      /\ d = 1 => b + c <= n
      /\ d = -1 => low \in Nat /\ low + c <= n
  BY RunFits, LenProperties DEF InRange
<1> HIDE DEF b, c, d, low
<1>2. ASSUME NEW i \in Nat, i + c <= n, NEW v \in Seq(S)
      PROVE  Insert(Erase(s, i, c), i, v) \in Seq(S)
  <2> DEFINE e == Erase(s, i, c)
  <2>1. e \in Seq(S) /\ Len(e) = n - c
    <3>1. c \in Nat /\ i + c <= Len(s)
      BY <1>1, <1>2
    <3>2. Erase(s, i, c) \in Seq(S) /\ Len(Erase(s, i, c)) = Len(s) - c
      BY <3>1, EraseLength
    <3> QED
      BY <3>2
  <2> HIDE DEF e, n
  <2>2. i <= Len(e)
    BY <1>1, <1>2, <2>1
  <2>3. Insert(e, i, v) \in Seq(S)
    BY <2>1, <2>2, InsertIs
  <2> QED
    BY <2>3 DEF e
<1>3. CASE d = 1
  <2>1. Insert(Erase(s, b, c), b, values) \in Seq(S)
    BY <1>1, <1>2, <1>3
  <2> QED
    BY <1>3, <2>1 DEF Spliced, b, c, d
<1>4. CASE d = -1
  <2>1. Reverse(values) \in Seq(S)
    BY ReverseIs
  <2> DEFINE r == Reverse(values)
  <2> HIDE DEF r
  <2>2. Insert(Erase(s, low, c), low, r) \in Seq(S)
    BY <1>1, <1>2, <1>4, <2>1 DEF r
  <2> QED
    BY <1>4, <2>2 DEF Spliced, b, c, d, low, r
<1>5. d \in {1, -1}
  BY DEF d
<1> QED
  BY <1>3, <1>4, <1>5

-----------------------------------------------------------------------------
(* What arrays, buffers and results hold, and what an iterator gives. *)

Good(r) == r.raised = ""

\* The numbers of a slice, any of which may be beyond all sizes.
SizeT   == Nat \cup {Top}
Wide(s) == s.begin \in SizeT /\ s.count \in SizeT /\ s.stop \in SizeT

\* What thread t knows: where it is, its call, slice and buffer, the counter it
\* noted, its result, and the arrays as they were.  Where a slice is about to
\* be replaced or removed it has a step; an iterator begins with nothing.
LocalOK(t, p, c, s, k, n, r, b) ==
  /\ IsSlice(s) /\ Wide(s) /\ s.step \in Int
  /\ p = "idle" \/ c.op \notin Sliced => s.begin \in Nat /\ s.count \in Nat /\ s.stop \in Nat
  /\ p \in {"gather", "lock", "locked"} => s.begin \in Nat
  /\ k \in Seq(Items) /\ n \in Nat /\ r.value \in Seq(Int)
  /\ p # "idle" => c \in CallsOf[t] /\ b \in [ArrayNames -> Seq(Items)]
  /\ p \in {"stop", "start"} => s.step # 0
  /\ p \in {"gather", "lock", "locked"} /\ c.op \in {"setSlice", "delSlice"} => s.step # 0
  /\ p \in {"idle", "iterator"} => k = <<>>

\* An iterator: IteratorFaithful, item by item.
FaithfulOK(p, c, k, n, r, b, its, ms) ==
  c.op = "for" /\ p \in {"lock", "locked", "done"} =>
    LET a == c.array
    IN  /\ n <= ms[a]
        /\ ms[a] = n => its[a] = b[a]
        /\ Len(k) <= Len(b[a]) /\ \A i \in 1 .. Len(k) : k[i] = b[a][i]
        /\ p = "done" => IF Good(r) THEN r.value = b[a] ELSE ms[a] # n

Functions == /\ pc = [t \in Threads |-> pc[t]] /\ call = [t \in Threads |-> call[t]]
             /\ at = [t \in Threads |-> at[t]] /\ copied = [t \in Threads |-> copied[t]]
             /\ noted = [t \in Threads |-> noted[t]] /\ result = [t \in Threads |-> result[t]]
             /\ before = [t \in Threads |-> before[t]]

Held == items \in [ArrayNames -> Seq(Items)] /\ mods \in [ArrayNames -> Nat]

Local(t)    == LocalOK(t, pc[t], call[t], at[t], copied[t], noted[t], result[t], before[t])
Faithful(t) == FaithfulOK(pc[t], call[t], copied[t], noted[t], result[t], before[t], items, mods)

ContentInv == Functions /\ Held /\ \A t \in Threads : Local(t) /\ Faithful(t)

\* A step changes what t knows, and arrays only with their counters.
Sets(t, p, c, s, k, n, r, b) ==
  /\ pc' = [pc EXCEPT ![t] = p] /\ call' = [call EXCEPT ![t] = c]
  /\ at' = [at EXCEPT ![t] = s] /\ copied' = [copied EXCEPT ![t] = k]
  /\ noted' = [noted EXCEPT ![t] = n] /\ result' = [result EXCEPT ![t] = r]
  /\ before' = [before EXCEPT ![t] = b]

Grows == /\ items' \in [ArrayNames -> Seq(Items)] /\ mods' \in [ArrayNames -> Nat]
         /\ \A a \in ArrayNames : /\ mods[a] <= mods'[a]
                                  /\ mods'[a] = mods[a] => items'[a] = items[a]

LEMMA CallFacts ==
  ASSUME NEW t \in Threads, NEW c \in CallsOf[t]
  PROVE  CallOK(c) /\ c.array \in ArrayNames /\ (FromArray(c) => c.source \in ArrayNames)
BY CallsAssumption DEF CallOK, Uses

LEMMA StepKeepsContent ==
  ASSUME ContentInv, NEW t \in Threads, NEW p, NEW c, NEW s, NEW k, NEW n, NEW r, NEW b,
         Sets(t, p, c, s, k, n, r, b), Grows,
         LocalOK(t, p, c, s, k, n, r, b), FaithfulOK(p, c, k, n, r, b, items', mods')
  PROVE  ContentInv'
<1>1. Functions' /\ Held'
  BY DEF ContentInv, Functions, Held, Sets, Grows
<1>2. /\ pc'[t] = p /\ call'[t] = c /\ at'[t] = s /\ copied'[t] = k
      /\ noted'[t] = n /\ result'[t] = r /\ before'[t] = b
  BY DEF ContentInv, Functions, Sets
<1>3. ASSUME NEW u \in Threads \ {t}
      PROVE  /\ pc'[u] = pc[u] /\ call'[u] = call[u] /\ at'[u] = at[u] /\ copied'[u] = copied[u]
             /\ noted'[u] = noted[u] /\ result'[u] = result[u] /\ before'[u] = before[u]
  BY DEF ContentInv, Functions, Sets
<1>4. ASSUME NEW u \in Threads
      PROVE  /\ LocalOK(u, pc'[u], call'[u], at'[u], copied'[u], noted'[u], result'[u], before'[u])
             /\ FaithfulOK(pc'[u], call'[u], copied'[u], noted'[u], result'[u], before'[u], items', mods')
  <2>1. CASE u = t
    BY <1>2, <2>1
  <2>2. CASE u # t
    <3>1. LocalOK(u, pc'[u], call'[u], at'[u], copied'[u], noted'[u], result'[u], before'[u])
      BY <1>3, <2>2 DEF ContentInv, Local
    <3>2. /\ FaithfulOK(pc[u], call[u], copied[u], noted[u], result[u], before[u], items, mods)
          /\ noted[u] \in Nat /\ (pc[u] # "idle" => call[u] \in CallsOf[u])
      BY DEF ContentInv, Local, Faithful, LocalOK
    <3>3. pc[u] # "idle" => call[u].array \in ArrayNames
      BY <3>2, CallFacts
    <3>4. FaithfulOK(pc[u], call[u], copied[u], noted[u], result[u], before[u], items', mods')
      <4> SUFFICES ASSUME call[u].op = "for", pc[u] \in {"lock", "locked", "done"}
                   PROVE  FaithfulOK(pc[u], call[u], copied[u], noted[u], result[u], before[u],
                                     items', mods')
        BY DEF FaithfulOK
      <4> DEFINE a == call[u].array
      <4>1. a \in ArrayNames
        BY <3>3
      <4> HIDE DEF a
      <4>2. /\ mods[a] <= mods'[a] /\ (mods'[a] = mods[a] => items'[a] = items[a])
            /\ mods[a] \in Nat /\ mods'[a] \in Nat
        BY <4>1 DEF Grows, ContentInv, Held
      <4> QED
        BY <3>2, <4>2 DEF FaithfulOK, a
    <3> QED
      BY <1>3, <2>2, <3>1, <3>4
  <2> QED
    BY <2>1, <2>2
<1> QED
  BY <1>1, <1>4 DEF ContentInv, Local, Faithful

\* Steps of calls that are no iterators.
LEMMA Moved ==
  ASSUME ContentInv, NEW t \in Threads, pc[t] # "idle", call[t].op # "for",
         NEW p, NEW s, NEW k, NEW n, NEW r, Sets(t, p, call[t], s, k, n, r, before[t]),
         Grows, LocalOK(t, p, call[t], s, k, n, r, before[t])
  PROVE  ContentInv'
<1>1. FaithfulOK(p, call[t], k, n, r, before[t], items', mods')
  BY DEF FaithfulOK
<1> QED
  BY <1>1, StepKeepsContent

LEMMA SameGrows ==
  ASSUME ContentInv, UNCHANGED <<items, mods>>  PROVE Grows
BY DEF Grows, ContentInv, Held

LEMMA LocalFacts ==
  ASSUME ContentInv, NEW t \in Threads
  PROVE  /\ LocalOK(t, pc[t], call[t], at[t], copied[t], noted[t], result[t], before[t])
         /\ FaithfulOK(pc[t], call[t], copied[t], noted[t], result[t], before[t], items, mods)
         /\ at = [at EXCEPT ![t] = at[t]] /\ copied = [copied EXCEPT ![t] = copied[t]]
         /\ noted = [noted EXCEPT ![t] = noted[t]] /\ result = [result EXCEPT ![t] = result[t]]
         /\ call = [call EXCEPT ![t] = call[t]] /\ before = [before EXCEPT ![t] = before[t]]
         /\ pc = [pc EXCEPT ![t] = pc[t]]
         /\ pc[t] # "idle" => /\ call[t] \in CallsOf[t] /\ CallOK(call[t]) /\ Array(t) \in ArrayNames
                              /\ items[Array(t)] \in Seq(Items) /\ mods[Array(t)] \in Nat
                              /\ Size(Array(t)) \in Nat
                              /\ FromArray(call[t]) => /\ Source(t) \in ArrayNames
                                                       /\ items[Source(t)] \in Seq(Items)
                                                       /\ mods[Source(t)] \in Nat
                                                       /\ Size(Source(t)) \in Nat
<1>1. /\ LocalOK(t, pc[t], call[t], at[t], copied[t], noted[t], result[t], before[t])
      /\ FaithfulOK(pc[t], call[t], copied[t], noted[t], result[t], before[t], items, mods)
  BY DEF ContentInv, Local, Faithful
<1>2. /\ at = [at EXCEPT ![t] = at[t]] /\ copied = [copied EXCEPT ![t] = copied[t]]
      /\ noted = [noted EXCEPT ![t] = noted[t]] /\ result = [result EXCEPT ![t] = result[t]]
      /\ call = [call EXCEPT ![t] = call[t]] /\ before = [before EXCEPT ![t] = before[t]]
      /\ pc = [pc EXCEPT ![t] = pc[t]]
  BY DEF ContentInv, Functions
<1>3. ASSUME pc[t] # "idle"
      PROVE  /\ call[t] \in CallsOf[t] /\ CallOK(call[t]) /\ call[t].array \in ArrayNames
             /\ FromArray(call[t]) => call[t].source \in ArrayNames
  <2>1. call[t] \in CallsOf[t]
    BY <1>1, <1>3 DEF LocalOK
  <2> QED
    BY <2>1, CallFacts
<1>4. \A a \in ArrayNames : items[a] \in Seq(Items) /\ mods[a] \in Nat /\ Len(items[a]) \in Nat
  BY LenProperties DEF ContentInv, Held
<1> QED
  BY <1>1, <1>2, <1>3, <1>4 DEF Array, Source, Size

\* The end of a call under the lock: with a change of its array, ...
LEMMA StoreKeeps ==
  ASSUME ContentInv, NEW t \in Threads, pc[t] # "idle", call[t].op # "for",
         NEW s \in Seq(Items), NEW r, r.value \in Seq(Int), Store(t, s, r)
  PROVE  ContentInv'
<1>1. Grows
  <2>1. Array(t) \in ArrayNames
    BY LocalFacts
  <2> QED
    BY <2>1 DEF Store, Grows, ContentInv, Held
<1>2. LocalOK(t, "done", call[t], at[t], copied[t], noted[t], r, before[t])
  BY LocalFacts DEF LocalOK
<1>3. Sets(t, "done", call[t], at[t], copied[t], noted[t], r, before[t])
  BY LocalFacts DEF Sets, Store, Finish, Goto, history
<1> QED
  BY <1>1, <1>2, <1>3, Moved

\* ... or without, or without a lock.
LEMMA FinishKeeps ==
  ASSUME ContentInv, NEW t \in Threads, pc[t] # "idle", call[t].op # "for",
         NEW r, r.value \in Seq(Int), Finish(t, r),
         UNCHANGED <<items, mods, history, at, copied, noted>>
  PROVE  ContentInv'
<1>1. Grows
  BY SameGrows
<1>2. LocalOK(t, "done", call[t], at[t], copied[t], noted[t], r, before[t])
  BY LocalFacts DEF LocalOK
<1>3. Sets(t, "done", call[t], at[t], copied[t], noted[t], r, before[t])
  BY LocalFacts DEF Sets, Finish, Goto, history
<1> QED
  BY <1>1, <1>2, <1>3, Moved

\* Results.
LEMMA ResultIs ==
  /\ \A v : Value(v).value = v /\ Good(Value(v))
  /\ \A e : Error(e).value = <<>>
  /\ ~Good(Error("RuntimeError"))
<1>1. \A v : Value(v).value = v /\ Good(Value(v))
  BY Zenon DEF Value, Good
<1>2. \A e : Error(e).value = <<>>
  BY Zenon DEF Error
<1>3. ~Good(Error("RuntimeError"))
  <2>1. Error("RuntimeError").raised = "RuntimeError"
    BY Zenon DEF Error
  <2> QED
    BY Zenon, <2>1 DEF Good
<1> QED
  BY <1>1, <1>2, <1>3

LEMMA ItemsInt ==
  ASSUME NEW s \in Seq(Items)  PROVE s \in Seq(Int)
<1>1. s \in [1 .. Len(s) -> Items] /\ Len(s) \in Nat
  BY LenProperties
<1>2. Items \subseteq Int
  BY ContentAssumption
<1>3. s \in [1 .. Len(s) -> Int]
  BY <1>1, <1>2
<1> QED
  BY <1>1, <1>3, MadeSeq

LEMMA ConstraintIs ==
  ASSUME NEW n \in Nat, NEW i \in Int
  PROVE  Constraint(n, i) \in Int /\ (Constraint(n, i) # -1 => Constraint(n, i) \in Nat)
BY DEF Constraint

\* What sliceConstraint returns, and what its callers do with it.
LEMMA ResolvedKeeps ==
  ASSUME ContentInv, NEW t \in Threads, pc[t] # "idle", call[t].op \in Sliced,
         NEW i \in Nat, NEW count \in SizeT, NEW step \in Int,
         Resolved(t, <<i, count, step>>),
         UNCHANGED <<items, mods, history, copied, noted>>
  PROVE  ContentInv'
<1> DEFINE s == [begin |-> i, count |-> count, step |-> step, stop |-> 0]
           refused == step = 0 /\ call[t].op # "getSlice"
           r == IF refused THEN Error("InternalError") ELSE result[t]
           p == IF refused THEN "done" ELSE IF call[t].op = "setSlice" THEN "gather" ELSE "lock"
<1>1. Grows
  BY SameGrows
<1>2. /\ at' = [at EXCEPT ![t] = s] /\ pc' = [pc EXCEPT ![t] = p]
      /\ result' = [result EXCEPT ![t] = r]
  BY LocalFacts DEF Resolved, Finish, Goto
<1>4. r.value \in Seq(Int)
  <2>1. <<>> \in Seq(Int)
    OBVIOUS
  <2> QED
    BY <2>1, LocalFacts, ResultIs DEF LocalOK
<1>5. IsSlice(s) /\ s.begin = i /\ s.count = count /\ s.step = step /\ s.stop = 0
  BY DEF IsSlice
<1>6. p \in {"done", "gather", "lock"} /\ (p \in {"gather", "lock"} /\ call[t].op # "getSlice" => step # 0)
  OBVIOUS
<1> HIDE DEF s, r, p
<1>3. Sets(t, p, call[t], s, copied[t], noted[t], r, before[t])
  BY LocalFacts, <1>2 DEF Sets, history
<1>7. LocalOK(t, p, call[t], s, copied[t], noted[t], r, before[t])
  BY LocalFacts, <1>4, <1>5, <1>6 DEF LocalOK, Wide, SizeT
<1>8. call[t].op # "for"
  BY DEF Sliced
<1> QED
  BY <1>1, <1>3, <1>7, <1>8, Moved

LEMMA StrideKeeps ==
  ASSUME ContentInv, NEW t \in Threads, Stride(t)
  PROVE  ContentInv'
<1>1. /\ pc[t] = "stride" /\ call[t].op \in Sliced /\ pc[t] # "idle" /\ call[t].op # "for"
      /\ UNCHANGED <<items, mods, history, copied, noted>>
  BY DEF Stride, At, Sliced
<1>2. CASE Resolved(t, <<0, 0, 0>>)
  BY <1>1, <1>2, ResolvedKeeps DEF SizeT
<1>3. CASE Goto(t, "default") /\ UNCHANGED <<at, result>>
  <2>1. LocalOK(t, "default", call[t], at[t], copied[t], noted[t], result[t], before[t])
    BY <1>1, LocalFacts DEF LocalOK
  <2>2. Sets(t, "default", call[t], at[t], copied[t], noted[t], result[t], before[t])
    BY <1>1, <1>3, LocalFacts DEF Sets, Goto, history
  <2>3. Grows
    BY <1>1, SameGrows
  <2> QED
    BY <1>1, <2>1, <2>2, <2>3, Moved
<1> QED
  BY <1>2, <1>3 DEF Stride

\* The step decides how the default boundaries are taken.
LEMMA DefaultCases ==
  ASSUME NEW t, Default(t)
  PROVE  LET step == IF call[t].step = Absent THEN 1 ELSE call[t].step
         IN  \/ step \in HugeSteps /\ Resolved(t, <<0, 1, 1>>)
             \/ step = 0 /\ Finish(t, Error("ValueError")) /\ UNCHANGED at
             \/ /\ step \notin HugeSteps \cup {0}
                /\ at' = [at EXCEPT ![t] = [begin |-> IF step > 0 THEN 0 ELSE LastIndex(t),
                                            stop  |-> IF step > 0 THEN LastIndex(t) ELSE 0,
                                            step  |-> step, count |-> 0]]
                /\ Goto(t, "stop")
                /\ UNCHANGED result
<1> DEFINE step == IF call[t].step = Absent THEN 1 ELSE call[t].step
<1>1. CASE step \in HugeSteps
  <2>1. step # 0 /\ step \in HugeSteps
    BY <1>1, Steps
  <2> QED
    BY <2>1 DEF Default
<1>2. CASE step = 0
  <2>1. step \notin HugeSteps /\ step = 0
    BY <1>2, Steps
  <2> QED
    BY <2>1 DEF Default
<1>3. CASE step \notin HugeSteps \cup {0}
  BY <1>3 DEF Default
<1> QED
  BY <1>1, <1>2, <1>3

LEMMA DefaultKeeps ==
  ASSUME ContentInv, NEW t \in Threads, Default(t)
  PROVE  ContentInv'
<1> DEFINE step == IF call[t].step = Absent THEN 1 ELSE call[t].step
           e == LastIndex(t)
           s == [begin |-> IF step > 0 THEN 0 ELSE e, stop |-> IF step > 0 THEN e ELSE 0,
                 step |-> step, count |-> 0]
<1>1. /\ pc[t] = "default" /\ call[t].op \in Sliced /\ pc[t] # "idle" /\ call[t].op # "for"
      /\ UNCHANGED <<items, mods, history, copied, noted>>
  BY DEF Default, At, Sliced
<1>2. call[t].step \in Int \cup {Absent} \cup HugeSteps /\ e \in SizeT
  BY <1>1, LocalFacts DEF CallOK, LastIndex, SizeT
<1>3. \/ Resolved(t, <<0, 1, 1>>)
      \/ Finish(t, Error("ValueError")) /\ UNCHANGED at
      \/ /\ step \notin HugeSteps \cup {0}
         /\ at' = [at EXCEPT ![t] = s] /\ Goto(t, "stop") /\ UNCHANGED result
  BY DefaultCases
<1>4. CASE Resolved(t, <<0, 1, 1>>)
  BY <1>1, <1>4, ResolvedKeeps DEF SizeT
<1>5. CASE Finish(t, Error("ValueError")) /\ UNCHANGED at
  <2>1. Error("ValueError").value \in Seq(Int)
    <3>1. <<>> \in Seq(Int)
      OBVIOUS
    <3> QED
      BY <3>1, ResultIs
  <2> QED
    BY <1>1, <1>5, <2>1, FinishKeeps
<1>6. CASE /\ step \notin HugeSteps \cup {0}
           /\ at' = [at EXCEPT ![t] = s] /\ Goto(t, "stop") /\ UNCHANGED result
  <2>1. step \in Int \ {0}
    BY <1>2, <1>6
  <2> HIDE DEF step, e
  <2>2. IsSlice(s) /\ Wide(s) /\ s.step \in Int /\ s.step # 0
    BY <1>2, <2>1 DEF IsSlice, Wide, SizeT
  <2> HIDE DEF s
  <2>3. LocalOK(t, "stop", call[t], s, copied[t], noted[t], result[t], before[t])
    BY <1>1, <2>2, LocalFacts DEF LocalOK
  <2>4. Sets(t, "stop", call[t], s, copied[t], noted[t], result[t], before[t])
    BY <1>1, <1>6, LocalFacts DEF Sets, Goto, history
  <2>5. Grows
    BY <1>1, SameGrows
  <2> QED
    BY <1>1, <2>3, <2>4, <2>5, Moved
<1> QED
  BY <1>3, <1>4, <1>5, <1>6

\* An index that cannot be resolved ends the call; otherwise the slice changes.
LEMMA IndexErrorKeeps ==
  ASSUME ContentInv, NEW t \in Threads, pc[t] # "idle", call[t].op # "for",
         Finish(t, Error("IndexError")), UNCHANGED <<items, mods, history, at, copied, noted>>
  PROVE  ContentInv'
<1>1. Error("IndexError").value \in Seq(Int)
  <2>1. <<>> \in Seq(Int)
    OBVIOUS
  <2> QED
    BY <2>1, ResultIs
<1> QED
  BY <1>1, FinishKeeps

LEMMA SliceKeeps ==
  ASSUME ContentInv, NEW t \in Threads, pc[t] # "idle", call[t].op # "for",
         NEW p, NEW s, Goto(t, p), at' = [at EXCEPT ![t] = s],
         UNCHANGED <<items, mods, history, copied, noted, result>>,
         LocalOK(t, p, call[t], s, copied[t], noted[t], result[t], before[t])
  PROVE  ContentInv'
<1>1. Sets(t, p, call[t], s, copied[t], noted[t], result[t], before[t])
  BY LocalFacts DEF Sets, Goto, history
<1>2. Grows
  BY SameGrows
<1> QED
  BY <1>1, <1>2, Moved

LEMMA SliceWith ==
  ASSUME NEW s, IsSlice(s), NEW i
  PROVE  /\ [s EXCEPT !.begin = i] = [begin |-> i, count |-> s.count, step |-> s.step, stop |-> s.stop]
         /\ [s EXCEPT !.stop = i] = [begin |-> s.begin, count |-> s.count, step |-> s.step, stop |-> i]
         /\ [s EXCEPT !.count = i] = [begin |-> s.begin, count |-> i, step |-> s.step, stop |-> s.stop]
BY DEF IsSlice

LEMMA ResolveKeeps ==
  ASSUME ContentInv, NEW t \in Threads, Resolve(t)
  PROVE  ContentInv'
<1>0. /\ LocalOK(t, pc[t], call[t], at[t], copied[t], noted[t], result[t], before[t])
      /\ pc[t] # "idle" => CallOK(call[t]) /\ Size(Array(t)) \in Nat
  BY LocalFacts
<1>1. ASSUME Index(t) PROVE ContentInv'
  <2> DEFINE i == Constraint(Size(Array(t)), call[t].index)
             s == [at[t] EXCEPT !.begin = i]
  <2>1. /\ pc[t] = "index" /\ call[t].op \in Indexed /\ pc[t] # "idle" /\ call[t].op # "for"
        /\ UNCHANGED <<items, mods, history, copied, noted>>
    BY <1>1 DEF Index, At, Indexed
  <2>2. i \in Int /\ (i # -1 => i \in Nat)
    BY <1>0, <2>1, ConstraintIs DEF CallOK
  <2>3. CASE i = -1
    <3>1. Finish(t, Error("IndexError")) /\ UNCHANGED at
      BY <1>1, <2>3 DEF Index
    <3> QED
      BY <2>1, <3>1, IndexErrorKeeps
  <2>4. CASE i # -1
    <3>1. at' = [at EXCEPT ![t].begin = i] /\ Goto(t, "lock") /\ UNCHANGED result
      BY <1>1, <2>4 DEF Index
    <3> HIDE DEF i
    <3>2. at' = [at EXCEPT ![t] = s]
      BY <3>1
    <3>3. IsSlice(s) /\ s.begin \in Nat /\ s.count \in Nat /\ s.stop \in Nat /\ s.step = at[t].step
      <4>1. /\ IsSlice(at[t]) /\ at[t].begin \in Nat /\ at[t].count \in Nat
            /\ at[t].stop \in Nat /\ i \in Nat
        BY <1>0, <2>1, <2>2, <2>4 DEF LocalOK, Indexed, Sliced
      <4>2. s = [begin |-> i, count |-> at[t].count, step |-> at[t].step, stop |-> at[t].stop]
        BY <4>1, SliceWith
      <4> HIDE DEF s
      <4> QED
        BY <4>1, <4>2 DEF IsSlice
    <3> HIDE DEF s
    <3>4. LocalOK(t, "lock", call[t], s, copied[t], noted[t], result[t], before[t])
      BY <1>0, <2>1, <3>3 DEF LocalOK, Indexed, Wide, SizeT
    <3> QED
      BY <2>1, <3>1, <3>2, <3>4, SliceKeeps
  <2> QED
    BY <2>3, <2>4
<1>2. ASSUME Stop(t) PROVE ContentInv'
  <2> DEFINE i == IF call[t].end = Absent THEN at[t].stop
                  ELSE Constraint(Size(Array(t)), call[t].end)
             s == [at[t] EXCEPT !.stop = i]
  <2>1. /\ pc[t] = "stop" /\ call[t].op \in Sliced /\ pc[t] # "idle" /\ call[t].op # "for"
        /\ UNCHANGED <<items, mods, history, copied, noted>>
    BY <1>2 DEF Stop, At, Sliced
  <2>2. i # -1 => i \in SizeT
    <3>1. call[t].end \in Int \cup {Absent} /\ at[t].stop \in SizeT
      BY <1>0, <2>1 DEF CallOK, LocalOK, Wide
    <3> QED
      BY <1>0, <2>1, <3>1, ConstraintIs DEF SizeT
  <2>3. CASE i = -1
    <3>1. Finish(t, Error("IndexError")) /\ UNCHANGED at
      BY <1>2, <2>3 DEF Stop
    <3> QED
      BY <2>1, <3>1, IndexErrorKeeps
  <2>4. CASE i # -1
    <3>1. at' = [at EXCEPT ![t].stop = i] /\ Goto(t, "start") /\ UNCHANGED result
      BY <1>2, <2>4 DEF Stop
    <3> HIDE DEF i
    <3>2. at' = [at EXCEPT ![t] = s]
      BY <3>1
    <3>3. IsSlice(s) /\ Wide(s) /\ s.step = at[t].step
      <4>1. IsSlice(at[t]) /\ Wide(at[t]) /\ i \in SizeT
        BY <1>0, <2>2, <2>4 DEF LocalOK
      <4>2. s = [begin |-> at[t].begin, count |-> at[t].count, step |-> at[t].step, stop |-> i]
        BY <4>1, SliceWith
      <4> HIDE DEF s
      <4> QED
        BY <4>1, <4>2 DEF IsSlice, Wide
    <3> HIDE DEF s
    <3>4. LocalOK(t, "start", call[t], s, copied[t], noted[t], result[t], before[t])
      BY <1>0, <2>1, <3>3 DEF LocalOK
    <3> QED
      BY <2>1, <3>1, <3>2, <3>4, SliceKeeps
  <2> QED
    BY <2>3, <2>4
<1>3. ASSUME Start(t) PROVE ContentInv'
  <2> DEFINE i == IF call[t].begin = Absent THEN at[t].begin
                  ELSE Constraint(Size(Array(t)), call[t].begin)
             stop == at[t].stop
             step == at[t].step
             many == IF 0 \in {i, stop} /\ step \in {1, -1} THEN 0 ELSE Top
             up == ((stop - i) \div step) + 1
             down == ((i - stop) \div (-step)) + 1
  <2>1. /\ pc[t] = "start" /\ call[t].op \in Sliced /\ pc[t] # "idle" /\ call[t].op # "for"
        /\ UNCHANGED <<items, mods, history, copied, noted>>
    BY <1>3 DEF Start, At, Sliced
  <2>2. /\ call[t].begin \in Int \cup {Absent} /\ at[t].begin \in SizeT
        /\ stop \in SizeT /\ step \in Int \ {0}
    BY <1>0, <2>1 DEF CallOK, LocalOK, Wide
  <2>3. i # -1 => i \in SizeT
    BY <1>0, <2>1, <2>2, ConstraintIs DEF SizeT
  <2>4. \/ i = -1 /\ Finish(t, Error("IndexError")) /\ UNCHANGED at
        \/ i # -1 /\ Resolved(t, <<0, many, step>>)
        \/ i # -1 /\ Resolved(t, <<0, 0, 0>>)
        \/ i # -1 /\ Top \notin {i, stop} /\ step > 0 /\ ~(stop < i) /\ Resolved(t, <<i, up, step>>)
        \/ /\ i # -1 /\ Top \notin {i, stop} /\ ~(step > 0) /\ ~(step < 0 /\ stop > i)
           /\ Resolved(t, <<i, down, step>>)
    BY <1>3 DEF Start
  <2>9. many \in SizeT
    BY DEF SizeT
  <2> HIDE DEF i, stop, step, many
  <2>5. CASE i = -1 /\ Finish(t, Error("IndexError")) /\ UNCHANGED at
    BY <2>1, <2>5, IndexErrorKeeps
  <2>6. CASE i # -1 /\ (Resolved(t, <<0, 0, 0>>) \/ Resolved(t, <<0, many, step>>))
    BY <2>1, <2>2, <2>6, <2>9, ResolvedKeeps DEF SizeT
  <2>7. CASE i # -1 /\ Top \notin {i, stop} /\ step > 0 /\ ~(stop < i) /\ Resolved(t, <<i, up, step>>)
    <3>1. i \in Nat /\ up \in SizeT /\ step \in Int
      BY <2>2, <2>3, <2>7 DEF SizeT
    <3> HIDE DEF up
    <3> QED
      BY <2>1, <2>7, <3>1, ResolvedKeeps
  <2>8. CASE /\ i # -1 /\ Top \notin {i, stop} /\ ~(step > 0) /\ ~(step < 0 /\ stop > i)
             /\ Resolved(t, <<i, down, step>>)
    <3>1. i \in Nat /\ down \in SizeT /\ step \in Int
      BY <2>2, <2>3, <2>8 DEF SizeT
    <3> HIDE DEF down
    <3> QED
      BY <2>1, <2>8, <3>1, ResolvedKeeps
  <2> QED
    BY <2>4, <2>5, <2>6, <2>7, <2>8
<1> QED
  BY <1>1, <1>2, <1>3, StrideKeeps, DefaultKeeps DEF Resolve

LEMMA SameContent ==
  ASSUME ContentInv, UNCHANGED <<items, mods, work, history>>  PROVE ContentInv'
BY DEF ContentInv, Functions, Held, Local, Faithful, work, history

LEMMA BreakContent ==
  ASSUME ContentInv, NEW t \in Threads, Break(t)  PROVE ContentInv'
BY SameContent DEF Break

LEMMA Values0 ==
  /\ \A e : Error(e).value \in Seq(Int)
  /\ \A v \in Int : Value(<<v>>).value \in Seq(Int)
  /\ Value(<<>>).value \in Seq(Int)
<1>1. <<>> \in Seq(Int) /\ \A v \in Int : <<v>> \in Seq(Int)
  OBVIOUS
<1> QED
  BY <1>1, ResultIs

LEMMA PrepareKeeps ==
  ASSUME ContentInv, NEW t \in Threads, Prepare(t)
  PROVE  ContentInv'
<1>0. /\ LocalOK(t, pc[t], call[t], at[t], copied[t], noted[t], result[t], before[t])
      /\ FaithfulOK(pc[t], call[t], copied[t], noted[t], result[t], before[t], items, mods)
      /\ pc[t] # "idle" => CallOK(call[t]) /\ call[t] \in CallsOf[t]
  BY LocalFacts
<1>1. ASSUME Gather(t) PROVE ContentInv'
  <2> DEFINE k == IF FromArray(call[t]) THEN items[Source(t)] ELSE call[t].values
             n == IF FromArray(call[t]) THEN mods[Source(t)] ELSE 0
  <2>1. /\ pc[t] = "gather" /\ call[t].op = "setSlice" /\ pc[t] # "idle" /\ call[t].op # "for"
        /\ UNCHANGED <<items, mods>>
    BY <1>1 DEF Gather, At
  <2>2. k \in Seq(Items) /\ n \in Nat
    <3>1. CASE FromArray(call[t])
      BY <2>1, <3>1, LocalFacts
    <3>2. CASE ~FromArray(call[t])
      <4>1. call[t].from # "array"
        BY <2>1, <3>2 DEF FromArray
      <4> QED
        BY <1>0, <2>1, <3>2, <4>1 DEF CallOK
    <3> QED
      BY <3>1, <3>2
  <2>3. copied' = [copied EXCEPT ![t] = k] /\ noted' = [noted EXCEPT ![t] = n]
    BY <1>1 DEF Gather
  <2> HIDE DEF k, n
  <2>4. Sets(t, "lock", call[t], at[t], k, n, result[t], before[t])
    BY <1>1, <2>3, LocalFacts DEF Gather, Goto, history, Sets
  <2>5. LocalOK(t, "lock", call[t], at[t], k, n, result[t], before[t])
    BY <1>0, <2>1, <2>2 DEF LocalOK
  <2>6. Grows
    BY <2>1, SameGrows
  <2> QED
    BY <2>1, <2>4, <2>5, <2>6, Moved
<1>2. ASSUME CopyLock(t) PROVE ContentInv'
  <2>1. /\ pc[t] = "copy" /\ call[t].op \in Copies /\ pc[t] # "idle" /\ call[t].op # "for"
        /\ UNCHANGED <<items, mods>>
    BY <1>2 DEF CopyLock, At, Copies
  <2>2. Sets(t, "copying", call[t], at[t], copied[t], noted[t], result[t], before[t])
    BY <1>2, LocalFacts DEF CopyLock, Goto, history, Sets
  <2>3. LocalOK(t, "copying", call[t], at[t], copied[t], noted[t], result[t], before[t])
    BY <1>0, <2>1 DEF LocalOK
  <2>4. Grows
    BY <2>1, SameGrows
  <2> QED
    BY <2>1, <2>2, <2>3, <2>4, Moved
<1>3. ASSUME Copy(t) PROVE ContentInv'
  <2> DEFINE k == copied[t] \o items[Source(t)]
             p == IF call[t].op = "concat" THEN "lock" ELSE "done"
             r == IF call[t].op = "concat" THEN result[t] ELSE Value(k)
  <2>1. /\ pc[t] = "copying" /\ call[t].op \in Copies /\ pc[t] # "idle" /\ call[t].op # "for"
        /\ UNCHANGED <<items, mods>>
    BY <1>3 DEF Copy, At, Copies
  <2>2. copied[t] \in Seq(Items) /\ items[Source(t)] \in Seq(Items)
    BY <1>0, <2>1, LocalFacts DEF LocalOK, FromArray
  <2>3. k \in Seq(Items)
    BY <2>2, ConcatProperties
  <2>4. copied' = [copied EXCEPT ![t] = k] /\ pc' = [pc EXCEPT ![t] = p]
        /\ result' = [result EXCEPT ![t] = r]
    BY <1>3, LocalFacts DEF Copy, Goto, Finish
  <2> HIDE DEF k
  <2>5. r.value \in Seq(Int)
    BY <1>0, <2>3, ItemsInt, ResultIs DEF LocalOK
  <2>6. p \in {"lock", "done"} /\ call[t].op \notin {"setSlice", "delSlice"}
    BY <2>1 DEF Copies
  <2> HIDE DEF p, r
  <2>7. Sets(t, p, call[t], at[t], k, noted[t], r, before[t])
    BY <1>3, <2>4, LocalFacts DEF Copy, history, Sets
  <2>8. LocalOK(t, p, call[t], at[t], k, noted[t], r, before[t])
    BY <1>0, <2>1, <2>3, <2>5, <2>6 DEF LocalOK, Copies, Sliced
  <2>9. Grows
    BY <2>1, SameGrows
  <2> QED
    BY <2>1, <2>7, <2>8, <2>9, Moved
<1>4. ASSUME Empty(t) PROVE ContentInv'
  BY <1>4, Values0, FinishKeeps DEF Empty, At
<1>5. ASSUME Lock(t) PROVE ContentInv'
  <2>1. pc[t] = "lock" /\ UNCHANGED <<items, mods>>
    BY <1>5 DEF Lock
  <2>2. Sets(t, "locked", call[t], at[t], copied[t], noted[t], result[t], before[t])
    BY <1>5, LocalFacts DEF Lock, Goto, history, Sets
  <2>3. LocalOK(t, "locked", call[t], at[t], copied[t], noted[t], result[t], before[t])
    BY <1>0, <2>1 DEF LocalOK
  <2>4. FaithfulOK("locked", call[t], copied[t], noted[t], result[t], before[t], items', mods')
    BY <1>0, <2>1 DEF FaithfulOK
  <2>5. Grows
    BY <2>1, SameGrows
  <2> QED
    BY <2>2, <2>3, <2>4, <2>5, StepKeepsContent
<1>6. ASSUME Iterator(t) PROVE ContentInv'
  <2>1. /\ pc[t] = "iterator" /\ call[t].op = "for" /\ pc[t] # "idle"
        /\ UNCHANGED <<items, mods>>
    BY <1>6 DEF Iterator, At
  <2>2. Sets(t, "lock", call[t], at[t], copied[t], mods[Array(t)], result[t], items)
    BY <1>6, LocalFacts DEF Iterator, Goto, Sets
  <2>3. items \in [ArrayNames -> Seq(Items)] /\ mods[Array(t)] \in Nat
    BY <2>1, LocalFacts DEF ContentInv, Held
  <2>4. LocalOK(t, "lock", call[t], at[t], copied[t], mods[Array(t)], result[t], items)
    BY <1>0, <2>1, <2>3 DEF LocalOK, Sliced
  <2>5. FaithfulOK("lock", call[t], copied[t], mods[Array(t)], result[t], items, items', mods')
    <3>1. copied[t] = <<>> /\ Array(t) = call[t].array /\ items[Array(t)] \in Seq(Items)
      BY <1>0, <2>1, LocalFacts DEF LocalOK, Array
    <3>2. Len(copied[t]) = 0 /\ Len(items[call[t].array]) \in Nat
      BY <3>1, LenProperties
    <3>3. \A i \in 1 .. Len(copied[t]) : FALSE
      BY <3>2
    <3> QED
      BY <2>1, <2>3, <3>1, <3>2, <3>3 DEF FaithfulOK
  <2>6. Grows
    BY <2>1, SameGrows
  <2> QED
    BY <2>2, <2>4, <2>5, <2>6, StepKeepsContent
<1> QED
  BY <1>1, <1>2, <1>3, <1>4, <1>5, <1>6 DEF Prepare

LEMMA ScanKeeps ==
  ASSUME ContentInv, NEW t \in Threads, Scan(t)
  PROVE  ContentInv'
<1>0. LocalOK(t, pc[t], call[t], at[t], copied[t], noted[t], result[t], before[t])
  BY LocalFacts
<1>1. ASSUME Sizes(t) PROVE ContentInv'
  <2> DEFINE n == IF call[t].op = "compare" THEN Size(Source(t)) ELSE 0
             s == [begin |-> Size(Array(t)), count |-> 0, step |-> 0, stop |-> n]
  <2>1. /\ pc[t] = "sizes" /\ call[t].op \in Scans /\ pc[t] # "idle" /\ call[t].op # "for"
        /\ UNCHANGED <<items, mods, history, copied, noted, result>>
        /\ at' = [at EXCEPT ![t] = s] /\ Goto(t, "scan")
    BY <1>1 DEF Sizes, At, Scans
  <2>2. Size(Array(t)) \in Nat /\ n \in Nat
    BY <2>1, LocalFacts DEF FromArray
  <2> HIDE DEF n
  <2>3. IsSlice(s) /\ s.begin \in Nat /\ s.count \in Nat /\ s.stop \in Nat /\ s.step \in Int
    BY <2>2 DEF IsSlice
  <2> HIDE DEF s
  <2>4. LocalOK(t, "scan", call[t], s, copied[t], noted[t], result[t], before[t])
    BY <1>0, <2>1, <2>3 DEF LocalOK, Wide, SizeT
  <2> QED
    BY <2>1, <2>4, SliceKeeps
<1>2. ASSUME NEW r, r.value \in Seq(Int), pc[t] # "idle", call[t].op # "for", Scanned(t, r)
      PROVE  ContentInv'
  BY <1>2, FinishKeeps DEF Scanned
<1>3. ASSUME pc[t] = "scan", call[t].op \in Scans, Advance(t) PROVE ContentInv'
  <2> DEFINE s == [at[t] EXCEPT !.count = @ + 1]
  <2>1. at' = [at EXCEPT ![t] = s]
    BY <1>3 DEF Advance
  <2>2. /\ IsSlice(at[t]) /\ at[t].begin \in Nat /\ at[t].count \in Nat
        /\ at[t].stop \in Nat /\ at[t].step \in Int /\ call[t].op \notin Sliced \cup {"for"}
    BY <1>0, <1>3 DEF LocalOK, Scans, Sliced
  <2>3. s = [begin |-> at[t].begin, count |-> at[t].count + 1, step |-> at[t].step, stop |-> at[t].stop]
    BY <2>2, SliceWith
  <2> HIDE DEF s
  <2>4. IsSlice(s) /\ s.begin \in Nat /\ s.count \in Nat /\ s.stop \in Nat /\ s.step \in Int
    BY <2>2, <2>3 DEF IsSlice
  <2>5. LocalOK(t, "scan", call[t], s, copied[t], noted[t], result[t], before[t])
    BY <1>0, <1>3, <2>2, <2>4 DEF LocalOK, Wide, SizeT
  <2>6. Goto(t, "scan") /\ pc[t] # "idle"
    BY <1>3, LocalFacts DEF Advance, Goto
  <2>7. UNCHANGED <<items, mods, history, copied, noted, result>>
    BY <1>3 DEF Advance
  <2> QED
    BY <2>1, <2>2, <2>5, <2>6, <2>7, SliceKeeps
<1>4. \A x : Sign(x) \in Int
  BY DEF Sign
<1>5. ASSUME Search(t) PROVE ContentInv'
  <2>1. pc[t] = "scan" /\ call[t].op = "contains" /\ pc[t] # "idle" /\ call[t].op # "for"
    BY <1>5 DEF Search, At
  <2>2. Scanned(t, Value(<<1>>)) \/ Scanned(t, Value(<<0>>)) \/ Advance(t) \/ Break(t)
    BY <1>5 DEF Search
  <2>3. Value(<<1>>).value \in Seq(Int) /\ Value(<<0>>).value \in Seq(Int)
    BY Values0
  <2> QED
    BY <1>2, <1>3, <2>1, <2>2, <2>3, BreakContent DEF Scans
<1>6. ASSUME Compare(t) PROVE ContentInv'
  <2> DEFINE r == Value(<<Sign(at[t].begin - at[t].stop)>>)
  <2>1. pc[t] = "scan" /\ call[t].op = "compare" /\ pc[t] # "idle" /\ call[t].op # "for"
    BY <1>6 DEF Compare, At
  <2>2. \/ Scanned(t, r) \/ Advance(t) \/ Break(t)
        \/ /\ Goto(t, "differ")
           /\ UNCHANGED <<items, mods, lock, named, history, at, copied, noted, result, broken, disturbed>>
    BY <1>6 DEF Compare
  <2>3. r.value \in Seq(Int)
    BY <1>4, Values0
  <2> HIDE DEF r
  <2>4. ASSUME Goto(t, "differ"), UNCHANGED <<items, mods, history, at, copied, noted, result>>
        PROVE  ContentInv'
    <3>1. at' = [at EXCEPT ![t] = at[t]]
      BY <2>4, LocalFacts
    <3>2. LocalOK(t, "differ", call[t], at[t], copied[t], noted[t], result[t], before[t])
      BY <1>0, <2>1 DEF LocalOK
    <3> QED
      BY <2>1, <2>4, <3>1, <3>2, SliceKeeps
  <2> QED
    BY <1>2, <1>3, <2>1, <2>2, <2>3, <2>4, BreakContent DEF Scans
<1>7. ASSUME Differ(t) PROVE ContentInv'
  <2> DEFINE a == Array(t)
             b == Source(t)
             i == at[t].count
             r == Value(<<Sign(items[a][i + 1] - items[b][i + 1])>>)
  <2>1. pc[t] = "differ" /\ call[t].op = "compare" /\ pc[t] # "idle" /\ call[t].op # "for"
    BY <1>7 DEF Differ, At
  <2>2. Scanned(t, r) \/ Break(t)
    BY <1>7 DEF Differ
  <2>3. r.value \in Seq(Int)
    BY <1>4, Values0
  <2> HIDE DEF r
  <2> QED
    BY <1>2, <2>1, <2>2, <2>3, BreakContent
<1> QED
  BY <1>1, <1>5, <1>6, <1>7 DEF Scan

LEMMA LeaveKeeps ==
  ASSUME ContentInv, NEW t \in Threads, pc[t] # "idle", call[t].op # "for",
         NEW r, r.value \in Seq(Int), Leave(t, r)
  PROVE  ContentInv'
BY FinishKeeps DEF Leave

\* The iterator compares the counter with the one it noted, and only then trusts
\* that the array is what it was.
LEMMA IteratorKeeps ==
  ASSUME ContentInv, NEW t \in Threads, IteratorNext(t)
  PROVE  ContentInv'
<1> DEFINE a == Array(t)
           s == items[a]
           k == copied[t]
           n == noted[t]
           b == before[t]
<1>1. /\ pc[t] = "locked" /\ call[t].op = "for" /\ pc[t] # "idle"
  BY DEF IteratorNext, At
<1>2. /\ LocalOK(t, pc[t], call[t], at[t], k, n, result[t], b)
      /\ a \in ArrayNames /\ a = call[t].array /\ s \in Seq(Items) /\ Len(s) \in Nat
      /\ mods[a] \in Nat /\ k \in Seq(Items) /\ Len(k) \in Nat /\ b[a] \in Seq(Items)
  <2>1. LocalOK(t, pc[t], call[t], at[t], k, n, result[t], b) /\ a \in ArrayNames
        /\ s \in Seq(Items) /\ mods[a] \in Nat
    BY <1>1, LocalFacts
  <2>2. k \in Seq(Items) /\ b \in [ArrayNames -> Seq(Items)]
    BY <1>1, <2>1 DEF LocalOK
  <2> QED
    BY <2>1, <2>2, LenProperties DEF Array
<1>3. /\ n <= mods[a] /\ (mods[a] = n => s = b[a])
      /\ Len(k) <= Len(b[a]) /\ \A i \in 1 .. Len(k) : k[i] = b[a][i]
  <2>1. FaithfulOK(pc[t], call[t], k, n, result[t], b, items, mods)
    BY LocalFacts
  <2> QED
    BY <1>1, <1>2, <2>1 DEF FaithfulOK
<1>4. ASSUME NEW r, r.value \in Seq(Int), Leave(t, r), IF Good(r) THEN r.value = b[a] ELSE mods[a] # n
      PROVE  ContentInv'
  <2>1. UNCHANGED <<items, mods>> /\ Sets(t, "done", call[t], at[t], k, n, r, b)
    BY <1>4, LocalFacts DEF Leave, Finish, Goto, history, Sets
  <2>2. LocalOK(t, "done", call[t], at[t], k, n, r, b)
    BY <1>1, <1>2, <1>4 DEF LocalOK
  <2>3. FaithfulOK("done", call[t], k, n, r, b, items', mods')
    BY <1>2, <1>3, <1>4, <2>1 DEF FaithfulOK
  <2>4. Grows
    BY <2>1, SameGrows
  <2> QED
    BY <2>1, <2>2, <2>3, <2>4, StepKeepsContent
<1>5. CASE mods[a] # n
  <2>1. Leave(t, Error("RuntimeError"))
    BY <1>5 DEF IteratorNext
  <2> DEFINE r == Error("RuntimeError")
  <2>2. ~Good(r) /\ r.value \in Seq(Int)
    BY ResultIs, Values0
  <2> HIDE DEF r
  <2>3. IF Good(r) THEN r.value = b[a] ELSE mods[a] # n
    BY <1>5, <2>2
  <2>4. Leave(t, r)
    BY <2>1 DEF r
  <2> QED
    BY <1>4, <2>2, <2>3, <2>4
<1>6. CASE mods[a] = n /\ Len(k) < Len(s)
  <2> DEFINE v == Append(k, s[Len(k) + 1])
  <2>1. /\ copied' = [copied EXCEPT ![t] = v] /\ Goto(t, "lock")
        /\ UNCHANGED <<items, mods, history, at, noted, result>>
    BY <1>6 DEF IteratorNext
  <2>2. s[Len(k) + 1] \in Items /\ Len(k) + 1 \in 1 .. Len(s)
    <3>1. Len(k) + 1 \in 1 .. Len(s)
      BY <1>2, <1>6
    <3> QED
      BY <1>2, <3>1, ElementOfSeq
  <2>3. v \in Seq(Items) /\ Len(v) = Len(k) + 1
        /\ \A i \in 1 .. Len(k) + 1 : v[i] = IF i <= Len(k) THEN k[i] ELSE s[Len(k) + 1]
    <3> DEFINE x == s[Len(k) + 1]
    <3> HIDE DEF x, k
    <3>1. x \in Items
      BY <2>2 DEF x
    <3>2. /\ Append(k, x) \in Seq(Items) /\ Len(Append(k, x)) = Len(k) + 1
          /\ \A i \in 1 .. Len(k) + 1 : Append(k, x)[i] = IF i <= Len(k) THEN k[i] ELSE x
      BY <1>2, <3>1, AppendProperties
    <3> QED
      BY <3>2 DEF x
  <2> HIDE DEF v
  <2>4. Sets(t, "lock", call[t], at[t], v, n, result[t], b)
    BY <2>1, LocalFacts DEF Goto, history, Sets
  <2>5. LocalOK(t, "lock", call[t], at[t], v, n, result[t], b)
    BY <1>1, <1>2, <2>3 DEF LocalOK
  <2>6. s = b[a] /\ Len(v) <= Len(b[a]) /\ \A i \in 1 .. Len(v) : v[i] = b[a][i]
    <3>1. s = b[a]
      BY <1>3, <1>6
    <3>2. \A i \in 1 .. Len(k) + 1 : i <= Len(k) \/ i = Len(k) + 1
      BY <1>2
    <3>3. Len(k) + 1 <= Len(s)
      BY <1>2, <1>6
    <3> HIDE DEF s, k, b, a
    <3> QED
      BY <1>2, <1>3, <2>3, <3>1, <3>2, <3>3
  <2>7. FaithfulOK("lock", call[t], v, n, result[t], b, items', mods')
    BY <1>2, <1>3, <2>1, <2>6 DEF FaithfulOK
  <2>8. Grows
    BY <2>1, SameGrows
  <2> QED
    BY <2>4, <2>5, <2>7, <2>8, StepKeepsContent
<1>7. CASE mods[a] = n /\ ~(Len(k) < Len(s))
  <2>1. Break(t) \/ Leave(t, Value(k))
    BY <1>7 DEF IteratorNext
  <2>2. k = b[a]
    <3>1. Len(k) = Len(b[a])
      BY <1>2, <1>3, <1>7, LenProperties
    <3> HIDE DEF k, b, a
    <3> QED
      BY <1>2, <1>3, <3>1, SeqEqual
  <2> DEFINE r == Value(k)
  <2>3. r.value = k /\ Good(r)
    BY ResultIs
  <2> HIDE DEF r
  <2>4. r.value \in Seq(Int) /\ IF Good(r) THEN r.value = b[a] ELSE mods[a] # n
    BY <1>2, <2>2, <2>3, ItemsInt
  <2> QED
    BY <1>4, <2>1, <2>4, BreakContent DEF r
<1> QED
  BY <1>5, <1>6, <1>7

LEMMA WorkKeeps ==
  ASSUME ContentInv, NEW t \in Threads, Work(t)
  PROVE  ContentInv'
<1> DEFINE s == items[Array(t)]
           c == at[t]
<1>0. /\ LocalOK(t, pc[t], call[t], at[t], copied[t], noted[t], result[t], before[t])
      /\ FaithfulOK(pc[t], call[t], copied[t], noted[t], result[t], before[t], items, mods)
      /\ pc[t] # "idle" => /\ CallOK(call[t]) /\ call[t] \in CallsOf[t] /\ Array(t) \in ArrayNames
                           /\ s \in Seq(Items) /\ Len(s) \in Nat /\ Size(Array(t)) = Len(s)
                           /\ DOMAIN s = 1 .. Len(s) /\ \A i \in 1 .. Len(s) : s[i] \in Items
  BY LocalFacts, LenProperties, ElementOfSeq DEF Size
<1>1. /\ pc[t] = "locked" => c.begin \in Nat /\ c.count \in SizeT
      /\ c.step \in Int /\ copied[t] \in Seq(Items)
  BY <1>0 DEF LocalOK, Wide
<1>2. ASSUME GetItem(t) PROVE ContentInv'
  <2> DEFINE i == at[t].begin
             v == s[i + 1]
  <2>1. pc[t] = "locked" /\ call[t].op = "getItem" /\ pc[t] # "idle" /\ call[t].op # "for"
    BY <1>2 DEF GetItem, At
  <2>2. CASE i < Len(s)
    <3>1. Leave(t, Value(<<v>>))
      BY <1>0, <1>2, <2>1, <2>2 DEF GetItem
    <3>2. v \in Int
      <4>1. i + 1 \in 1 .. Len(s)
        BY <1>0, <1>1, <2>1, <2>2
      <4>2. v \in Items
        BY <1>0, <2>1, <4>1
      <4> QED
        BY <4>2, ContentAssumption
    <3> HIDE DEF v
    <3>3. Value(<<v>>).value \in Seq(Int)
      BY <3>2, Values0
    <3> QED
      BY <2>1, <3>1, <3>3, LeaveKeeps
  <2>3. CASE ~(i < Len(s))
    <3>1. Leave(t, Error("IndexError"))
      BY <1>0, <1>2, <2>1, <2>3 DEF GetItem
    <3>2. Error("IndexError").value \in Seq(Int)
      BY Values0
    <3> QED
      BY <2>1, <3>1, <3>2, LeaveKeeps
  <2> QED
    BY <2>2, <2>3
<1>3. ASSUME SetItem(t) PROVE ContentInv'
  <2> DEFINE i == at[t].begin
             v == [s EXCEPT ![i + 1] = call[t].value]
  <2>1. pc[t] = "locked" /\ call[t].op = "setItem" /\ pc[t] # "idle" /\ call[t].op # "for"
    BY <1>3 DEF SetItem, At
  <2>2. CASE i < Len(s)
    <3>1. Store(t, v, Value(<<>>))
      BY <1>0, <1>3, <2>1, <2>2 DEF SetItem
    <3>2. call[t].value \in Items
      BY <1>0, <2>1 DEF CallOK
    <3>3. v \in Seq(Items)
      <4>1. s \in [1 .. Len(s) -> Items]
        BY <1>0, <2>1
      <4>2. v \in [1 .. Len(s) -> Items]
        BY <3>2, <4>1
      <4> QED
        BY <1>0, <2>1, <4>2, MadeSeq
    <3> HIDE DEF v
    <3> QED
      BY <2>1, <3>1, <3>3, Values0, StoreKeeps
  <2>3. CASE ~(i < Len(s))
    <3>1. Leave(t, Error("IndexError"))
      BY <1>0, <1>3, <2>1, <2>3 DEF SetItem
    <3>2. Error("IndexError").value \in Seq(Int)
      BY Values0
    <3> QED
      BY <2>1, <3>1, <3>2, LeaveKeeps
  <2> QED
    BY <2>2, <2>3
<1>4. ASSUME DelItem(t) PROVE ContentInv'
  <2> DEFINE i == at[t].begin
             v == Erase(s, i, 1)
  <2>1. pc[t] = "locked" /\ call[t].op = "delItem" /\ pc[t] # "idle" /\ call[t].op # "for"
    BY <1>4 DEF DelItem, At
  <2>2. CASE i < Len(s)
    <3>1. Store(t, v, Value(<<>>))
      BY <1>0, <1>4, <2>1, <2>2 DEF DelItem
    <3>2. v \in Seq(Items)
      <4>1. s \in Seq(Items) /\ i \in Nat /\ i + 1 <= Len(s)
        BY <1>0, <1>1, <2>1, <2>2
      <4> HIDE DEF s, i
      <4> QED
        BY <4>1, EraseIs
    <3> HIDE DEF v
    <3> QED
      BY <2>1, <3>1, <3>2, Values0, StoreKeeps
  <2>3. CASE ~(i < Len(s))
    <3>1. Leave(t, Error("IndexError"))
      BY <1>0, <1>4, <2>1, <2>3 DEF DelItem
    <3>2. Error("IndexError").value \in Seq(Int)
      BY Values0
    <3> QED
      BY <2>1, <3>1, <3>2, LeaveKeeps
  <2> QED
    BY <2>2, <2>3
<1>5. ASSUME GetSlice(t) PROVE ContentInv'
  <2> DEFINE p == [k \in 1 .. at[t].count |-> at[t].begin + (k - 1) * at[t].step + 1]
             v == Pick(s, p)
  <2>1. pc[t] = "locked" /\ call[t].op = "getSlice" /\ pc[t] # "idle" /\ call[t].op # "for"
    BY <1>5 DEF GetSlice, At
  <2>2. DOMAIN p = 1 .. at[t].count
    OBVIOUS
  <2>3. Leave(t, IF c.count = Top THEN Error("MemoryError")
                 ELSE IF Range(p) \subseteq DOMAIN s THEN Value(v) ELSE Error("InternalError"))
    BY <1>5 DEF GetSlice
  <2> HIDE DEF p
  <2>4. CASE c.count # Top /\ Range(p) \subseteq DOMAIN s
    <3>1. \A k \in 1 .. at[t].count : p[k] \in 1 .. Len(s)
      BY <1>0, <2>1, <2>2, <2>4 DEF Range
    <3>2. v = [k \in 1 .. at[t].count |-> s[p[k]]]
      BY <2>2 DEF Pick
    <3>3. v \in [1 .. at[t].count -> Items]
      BY <1>0, <2>1, <3>1, <3>2
    <3> HIDE DEF v
    <3>4. v \in Seq(Items)
      BY <1>1, <2>1, <2>4, <3>3, MadeSeq DEF SizeT
    <3>5. Leave(t, Value(v))
      BY <2>3, <2>4
    <3>6. Value(v).value \in Seq(Int)
      BY <3>4, ItemsInt, ResultIs
    <3> QED
      BY <2>1, <3>5, <3>6, LeaveKeeps
  <2>5. CASE ~(c.count # Top /\ Range(p) \subseteq DOMAIN s)
    <3>1. Leave(t, Error("MemoryError")) \/ Leave(t, Error("InternalError"))
      BY <2>3, <2>5
    <3>2. Error("MemoryError").value \in Seq(Int) /\ Error("InternalError").value \in Seq(Int)
      BY Values0
    <3> QED
      BY <2>1, <3>1, <3>2, LeaveKeeps
  <2> QED
    BY <2>4, <2>5
<1>6. ASSUME pc[t] = "locked", call[t].op \in {"setSlice", "delSlice"}, ~OutOfRange(Len(s), c)
      PROVE  InRange(Len(s), c)
  <2>1. c.count \notin {0, Top}
    BY <1>6 DEF OutOfRange
  <2> QED
    BY <1>0, <1>1, <1>6, <2>1 DEF LocalOK, InRange, SizeT
<1>7. ASSUME DelSlice(t) PROVE ContentInv'
  <2> DEFINE low == c.begin - c.count + 1
  <2>1. pc[t] = "locked" /\ call[t].op = "delSlice" /\ pc[t] # "idle" /\ call[t].op # "for"
    BY <1>7 DEF DelSlice, At
  <2>2. \/ Store(t, s, Error("InternalError"))
        \/ InRange(Len(s), c) /\ c.step = 1 /\ Store(t, Erase(s, c.begin, c.count), Value(<<>>))
        \/ InRange(Len(s), c) /\ c.step = -1 /\ Store(t, Erase(s, low, c.count), Value(<<>>))
        \/ InRange(Len(s), c) /\ Store(t, EraseEach(s, c), Value(<<>>))
    <3>1. CASE OutOfRange(Len(s), c)
      BY <1>7, <3>1 DEF DelSlice
    <3>2. CASE ~OutOfRange(Len(s), c)
      <4>1. InRange(Len(s), c)
        BY <1>6, <2>1, <3>2
      <4>2. c.step = 1 \/ c.step = -1 \/ c.step \notin {1, -1}
        OBVIOUS
      <4>3. c.step = 1 => c.step # -1
        OBVIOUS
      <4>4. CASE c.step = 1
        BY <1>7, <3>2, <4>1, <4>4 DEF DelSlice
      <4>5. CASE c.step = -1
        BY <1>7, <3>2, <4>1, <4>5 DEF DelSlice
      <4>6. CASE c.step \notin {1, -1}
        BY <1>7, <3>2, <4>1, <4>6 DEF DelSlice
      <4> QED
        BY <4>2, <4>4, <4>5, <4>6
    <3> QED
      BY <3>1, <3>2
  <2>3. s \in Seq(Items) /\ Len(s) \in Nat
    BY <1>0, <2>1
  <2> HIDE DEF s, c
  <2>4. CASE Store(t, s, Error("InternalError"))
    <3>1. Error("InternalError").value \in Seq(Int)
      BY Values0
    <3> QED
      BY <2>1, <2>3, <2>4, <3>1, StoreKeeps
  <2>5. CASE InRange(Len(s), c) /\ c.step = 1 /\ Store(t, Erase(s, c.begin, c.count), Value(<<>>))
    <3>1. c.begin + c.count <= Len(s)
      BY <2>3, <2>5, RunFits
    <3>2. Erase(s, c.begin, c.count) \in Seq(Items)
      BY <2>3, <2>5, <3>1, EraseIs DEF InRange
    <3> QED
      BY <2>1, <2>5, <3>2, Values0, StoreKeeps
  <2>6. CASE InRange(Len(s), c) /\ c.step = -1 /\ Store(t, Erase(s, low, c.count), Value(<<>>))
    <3>1. low \in Nat /\ low + c.count <= Len(s)
      BY <2>3, <2>6, RunFits
    <3> HIDE DEF low
    <3>2. Erase(s, low, c.count) \in Seq(Items)
      BY <2>3, <2>6, <3>1, EraseIs DEF InRange
    <3> QED
      BY <2>1, <2>6, <3>2, Values0, StoreKeeps
  <2>7. CASE InRange(Len(s), c) /\ Store(t, EraseEach(s, c), Value(<<>>))
    <3>1. EraseEach(s, c) \in Seq(Items)
      BY <2>3, <2>7, EraseEachIs
    <3> QED
      BY <2>1, <2>7, <3>1, Values0, StoreKeeps
  <2> QED
    BY <2>2, <2>4, <2>5, <2>6, <2>7
<1>8. ASSUME SetSlice(t) PROVE ContentInv'
  <2> DEFINE exact == Len(copied[t]) = c.count
             w == Values(t)
             own == Own(t)
  <2>1. pc[t] = "locked" /\ call[t].op = "setSlice" /\ pc[t] # "idle" /\ call[t].op # "for"
    BY <1>8 DEF SetSlice, At
  <2>2. \/ Store(t, s, Error("InternalError"))
        \/ Store(t, s, Error("ValueError"))
        \/ /\ InRange(Len(s), c) /\ (exact \/ c.step \in {1, -1})
           /\ Stale(t) => Len(copied[t]) <= Size(Source(t))
           /\ Store(t, IF exact THEN Overwritten(s, c, w, own) ELSE Spliced(s, c, w), Value(<<>>))
        \/ Break(t)
    BY <1>6, <1>8, <2>1 DEF SetSlice
  <2>3. s \in Seq(Items) /\ Len(s) \in Nat
    BY <1>0, <2>1
  <2>4. CASE Store(t, s, Error("InternalError")) \/ Store(t, s, Error("ValueError"))
    <3>1. Error("InternalError").value \in Seq(Int) /\ Error("ValueError").value \in Seq(Int)
      BY Values0
    <3> HIDE DEF s
    <3> QED
      BY <2>1, <2>3, <2>4, <3>1, StoreKeeps
  <2>5. ASSUME InRange(Len(s), c), exact \/ c.step \in {1, -1},
               Stale(t) => Len(copied[t]) <= Size(Source(t)),
               Store(t, IF exact THEN Overwritten(s, c, w, own) ELSE Spliced(s, c, w), Value(<<>>))
        PROVE  ContentInv'
    <3>1. w \in Seq(Items) /\ Len(w) = Len(copied[t])
      <4>1. CASE ~Stale(t)
        BY <1>1, <4>1 DEF Values
      <4>2. CASE Stale(t)
        <5> DEFINE q == items[Source(t)]
                   k == Len(copied[t])
        <5>1. q \in Seq(Items) /\ k \in Nat /\ k <= Len(q)
          <6>1. FromArray(call[t])
            BY <4>2 DEF Stale
          <6> QED
            BY <1>1, <2>1, <2>5, <4>2, <6>1, LocalFacts, LenProperties DEF Size
        <5>2. w = SubSeq(q, 1, k)
          BY <4>2 DEF Values
        <5> HIDE DEF q, k, w
        <5>3. w \in Seq(Items) /\ Len(w) = k
          BY <5>1, <5>2, SubSeqProperties
        <5> QED
          BY <5>3 DEF k
      <4> QED
        BY <4>1, <4>2
    <3> HIDE DEF s, c, w, own
    <3>2. CASE exact
      <4>1. Overwritten(s, c, w, own) \in Seq(Items)
        <5>1. Len(w) = c.count
          BY <3>1, <3>2
        <5> QED
          BY <2>3, <2>5, <3>1, <5>1, OverwrittenIs
      <4>2. Store(t, Overwritten(s, c, w, own), Value(<<>>))
        BY <2>5, <3>2
      <4> QED
        BY <2>1, <4>1, <4>2, Values0, StoreKeeps
    <3>3. CASE ~exact
      <4>1. Spliced(s, c, w) \in Seq(Items)
        BY <2>3, <2>5, <3>1, <3>3, SplicedIs
      <4>2. Store(t, Spliced(s, c, w), Value(<<>>))
        BY <2>5, <3>3
      <4> QED
        BY <2>1, <4>1, <4>2, Values0, StoreKeeps
    <3> QED
      BY <3>2, <3>3
  <2> HIDE DEF s, c, w, own, exact
  <2> QED
    BY <2>2, <2>4, <2>5, BreakContent
<1>9. ASSUME AppendItem(t) PROVE ContentInv'
  <2>1. pc[t] = "locked" /\ call[t].op = "append" /\ pc[t] # "idle" /\ call[t].op # "for"
    BY <1>9 DEF AppendItem, At
  <2>2. call[t].value \in Items /\ s \in Seq(Items)
    BY <1>0, <2>1 DEF CallOK
  <2>3. Append(s, call[t].value) \in Seq(Items)
    BY <2>2
  <2>4. Store(t, Append(s, call[t].value), Value(<<>>))
    BY <1>9 DEF AppendItem
  <2> QED
    BY <2>1, <2>3, <2>4, Values0, StoreKeeps
<1>10. ASSUME Concat(t) PROVE ContentInv'
  <2>1. pc[t] = "locked" /\ call[t].op = "concat" /\ pc[t] # "idle" /\ call[t].op # "for"
    BY <1>10 DEF Concat, At
  <2>2. copied[t] \in Seq(Items) /\ s \in Seq(Items)
    BY <1>0, <1>1, <2>1
  <2>3. s \o copied[t] \in Seq(Items)
    BY <2>2, ConcatProperties
  <2>4. Store(t, s \o copied[t], Value(<<>>))
    BY <1>10 DEF Concat
  <2> QED
    BY <2>1, <2>3, <2>4, Values0, StoreKeeps
<1>11. ASSUME ConcatCopy(t) PROVE ContentInv'
  <2>1. /\ pc[t] = "locked" /\ call[t].op = "concatCopy" /\ pc[t] # "idle" /\ call[t].op # "for"
        /\ UNCHANGED <<items, mods>>
    BY <1>11 DEF ConcatCopy, At
  <2>2. s \in Seq(Items)
    BY <1>0, <2>1
  <2>3. copied' = [copied EXCEPT ![t] = s]
    BY <1>11 DEF ConcatCopy
  <2> HIDE DEF s
  <2>4. Sets(t, "copy", call[t], at[t], s, noted[t], result[t], before[t])
    BY <1>11, <2>3, LocalFacts DEF ConcatCopy, Goto, history, Sets
  <2>5. LocalOK(t, "copy", call[t], at[t], s, noted[t], result[t], before[t])
    BY <1>0, <2>1, <2>2 DEF LocalOK
  <2>6. Grows
    BY <2>1, SameGrows
  <2> QED
    BY <2>1, <2>4, <2>5, <2>6, Moved
<1>12. ASSUME Repeat(t) PROVE ContentInv'
  <2> DEFINE n == call[t].count
             q == SubSeq(s, 1, n)
             v == Repeated(q, n - 1)
  <2>1. pc[t] = "locked" /\ call[t].op = "repeat" /\ pc[t] # "idle" /\ call[t].op # "for"
    BY <1>12 DEF Repeat, At
  <2>2. n \in Nat /\ s \in Seq(Items)
    BY <1>0, <2>1 DEF CallOK
  <2>3. \/ Store(t, <<>>, Value(<<>>)) \/ Store(t, s, Value(<<>>))
        \/ n > 1 /\ n <= Len(s) /\ Store(t, s \o v, Value(<<>>))
        \/ Break(t)
    BY <1>12 DEF Repeat
  <2>4. <<>> \in Seq(Items)
    OBVIOUS
  <2> HIDE DEF s, n
  <2>5. ASSUME n > 1, n <= Len(s) PROVE s \o v \in Seq(Items)
    <3>1. q \in Seq(Items)
      BY <2>2, <2>5, SubSeqProperties
    <3>2. n - 1 \in Nat
      BY <2>2, <2>5
    <3> HIDE DEF q
    <3>3. v \in Seq(Items)
      BY <3>1, <3>2, RepeatedIs
    <3> HIDE DEF v
    <3> QED
      BY <2>2, <3>3, ConcatProperties
  <2> HIDE DEF v
  <2>6. CASE n > 1 /\ n <= Len(s) /\ Store(t, s \o v, Value(<<>>))
    <3>1. s \o v \in Seq(Items)
      BY <2>5, <2>6
    <3> QED
      BY <2>1, <2>6, <3>1, Values0, StoreKeeps
  <2>7. CASE Store(t, <<>>, Value(<<>>)) \/ Store(t, s, Value(<<>>))
    BY <2>1, <2>2, <2>4, <2>7, Values0, StoreKeeps
  <2> QED
    BY <2>3, <2>6, <2>7, BreakContent
<1>13. ASSUME RepeatCopy(t) PROVE ContentInv'
  <2> DEFINE v == Repeated(s, call[t].count)
  <2>1. pc[t] = "locked" /\ call[t].op = "repeatCopy" /\ pc[t] # "idle" /\ call[t].op # "for"
    BY <1>13 DEF RepeatCopy, At
  <2>2. call[t].count \in Nat /\ s \in Seq(Items)
    BY <1>0, <2>1 DEF CallOK
  <2>3. v \in Seq(Items)
    BY <2>2, RepeatedIs
  <2>4. Leave(t, Value(v))
    BY <1>13 DEF RepeatCopy
  <2> HIDE DEF v
  <2>5. Value(v).value \in Seq(Int)
    BY <2>3, ItemsInt, ResultIs
  <2> QED
    BY <2>1, <2>4, <2>5, LeaveKeeps
<1> QED
  BY <1>2, <1>3, <1>4, <1>5, <1>7, <1>8, <1>9, <1>10, <1>11, <1>12, <1>13, IteratorKeeps DEF Work

LEMMA NextKeepsContent ==
  ASSUME ContentInv, [Next]_vars  PROVE ContentInv'
<1>1. CASE UNCHANGED vars
  BY <1>1, SameContent DEF vars
<1>2. ASSUME NEW a \in Literals, Forget(a) PROVE ContentInv'
  BY <1>2, SameContent DEF Forget
<1>3. ASSUME NEW t \in Threads, NEW c \in CallsOf[t], Call(t, c) PROVE ContentInv'
  <2>1. LocalOK(t, pc[t], call[t], at[t], copied[t], noted[t], result[t], before[t])
    BY LocalFacts
  <2>2. pc[t] = "idle" /\ UNCHANGED <<items, mods>>
    BY <1>3 DEF Call
  <2>3. Entry(c) \in {"index", "stride", "copy", "empty", "sizes", "iterator", "lock"}
        /\ (c.op \in {"setSlice", "delSlice"} => Entry(c) = "stride")
        /\ (c.op = "for" => Entry(c) = "iterator")
    BY DEF Entry, Indexed, Sliced, Scans
  <2>4. Sets(t, Entry(c), c, at[t], copied[t], noted[t], result[t], items)
    BY <1>3, LocalFacts DEF Call, Goto, Sets
  <2>5. LocalOK(t, Entry(c), c, at[t], copied[t], noted[t], result[t], items)
    BY <2>1, <2>2, <2>3 DEF LocalOK, ContentInv, Held
  <2>6. FaithfulOK(Entry(c), c, copied[t], noted[t], result[t], items, items', mods')
    BY <2>3 DEF FaithfulOK
  <2>7. Grows
    BY <2>2, SameGrows
  <2> QED
    BY <2>4, <2>5, <2>6, <2>7, StepKeepsContent
<1>4. ASSUME NEW t \in Threads, Return(t) PROVE ContentInv'
  <2>1. UNCHANGED <<items, mods>>
    BY <1>4 DEF Return
  <2>2. Sets(t, "idle", call[t], NoSlice, <<>>, 0, NoResult, <<>>)
    BY <1>4, LocalFacts DEF Return, Goto, Sets
  <2>3. NoResult.value = <<>> /\ <<>> \in Seq(Int) /\ <<>> \in Seq(Items)
    <3>1. NoResult.value = <<>>
      BY Zenon DEF NoResult
    <3> QED
      BY <3>1
  <2>4. LocalOK(t, "idle", call[t], NoSlice, <<>>, 0, NoResult, <<>>)
    BY <2>3 DEF LocalOK, NoSlice, IsSlice, Wide, SizeT
  <2>5. FaithfulOK("idle", call[t], <<>>, 0, NoResult, <<>>, items', mods')
    BY DEF FaithfulOK
  <2>6. Grows
    BY <2>1, SameGrows
  <2> QED
    BY <2>2, <2>4, <2>5, <2>6, StepKeepsContent
<1> QED
  BY <1>1, <1>2, <1>3, <1>4, ResolveKeeps, PrepareKeeps, WorkKeeps, ScanKeeps DEF Next, Step

LEMMA ContentAtFirst ==
  ASSUME Init  PROVE ContentInv
<1>1. Functions /\ Held
  BY ContentAssumption DEF Init, Functions, Held
<1>2. ASSUME NEW t \in Threads
      PROVE  /\ pc[t] = "idle" /\ at[t] = NoSlice /\ copied[t] = <<>> /\ noted[t] = 0
             /\ result[t] = NoResult
  BY DEF Init
<1>3. NoResult.value = <<>> /\ <<>> \in Seq(Int) /\ <<>> \in Seq(Items)
  <2>1. NoResult.value = <<>>
    BY Zenon DEF NoResult
  <2> QED
    BY <2>1
<1>4. IsSlice(NoSlice) /\ NoSlice.begin = 0 /\ NoSlice.count = 0 /\ NoSlice.step = 0 /\ NoSlice.stop = 0
  BY DEF IsSlice, NoSlice
<1>5. ASSUME NEW t \in Threads PROVE Local(t) /\ Faithful(t)
  <2>1. LocalOK(t, "idle", call[t], NoSlice, <<>>, 0, NoResult, before[t])
    BY <1>3, <1>4 DEF LocalOK, Wide, SizeT
  <2>2. FaithfulOK("idle", call[t], <<>>, 0, NoResult, before[t], items, mods)
    BY DEF FaithfulOK
  <2> QED
    BY <1>2, <2>1, <2>2 DEF Local, Faithful
<1> QED
  BY <1>1, <1>5 DEF ContentInv

LEMMA ContentAlways == Spec => []ContentInv
<1>1. Init => ContentInv
  BY ContentAtFirst
<1>2. ContentInv /\ [Next]_vars => ContentInv'
  BY NextKeepsContent
<1> QED
  BY <1>1, <1>2, PTL DEF Spec

\* Arrays hold items, whatever is inserted, removed, overwritten and repeated in
\* them, counters count, results are lists, and locks are held as they should.
THEOREM TypeCorrect == Spec => []TypeOK
<1>1. ContentInv /\ LocksHeld => TypeOK
  BY DEF ContentInv, Held, Local, LocalOK, TypeOK
<1> QED
  BY <1>1, ContentAlways, LocksAndMemory, PTL

\* An iterator gives what the array held when it was made, in order and without
\* gaps, ends only after all of it, and reports a change only when there was one.
THEOREM IteratorsFaithful == Spec => []IteratorFaithful
<1>1. ASSUME ContentInv PROVE IteratorFaithful
  <2> SUFFICES ASSUME NEW t \in Threads, call[t].op = "for", pc[t] \in {"lock", "locked", "done"}
      PROVE  LET a == call[t].array
             IN  /\ noted[t] <= mods[a]
                 /\ mods[a] = noted[t] => items[a] = before[t][a]
                 /\ copied[t] = SubSeq(before[t][a], 1, Len(copied[t]))
                 /\ pc[t] = "done" => IF result[t].raised = "" THEN result[t].value = before[t][a]
                                      ELSE mods[a] # noted[t]
    BY Zenon DEF IteratorFaithful
  <2> DEFINE a == call[t].array
             k == copied[t]
             s == before[t][a]
  <2>1. /\ LocalOK(t, pc[t], call[t], at[t], k, noted[t], result[t], before[t])
        /\ FaithfulOK(pc[t], call[t], k, noted[t], result[t], before[t], items, mods)
    BY <1>1, LocalFacts
  <2>2. call[t] \in CallsOf[t] /\ k \in Seq(Items) /\ before[t] \in [ArrayNames -> Seq(Items)]
    BY <2>1 DEF LocalOK
  <2>3. a \in ArrayNames
    BY <2>2, CallFacts
  <2>4. s \in Seq(Items) /\ Len(k) \in Nat /\ Len(s) \in Nat
    BY <2>2, <2>3, LenProperties
  <2>5. /\ noted[t] <= mods[a] /\ (mods[a] = noted[t] => items[a] = s)
        /\ Len(k) <= Len(s) /\ \A i \in 1 .. Len(k) : k[i] = s[i]
        /\ pc[t] = "done" => IF Good(result[t]) THEN result[t].value = s ELSE mods[a] # noted[t]
    BY <2>1 DEF FaithfulOK
  <2>6. k = SubSeq(s, 1, Len(k))
    <3> HIDE DEF k, s, a
    <3>1. /\ SubSeq(s, 1, Len(k)) \in Seq(Items) /\ Len(SubSeq(s, 1, Len(k))) = Len(k)
          /\ \A i \in 1 .. Len(k) : SubSeq(s, 1, Len(k))[i] = s[i]
      BY <2>4, <2>5, SubSeqProperties
    <3> DEFINE q == SubSeq(s, 1, Len(k))
    <3> HIDE DEF q
    <3>2. q \in Seq(Items) /\ Len(q) = Len(k) /\ \A i \in 1 .. Len(k) : q[i] = k[i]
      BY <2>5, <3>1 DEF q
    <3>3. k = q
      BY <2>2, <3>2, SeqEqual DEF k
    <3> QED
      BY <3>3 DEF q
  <2> HIDE DEF k, s, a
  <2>7. pc[t] = "done" => IF result[t].raised = "" THEN result[t].value = s ELSE mods[a] # noted[t]
    BY Zenon, <2>5 DEF Good
  <2> QED
    BY Zenon, <2>5, <2>6, <2>7 DEF k, s, a
<1>2. ContentInv => IteratorFaithful
  BY <1>1
<1> QED
  BY <1>2, ContentAlways, PTL

-----------------------------------------------------------------------------
(* What slices stand for, and what the loops over them make of a list. *)

\* Numbers that grow are as many as they have indices.
LEMMA GrowingCount ==
  ASSUME NEW n \in Nat, NEW f \in [1 .. n -> Int], \A i, j \in 1 .. n : i < j => f[i] < f[j]
  PROVE  IsFiniteSet({f[k] : k \in 1 .. n}) /\ Cardinality({f[k] : k \in 1 .. n}) = n
<1> DEFINE S == {f[k] : k \in 1 .. n}
<1>1. IsFiniteSet(1 .. n) /\ Cardinality(1 .. n) = n
  BY FS_Interval
<1>2. \A i, j \in 1 .. n : f[i] = f[j] => i = j
  <2> SUFFICES ASSUME NEW i \in 1 .. n, NEW j \in 1 .. n, f[i] = f[j], i # j PROVE FALSE
    OBVIOUS
  <2>1. i < j \/ j < i
    OBVIOUS
  <2>2. f[i] < f[j] \/ f[j] < f[i]
    BY <2>1
  <2>3. f[i] \in Int /\ f[j] \in Int
    OBVIOUS
  <2> QED
    BY <2>2, <2>3
<1>3. f \in [1 .. n -> S]
  OBVIOUS
<1>4. \A p \in S : \E k \in 1 .. n : f[k] = p
  OBVIOUS
<1> HIDE DEF S
<1>5. f \in Bijection(1 .. n, S)
  BY <1>2, <1>3, <1>4 DEF Bijection, Injection, Surjection, IsInjective
<1>6. IsFiniteSet(S) /\ Cardinality(S) = n
  BY <1>1, <1>5, FS_Bijection DEF ExistsBijection
<1> QED
  BY <1>6 DEF S

\* The numbers of a set in their order are a list that has them and grows.
LEMMA AscendingIs ==
  ASSUME NEW n \in Nat, NEW f \in [1 .. n -> Int], \A i, j \in 1 .. n : i < j => f[i] < f[j]
  PROVE  Ascending({f[k] : k \in 1 .. n}) = f
<1> DEFINE S == {f[k] : k \in 1 .. n}
           Rank(p) == Cardinality({q \in S : q < p})
<1>1. Cardinality(S) = n
  BY GrowingCount
<1>2. ASSUME NEW k \in 1 .. n PROVE Rank(f[k]) = k - 1
  <2> DEFINE g == [i \in 1 .. k - 1 |-> f[i]]
  <2>1. k - 1 \in Nat /\ \A i \in 1 .. k - 1 : i \in 1 .. n
    OBVIOUS
  <2>2. g \in [1 .. k - 1 -> Int] /\ \A i, j \in 1 .. k - 1 : i < j => g[i] < g[j]
    BY <2>1
  <2>3. Cardinality({g[i] : i \in 1 .. k - 1}) = k - 1
    BY <2>1, <2>2, GrowingCount
  <2>4. \A j \in 1 .. n : f[j] < f[k] => j \in 1 .. k - 1
    <3> SUFFICES ASSUME NEW j \in 1 .. n, f[j] < f[k], ~(j <= k - 1) PROVE FALSE
      OBVIOUS
    <3>1. j = k \/ k < j
      OBVIOUS
    <3>2. f[j] \in Int /\ f[k] \in Int
      OBVIOUS
    <3>3. CASE j = k
      BY <3>2, <3>3
    <3>4. CASE k < j
      <4>1. f[k] < f[j]
        BY <3>4
      <4> QED
        BY <3>2, <4>1
    <3> QED
      BY <3>1, <3>3, <3>4
  <2>5. \A i \in 1 .. k - 1 : i < k /\ g[i] = f[i] /\ f[i] < f[k]
    BY <2>1
  <2>6. {g[i] : i \in 1 .. k - 1} = {q \in S : q < f[k]}
    BY <2>1, <2>4, <2>5
  <2> QED
    BY <2>3, <2>6
<1>3. ASSUME NEW k \in 1 .. n PROVE (CHOOSE p \in S : Rank(p) = k - 1) = f[k]
  <2>1. \A p \in S : Rank(p) = k - 1 => p = f[k]
    <3> SUFFICES ASSUME NEW j \in 1 .. n, Rank(f[j]) = k - 1 PROVE f[j] = f[k]
      OBVIOUS
    <3>1. j - 1 = k - 1
      BY <1>2
    <3>2. j = k
      BY <3>1
    <3> QED
      BY <3>2
  <2>2. f[k] \in S /\ Rank(f[k]) = k - 1
    BY <1>2
  <2> HIDE DEF S, Rank
  <2> QED
    BY <2>1, <2>2
<1>4. Ascending(S) = [k \in 1 .. n |-> f[k]]
  BY <1>1, <1>3 DEF Ascending
<1> QED
  BY <1>4

-----------------------------------------------------------------------------
\* What division gives, and what gives it.
LEMMA DivMod ==
  ASSUME NEW x \in Nat, NEW d \in Nat \ {0}
  PROVE  /\ x \div d \in Nat /\ x % d \in 0 .. d - 1
         /\ x = d * (x \div d) + (x % d)
OBVIOUS

LEMMA DivModIs ==
  ASSUME NEW d \in Nat \ {0}, NEW q \in Nat, NEW r \in 0 .. d - 1, NEW x \in Nat, x = q * d + r
  PROVE  x \div d = q /\ x % d = r
<1> DEFINE y == x \div d
           z == x % d
<1>1. y \in Nat /\ z \in 0 .. d - 1 /\ x = d * y + z
  BY DivMod
<1> HIDE DEF y, z
<1>2. d * y = y * d
  BY <1>1
<1> DEFINE u == y * d
           v == q * d
<1>3. u \in Nat /\ v \in Nat /\ u + z = v + r
  <2>1. u \in Nat /\ v \in Nat
    BY <1>1
  <2> QED
    BY <1>1, <1>2, <2>1
<1>4. y = q
  <2>1. ASSUME y < q PROVE FALSE
    <3>1. (y + 1) * d <= q * d
      BY <1>1, <2>1, TimesLeast
    <3>2. (y + 1) * d = y * d + d
      BY <1>1
    <3>3. u + d <= v
      BY <3>1, <3>2
    <3> HIDE DEF u, v
    <3> QED
      BY <1>1, <1>3, <3>3
  <2>2. ASSUME q < y PROVE FALSE
    <3>1. (q + 1) * d <= y * d
      BY <1>1, <2>2, TimesLeast
    <3>2. (q + 1) * d = q * d + d
      BY <1>1
    <3>3. v + d <= u
      BY <3>1, <3>2
    <3> HIDE DEF u, v
    <3> QED
      BY <1>1, <1>3, <3>3
  <2> QED
    BY <1>1, <2>1, <2>2
<1>5. z = r
  <2>1. u = v
    BY <1>4
  <2> HIDE DEF u, v
  <2> QED
    BY <1>1, <1>3, <2>1
<1> QED
  BY <1>4, <1>5 DEF y, z

\* The multiples of d up to x.
LEMMA Multiples ==
  ASSUME NEW x \in Nat, NEW d \in Nat \ {0}
  PROVE  /\ \A k \in 1 .. (x \div d) + 1 : (k - 1) * d \in 0 .. x /\ ((k - 1) * d) % d = 0
         /\ \A y \in 0 .. x : y % d = 0 => \E k \in 1 .. (x \div d) + 1 : y = (k - 1) * d
<1> DEFINE q == x \div d
           r == x % d
<1>1. q \in Nat /\ r \in 0 .. d - 1 /\ x = d * q + r
  BY DivMod
<1> HIDE DEF q, r
<1>2. d * q = q * d /\ q * d \in Nat
  BY <1>1
<1>3. q * d <= x
  <2> DEFINE v == q * d
  <2> HIDE DEF v
  <2>1. v + r = x /\ v \in Nat
    BY <1>1, <1>2 DEF v
  <2>2. v <= x
    BY <1>1, <2>1
  <2> QED
    BY <2>2 DEF v
<1>4. ASSUME NEW k \in 1 .. q + 1 PROVE (k - 1) * d \in 0 .. x /\ ((k - 1) * d) % d = 0
  <2>1. k - 1 \in Nat /\ k - 1 <= q
    BY <1>1
  <2> DEFINE u == (k - 1) * d
             v == q * d
  <2>2. u \in Nat /\ u <= v
    BY <1>1, <2>1, TimesLeast
  <2>3. u % d = 0
    <3> DEFINE j == k - 1
    <3>1. u = j * d + 0 /\ u \in Nat /\ j \in Nat /\ 0 \in 0 .. d - 1
      BY <2>1, <2>2
    <3> HIDE DEF u, j
    <3> QED
      BY <3>1, DivModIs
  <2>4. v <= x /\ v \in Nat
    BY <1>2, <1>3
  <2> HIDE DEF u, v
  <2>5. u \in 0 .. x /\ u % d = 0
    BY <2>2, <2>3, <2>4
  <2> QED
    BY <2>5 DEF u
<1>5. ASSUME NEW y \in 0 .. x, y % d = 0 PROVE \E k \in 1 .. q + 1 : y = (k - 1) * d
  <2> DEFINE m == y \div d
  <2>1. m \in Nat /\ y = d * m + 0
    BY <1>5, DivMod
  <2> HIDE DEF m
  <2>2. y = m * d
    BY <2>1
  <2>3. m <= q
    <3> SUFFICES ASSUME q < m PROVE FALSE
      BY <1>1, <2>1
    <3>1. (q + 1) * d <= m * d
      BY <1>1, <2>1, TimesLeast
    <3>2. (q + 1) * d = q * d + d
      BY <1>1
    <3> DEFINE v == q * d
    <3>3. v \in Nat /\ v + r = x /\ v + d <= y
      BY <1>1, <1>2, <2>2, <3>1, <3>2
    <3> HIDE DEF v
    <3> QED
      BY <1>1, <3>3
  <2>4. m + 1 \in 1 .. q + 1 /\ (m + 1) - 1 = m
    BY <1>1, <2>1, <2>3
  <2> QED
    BY <2>2, <2>4
<1> QED
  BY <1>4, <1>5 DEF q

\* count places from i on in steps of d.
Run(i, d, count) == [k \in 1 .. count |-> i + (k - 1) * d + 1]

\* A slice that was resolved upwards stands for every d-th place from i to
\* stop, and one that was resolved downwards for those the other way round.
LEMMA RunUp ==
  ASSUME NEW i \in Nat, NEW stop \in Nat, i <= stop, NEW d \in Nat \ {0},
         NEW count, count = ((stop - i) \div d) + 1
  PROVE  /\ count \in Nat \ {0} /\ \A k \in 1 .. count : Run(i, d, count)[k] \in i + 1 .. stop + 1
         /\ Ascending(Upwards(i + 1, stop + 1, d)) = Run(i, d, count)
<1> DEFINE x == stop - i
           f == Run(i, d, count)
           S == Upwards(i + 1, stop + 1, d)
<1>1. x \in Nat /\ stop = i + x
  OBVIOUS
<1>2. count = (x \div d) + 1
  OBVIOUS
<1> HIDE DEF x
<1>3. x \div d \in Nat
  BY <1>1, DivMod
<1>4. count \in Nat \ {0}
  BY <1>2, <1>3
<1>5. /\ \A k \in 1 .. count : (k - 1) * d \in 0 .. x /\ ((k - 1) * d) % d = 0
      /\ \A y \in 0 .. x : y % d = 0 => \E k \in 1 .. count : y = (k - 1) * d
  <2>1. /\ \A k \in 1 .. (x \div d) + 1 : (k - 1) * d \in 0 .. x /\ ((k - 1) * d) % d = 0
        /\ \A y \in 0 .. x : y % d = 0 => \E k \in 1 .. (x \div d) + 1 : y = (k - 1) * d
    BY <1>1, Multiples
  <2> QED
    BY <1>2, <2>1, Zenon
<1>6. ASSUME NEW k \in 1 .. count
      PROVE  f[k] \in i + 1 .. stop + 1 /\ (f[k] - (i + 1)) % d = 0 /\ f[k] = i + (k - 1) * d + 1
  <2> DEFINE u == (k - 1) * d
  <2>1. u \in 0 .. x /\ u % d = 0 /\ f[k] = i + u + 1
    BY <1>5 DEF Run
  <2> HIDE DEF u, f
  <2>2. f[k] - (i + 1) = u /\ f[k] \in i + 1 .. stop + 1
    BY <1>1, <2>1
  <2> QED
    BY <2>1, <2>2 DEF u
<1>7. ASSUME NEW p \in S PROVE \E k \in 1 .. count : p = f[k]
  <2> DEFINE y == p - (i + 1)
  <2>1. y \in 0 .. x /\ y % d = 0 /\ p = i + y + 1
    BY <1>1 DEF Upwards
  <2> HIDE DEF y
  <2>2. PICK k \in 1 .. count : y = (k - 1) * d
    BY <1>5, <2>1
  <2> HIDE DEF f
  <2> QED
    BY <1>6, <2>1, <2>2
<1>8. f \in [1 .. count -> Int] /\ \A j, k \in 1 .. count : j < k => f[j] < f[k]
  <2>1. f \in [1 .. count -> Int]
    <3>1. \A k \in 1 .. count : f[k] \in Int
      BY <1>6
    <3> QED
      BY <3>1 DEF Run
  <2>2. ASSUME NEW j \in 1 .. count, NEW k \in 1 .. count, j < k PROVE f[j] < f[k]
    <3>1. j - 1 \in Nat /\ (j - 1) + 1 \in Nat /\ k - 1 \in Nat /\ (j - 1) + 1 <= k - 1
      BY <1>4, <2>2
    <3>2. ((j - 1) + 1) * d <= (k - 1) * d
      BY <3>1, TimesLeast
    <3>3. ((j - 1) + 1) * d = (j - 1) * d + d
      BY <3>1
    <3> DEFINE u == (j - 1) * d
               v == (k - 1) * d
    <3>4. u + d <= v /\ u \in Int /\ v \in Int /\ f[j] = i + u + 1 /\ f[k] = i + v + 1
      BY <1>6, <3>2, <3>3
    <3> HIDE DEF u, v, f
    <3> QED
      BY <3>4
  <2> QED
    BY <2>1, <2>2
<1> HIDE DEF f
<1>9. S = {f[k] : k \in 1 .. count}
  <2>1. \A k \in 1 .. count : f[k] \in S
    BY <1>6 DEF Upwards
  <2> HIDE DEF S
  <2> QED
    BY <1>7, <2>1
<1> HIDE DEF S
<1>10. Ascending(S) = f
  BY <1>4, <1>8, <1>9, AscendingIs
<1> QED
  BY <1>4, <1>6, <1>10 DEF S, f

LEMMA RunDown ==
  ASSUME NEW i \in Nat, NEW stop \in Nat, stop <= i, NEW d \in Nat \ {0}, NEW e, e = -d,
         NEW count, count = ((i - stop) \div d) + 1
  PROVE  /\ count \in Nat \ {0} /\ \A k \in 1 .. count : Run(i, e, count)[k] \in stop + 1 .. i + 1
         /\ Reverse(Ascending(Downwards(i + 1, stop + 1, d))) = Run(i, e, count)
<1> DEFINE x == i - stop
           f == Run(i, e, count)
           g == [k \in 1 .. count |-> f[(count - k) + 1]]
           S == Downwards(i + 1, stop + 1, d)
<1>1. x \in Nat /\ i = stop + x
  OBVIOUS
<1>2. count = (x \div d) + 1
  OBVIOUS
<1> HIDE DEF x
<1>3. x \div d \in Nat
  BY <1>1, DivMod
<1>4. count \in Nat \ {0} /\ \A k \in 1 .. count : (count - k) + 1 \in 1 .. count
  BY <1>2, <1>3
<1>5. /\ \A k \in 1 .. count : (k - 1) * d \in 0 .. x /\ ((k - 1) * d) % d = 0
      /\ \A y \in 0 .. x : y % d = 0 => \E k \in 1 .. count : y = (k - 1) * d
  <2>1. /\ \A k \in 1 .. (x \div d) + 1 : (k - 1) * d \in 0 .. x /\ ((k - 1) * d) % d = 0
        /\ \A y \in 0 .. x : y % d = 0 => \E k \in 1 .. (x \div d) + 1 : y = (k - 1) * d
    BY <1>1, Multiples
  <2> QED
    BY <1>2, <2>1, Zenon
<1>6. ASSUME NEW k \in 1 .. count
      PROVE  f[k] \in stop + 1 .. i + 1 /\ ((i + 1) - f[k]) % d = 0 /\ f[k] = i - (k - 1) * d + 1
  <2> DEFINE u == (k - 1) * d
             w == (k - 1) * (-d)
  <2>1. u \in 0 .. x /\ u % d = 0 /\ f[k] = i + w + 1
    BY <1>5 DEF Run
  <2>2. w = -u
    OBVIOUS
  <2> HIDE DEF u, f, w
  <2>3. (i + 1) - f[k] = u /\ f[k] \in stop + 1 .. i + 1 /\ f[k] = i - u + 1
    BY <1>1, <2>1, <2>2
  <2> QED
    BY <2>1, <2>3 DEF u
<1>7. ASSUME NEW p \in S PROVE \E k \in 1 .. count : p = f[k]
  <2> DEFINE y == (i + 1) - p
  <2>1. y \in 0 .. x /\ y % d = 0 /\ p = i - y + 1
    BY <1>1 DEF Downwards
  <2> HIDE DEF y
  <2>2. PICK k \in 1 .. count : y = (k - 1) * d
    BY <1>5, <2>1
  <2> HIDE DEF f
  <2> QED
    BY <1>6, <2>1, <2>2
<1>8. \A k \in 1 .. count : f[k] \in Int
  BY <1>6
<1>9. ASSUME NEW j \in 1 .. count, NEW k \in 1 .. count, j < k PROVE f[k] < f[j]
  <2>1. j - 1 \in Nat /\ (j - 1) + 1 \in Nat /\ k - 1 \in Nat /\ (j - 1) + 1 <= k - 1
    BY <1>4, <1>9
  <2>2. ((j - 1) + 1) * d <= (k - 1) * d
    BY <2>1, TimesLeast
  <2>3. ((j - 1) + 1) * d = (j - 1) * d + d
    BY <2>1
  <2> DEFINE u == (j - 1) * d
             v == (k - 1) * d
  <2>4. u + d <= v /\ u \in Int /\ v \in Int /\ f[j] = i - u + 1 /\ f[k] = i - v + 1
    BY <1>6, <2>2, <2>3
  <2> HIDE DEF u, v, f
  <2> QED
    BY <2>4
<1>10. f \in [1 .. count -> Int]
  BY <1>8 DEF Run
<1> HIDE DEF f
<1>12. g \in [1 .. count -> Int]
  BY <1>4, <1>8
<1>13. ASSUME NEW j \in 1 .. count, NEW k \in 1 .. count, j < k PROVE g[j] < g[k]
  <2>1. (count - k) + 1 < (count - j) + 1
    BY <1>4, <1>13
  <2> QED
    BY <1>4, <1>9, <2>1
<1>14. S = {g[k] : k \in 1 .. count}
  <2>1. \A k \in 1 .. count : g[k] = f[(count - k) + 1] /\ (count - ((count - k) + 1)) + 1 = k
    BY <1>4
  <2>2. \A k \in 1 .. count : g[k] \in S
    BY <1>4, <1>6, <2>1 DEF Downwards
  <2>3. \A k \in 1 .. count : f[k] = g[(count - k) + 1]
    BY <1>4, <2>1
  <2> HIDE DEF g
  <2>4. \A p \in S : \E k \in 1 .. count : p = g[k]
    BY <1>4, <1>7, <2>3
  <2> HIDE DEF S
  <2> QED
    BY <2>2, <2>4
<1> HIDE DEF S
<1>15. Ascending(S) = g
  <2> HIDE DEF g
  <2> QED
    BY <1>4, <1>12, <1>13, <1>14, AscendingIs
<1>16. Reverse(g) = f
  <2>1. Len(g) = count
    BY <1>4, <1>12, MadeSeq
  <2>2. Reverse(g) = [k \in 1 .. count |-> g[(count - k) + 1]]
    BY <2>1 DEF Reverse
  <2>3. \A k \in 1 .. count : g[(count - k) + 1] = f[k]
    <3>1. \A k \in 1 .. count : (count - ((count - k) + 1)) + 1 = k
      BY <1>4
    <3> QED
      BY <1>4, <3>1
  <2> HIDE DEF g
  <2>4. Reverse(g) = [k \in 1 .. count |-> f[k]]
    BY <2>2, <2>3
  <2> QED
    BY <1>10, <2>4
<1> HIDE DEF g
<1> QED
  BY <1>4, <1>6, <1>15, <1>16 DEF S, f

\* No numbers, in whichever order.
LEMMA NothingAscends == Ascending({}) = <<>> /\ Reverse(Ascending({})) = <<>>
<1> DEFINE f == [k \in 1 .. 0 |-> 0]
<1>1. f \in [1 .. 0 -> Int] /\ 0 \in Nat /\ f = <<>> /\ \A i, j \in 1 .. 0 : i < j => f[i] < f[j]
  OBVIOUS
<1>2. {f[k] : k \in 1 .. 0} = {}
  OBVIOUS
<1> HIDE DEF f
<1>3. Ascending({}) = <<>>
  BY <1>1, <1>2, AscendingIs
<1>4. Reverse(<<>>) = <<>>
  <2>1. Len(<<>>) = 0
    OBVIOUS
  <2>2. Reverse(<<>>) = [k \in 1 .. 0 |-> <<>>[(0 - k) + 1]]
    BY <2>1 DEF Reverse
  <2> QED
    BY <2>2
<1> QED
  BY <1>3, <1>4

\* What the boundaries i and stop and the step stand for are the positions that
\* the language names.
LEMMA StepIs ==
  ASSUME NEW n \in Nat, NEW c, c.step \in Int \cup {Absent}
  PROVE  StepOf(n, c) = (IF c.step = Absent THEN 1 ELSE c.step) /\ c.step \notin HugeSteps
BY BoundaryAssumption DEF StepOf, HugeSteps

LEMMA ChosenUp ==
  ASSUME NEW n \in Nat \ {0}, NEW c, c.step \in Int \cup {Absent}, NEW d \in Nat \ {0},
         d = IF c.step = Absent THEN 1 ELSE c.step,
         NEW i \in Nat, NEW stop \in Nat, i + 1 = First(n, c), stop + 1 = Final(n, c)
  PROVE  /\ Chosen(n, c) = Ascending(Upwards(i + 1, stop + 1, d))
         /\ stop < i => Chosen(n, c) = <<>>
<1>1. StepOf(n, c) = d /\ d > 0 /\ n # 0
  BY StepIs
<1>2. Chosen(n, c) = Ascending(Upwards(i + 1, stop + 1, d))
  BY <1>1 DEF Chosen
<1>3. stop < i => Upwards(i + 1, stop + 1, d) = {}
  BY DEF Upwards
<1> QED
  BY <1>2, <1>3, NothingAscends

LEMMA ChosenDown ==
  ASSUME NEW n \in Nat \ {0}, NEW c, NEW d \in Nat \ {0}, c.step = -d,
         NEW i \in Nat, NEW stop \in Nat, i + 1 = First(n, c), stop + 1 = Final(n, c)
  PROVE  /\ Chosen(n, c) = Reverse(Ascending(Downwards(i + 1, stop + 1, d)))
         /\ i < stop => Chosen(n, c) = <<>>
<1>1. StepOf(n, c) = -d /\ ~(-d > 0) /\ -(-d) = d /\ n # 0
  BY StepIs, BoundaryAssumption
<1>2. Chosen(n, c) = Reverse(Ascending(Downwards(i + 1, stop + 1, d)))
  BY <1>1 DEF Chosen
<1>3. i < stop => Downwards(i + 1, stop + 1, d) = {}
  BY DEF Downwards
<1> QED
  BY <1>2, <1>3, NothingAscends

\* The places of a run rise or fall with its step.
LEMMA RunOrder ==
  ASSUME NEW b \in Nat, NEW d \in Int \ {0}, NEW c \in Nat
  PROVE  /\ Run(b, d, c) \in [1 .. c -> Int]
         /\ \A j, k \in 1 .. c : j < k => IF d > 0 THEN Run(b, d, c)[j] < Run(b, d, c)[k]
                                                   ELSE Run(b, d, c)[k] < Run(b, d, c)[j]
<1> DEFINE f == Run(b, d, c)
<1>1. f \in [1 .. c -> Int]
  <2>1. \A k \in 1 .. c : b + (k - 1) * d + 1 \in Int
    OBVIOUS
  <2> QED
    BY <2>1 DEF Run
<1>2. \A k \in 1 .. c : f[k] = b + (k - 1) * d + 1
  BY DEF Run
<1> HIDE DEF f
<1>3. ASSUME NEW j \in 1 .. c, NEW k \in 1 .. c, j < k PROVE IF d > 0 THEN f[j] < f[k] ELSE f[k] < f[j]
  <2>1. j - 1 \in Nat /\ (j - 1) + 1 \in Nat /\ k - 1 \in Nat /\ (j - 1) + 1 <= k - 1
    BY <1>3
  <2> DEFINE u == (j - 1) * d
             v == (k - 1) * d
  <2>2. u \in Int /\ v \in Int /\ f[j] = b + u + 1 /\ f[k] = b + v + 1
    BY <1>2
  <2>3. CASE d > 0
    <3>1. d \in Nat
      BY <2>3
    <3>2. ((j - 1) + 1) * d <= (k - 1) * d
      BY <2>1, <3>1, TimesLeast
    <3>3. ((j - 1) + 1) * d = (j - 1) * d + d
      BY <2>1
    <3>4. u + d <= v
      BY <3>2, <3>3
    <3> HIDE DEF u, v
    <3> QED
      BY <2>2, <2>3, <3>4
  <2>4. CASE d < 0
    <3> DEFINE y == -d
    <3>1. y \in Nat
      BY <2>4
    <3>2. ((j - 1) + 1) * y <= (k - 1) * y
      BY <2>1, <3>1, TimesLeast
    <3>3. ((j - 1) + 1) * y = -u - d /\ (k - 1) * y = -v
      BY <2>1
    <3>4. -u - d <= -v
      BY <3>2, <3>3
    <3> HIDE DEF u, v
    <3> QED
      BY <2>2, <2>4, <3>4
  <2> QED
    BY <2>3, <2>4
<1> QED
  BY <1>1, <1>3 DEF f

\* Lists of positions: in their order, holding p, as items of s, and without the
\* one after i.
Rising(g, m)  == \A j, k \in 1 .. m : j < k => g[j] < g[k]
Has(g, m, p)  == \E j \in 1 .. m : p = g[j]
Kept(s, g, m) == [j \in 1 .. m |-> s[g[j]]]
Skip(g, i, m) == [j \in 1 .. m - 1 |-> IF j <= i THEN g[j] ELSE g[j + 1]]

\* A list without some of its positions.
LEMMA WithoutIs ==
  ASSUME NEW S, NEW s \in Seq(S), NEW positions, NEW m \in Nat, NEW g \in [1 .. m -> Int],
         Rising(g, m), \A p : p \in 1 .. Len(s) /\ p \notin Range(positions) <=> Has(g, m, p)
  PROVE  Without(s, positions) = Kept(s, g, m)
<1> DEFINE R == DOMAIN s \ Range(positions)
<1>1. DOMAIN s = 1 .. Len(s)
  BY LenProperties
<1>2. R = {g[k] : k \in 1 .. m}
  BY <1>1 DEF Has
<1> HIDE DEF R
<1>3. Ascending(R) = g
  BY <1>2, AscendingIs DEF Rising
<1>4. DOMAIN g = 1 .. m
  OBVIOUS
<1> QED
  BY <1>3, <1>4 DEF Without, Pick, R, Kept

\* Erasing one item of what is left of s.
LEMMA EraseTurn ==
  ASSUME NEW S, NEW s \in Seq(S), NEW m \in Nat, NEW g \in [1 .. m -> 1 .. Len(s)],
         Rising(g, m), NEW i \in Nat, i + 1 <= m
  PROVE  /\ Skip(g, i, m) \in [1 .. m - 1 -> 1 .. Len(s)]
         /\ Rising(Skip(g, i, m), m - 1)
         /\ Erase(Kept(s, g, m), i, 1) = Kept(s, Skip(g, i, m), m - 1)
         /\ \A p : Has(Skip(g, i, m), m - 1, p) <=> p # g[i + 1] /\ Has(g, m, p)
<1> DEFINE n == Len(s)
           h == Skip(g, i, m)
           r == Kept(s, g, m)
<1>1. n \in Nat /\ \A p \in 1 .. n : s[p] \in S
  BY LenProperties, ElementOfSeq
<1>2. r \in [1 .. m -> S]
  BY <1>1 DEF Kept
<1> HIDE DEF r
<1>3. r \in Seq(S) /\ Len(r) = m
  BY <1>2, MadeSeq
<1>4. \A j \in 1 .. m - 1 : j \in 1 .. m /\ j + 1 \in 1 .. m
  OBVIOUS
<1>5. h \in [1 .. m - 1 -> 1 .. n]
  BY <1>4 DEF Skip
<1>6. \A j \in 1 .. m - 1 : h[j] = IF j <= i THEN g[j] ELSE g[j + 1]
  BY DEF Skip
<1> HIDE DEF h, n
<1>7. Rising(h, m - 1)
  <2> SUFFICES ASSUME NEW j \in 1 .. m - 1, NEW k \in 1 .. m - 1, j < k PROVE h[j] < h[k]
    BY DEF Rising
  <2> DEFINE x == IF j <= i THEN j ELSE j + 1
             y == IF k <= i THEN k ELSE k + 1
  <2>1. x \in 1 .. m /\ y \in 1 .. m /\ x < y
    BY <1>4
  <2>2. h[j] = g[x] /\ h[k] = g[y]
    BY <1>6
  <2> HIDE DEF x, y
  <2> QED
    BY <2>1, <2>2 DEF Rising
<1>8. Erase(r, i, 1) = Kept(s, h, m - 1)
  <2> DEFINE e == Erase(r, i, 1)
             q == Kept(s, h, m - 1)
  <2>1. /\ e \in Seq(S) /\ Len(e) = m - 1
        /\ \A p \in 1 .. m - 1 : e[p] = IF p <= i THEN r[p] ELSE r[p + 1]
    <3> DEFINE P(x) == /\ Erase(x, i, 1) \in Seq(S) /\ Len(Erase(x, i, 1)) = Len(x) - 1
                       /\ \A p \in 1 .. Len(x) - 1 :
                            Erase(x, i, 1)[p] = IF p <= i THEN x[p] ELSE x[p + 1]
    <3>1. ASSUME NEW x \in Seq(S), i + 1 <= Len(x) PROVE P(x)
      <4>1. 1 \in Nat
        OBVIOUS
      <4> QED
        BY <3>1, <4>1, EraseIs
    <3>2. P(r)
      <4> HIDE DEF P
      <4>1. i + 1 <= Len(r)
        BY <1>3
      <4> QED
        BY <1>3, <3>1, <4>1
    <3> QED
      BY <1>3, <3>2
  <2>2. q \in [1 .. m - 1 -> S]
    BY <1>1, <1>5 DEF Kept
  <2>3. \A j \in 1 .. m - 1 : q[j] = s[h[j]]
    BY DEF Kept
  <2>4. m - 1 \in Nat
    OBVIOUS
  <2>5. \A p \in 1 .. m : r[p] = s[g[p]]
    BY DEF r, Kept
  <2> HIDE DEF e, q
  <2>6. q \in Seq(S) /\ Len(q) = m - 1
    BY <2>2, <2>4, MadeSeq
  <2>7. ASSUME NEW j \in 1 .. m - 1 PROVE e[j] = q[j]
    <3> DEFINE x == IF j <= i THEN j ELSE j + 1
    <3>1. x \in 1 .. m
      BY <1>4
    <3>2. h[j] = g[x] /\ e[j] = r[x]
      BY <1>6, <2>1
    <3> HIDE DEF x
    <3> QED
      BY <2>3, <2>5, <3>1, <3>2
  <2>8. e = q
    BY <2>1, <2>6, <2>7, SeqEqual
  <2> QED
    BY <2>8 DEF e, q
<1>9. ASSUME NEW p
      PROVE  Has(h, m - 1, p) <=> p # g[i + 1] /\ Has(g, m, p)
  <2>1. ASSUME NEW j \in 1 .. m - 1, p = h[j] PROVE p # g[i + 1] /\ \E k \in 1 .. m : p = g[k]
    <3>1. i + 1 \in 1 .. m
      OBVIOUS
    <3>2. CASE j <= i
      <4>1. p = g[j] /\ j < i + 1 /\ j \in 1 .. m
        BY <1>4, <1>6, <2>1, <3>2
      <4>2. g[j] < g[i + 1] /\ g[j] \in Int /\ g[i + 1] \in Int
        BY <1>1, <3>1, <4>1 DEF n, Rising
      <4> QED
        BY <4>1, <4>2
    <3>3. CASE ~(j <= i)
      <4>1. p = g[j + 1] /\ i + 1 < j + 1 /\ j + 1 \in 1 .. m
        BY <1>4, <1>6, <2>1, <3>3
      <4>2. g[i + 1] < g[j + 1] /\ g[j + 1] \in Int /\ g[i + 1] \in Int
        BY <1>1, <3>1, <4>1 DEF n, Rising
      <4> QED
        BY <4>1, <4>2
    <3> QED
      BY <3>2, <3>3
  <2>2. ASSUME NEW j \in 1 .. m, p = g[j], p # g[i + 1] PROVE \E k \in 1 .. m - 1 : p = h[k]
    <3>1. j # i + 1
      BY <2>2
    <3>2. CASE j <= i
      <4>1. j \in 1 .. m - 1 /\ h[j] = g[j]
        <5>1. j \in 1 .. m - 1
          BY <3>2
        <5> QED
          BY <1>6, <3>2, <5>1
      <4> QED
        BY <2>2, <4>1
    <3>3. CASE ~(j <= i)
      <4>1. j - 1 \in 1 .. m - 1 /\ ~(j - 1 <= i) /\ (j - 1) + 1 = j
        BY <3>1, <3>3
      <4>2. h[j - 1] = g[j]
        BY <1>6, <4>1
      <4> QED
        BY <2>2, <4>1, <4>2
    <3> QED
      BY <3>2, <3>3
  <2> QED
    BY <2>1, <2>2 DEF Has
<1> QED
  BY <1>5, <1>7, <1>8, <1>9 DEF n, h, r

\* How far the loop of removeSlice moves on, erasing forwards one place less than
\* the step; and the place that the turn k + 1 of it erases.
Shift(slice)   == IF slice.step > 0 THEN slice.step - 1 ELSE slice.step
Turn(slice, k) == slice.begin + k * Shift(slice)

\* That place is one of the slice, moved down with those before it or not at all.
LEMMA TurnFits ==
  ASSUME NEW n \in Nat, NEW slice, InRange(n, slice), NEW k \in Nat, k + 1 <= slice.count
  PROVE  /\ Turn(slice, k) \in Nat /\ Turn(slice, k) + 1 <= n - k
         /\ slice.step > 0 => Turn(slice, k) + 1 + k = slice.begin + k * slice.step + 1
         /\ slice.step < 0 => Turn(slice, k) + 1 = slice.begin + k * slice.step + 1
<1> DEFINE c == slice.count
           b == slice.begin
           d == slice.step
           i == Turn(slice, k)
<1>1. /\ b \in Nat /\ c \in Nat \ {0} /\ d \in Int \ {0} /\ b < n
      /\ (d < 0 => (c - 1) * (-d) <= b) /\ b + (c - 1) * d \in 0 .. n - 1
  BY SliceFits DEF InRange
<1>2. k <= c - 1 /\ c - 1 \in Nat /\ k + 1 <= c
  BY <1>1
<1>3. i = IF d > 0 THEN b + k * (d - 1) ELSE b + k * d
  BY DEF Turn, Shift
<1> HIDE DEF b, c, d, i
<1>4. CASE d > 0
  <2>1. d \in Nat
    BY <1>1, <1>4
  <2>2. k * d <= (c - 1) * d /\ k * d \in Nat /\ (c - 1) * d \in Nat
    BY <1>2, <2>1, TimesLeast
  <2>3. k * (d - 1) = k * d - k
    BY <2>1
  <2>4. d - 1 \in Nat /\ k * (d - 1) \in Nat
    <3>1. d - 1 \in Nat
      BY <1>4, <2>1
    <3> QED
      BY <3>1
  <2> DEFINE u == k * d
             v == (c - 1) * d
             w == k * (d - 1)
  <2>5. /\ u <= v /\ u \in Nat /\ v \in Nat /\ w = u - k /\ w \in Nat
        /\ i = b + w /\ b + v \in 0 .. n - 1
    BY <1>1, <1>3, <1>4, <2>2, <2>3, <2>4
  <2> HIDE DEF u, v, w
  <2>6. i \in Nat /\ i + 1 <= n - k /\ i + 1 + k = b + u + 1
    BY <1>1, <2>5
  <2> QED
    BY <1>4, <2>1, <2>6 DEF u, b, d, i
<1>5. CASE d < 0
  <2>1. -d \in Nat \ {0} /\ d \in Int /\ d <= -1 /\ ~(d > 0)
    BY <1>1, <1>5
  <2>2. k * (-d) <= (c - 1) * (-d) /\ k * (-d) \in Nat /\ (c - 1) * (-d) \in Nat
    BY <1>2, <2>1, TimesLeast
  <2>3. k * d = -(k * (-d))
    BY <2>1
  <2>4. k <= k * (-d)
    <3> DEFINE y == -d
    <3>1. y \in Nat \ {0}
      BY <2>1
    <3> HIDE DEF y
    <3>2. 1 * k <= y * k
      BY <3>1, TimesLeast
    <3>3. 1 * k = k /\ y * k = k * y
      BY <3>1
    <3> QED
      BY <3>2, <3>3 DEF y
  <2> DEFINE u == k * (-d)
             v == (c - 1) * (-d)
             w == k * d
  <2>5. /\ u <= v /\ u \in Nat /\ v \in Nat /\ w = -u /\ k <= u
        /\ i = b + w /\ v <= b /\ b < n
    BY <1>1, <1>3, <1>5, <2>1, <2>2, <2>3, <2>4
  <2> HIDE DEF u, v, w
  <2>6. i \in Nat /\ i + 1 <= n - k /\ i + 1 = b + w + 1
    BY <1>1, <2>5
  <2> QED
    BY <1>5, <2>1, <2>6 DEF w, b, d, i
<1> QED
  BY <1>1, <1>4, <1>5

\* The cursor of the loop moves by the same amount each time.
LEMMA TurnMoves ==
  ASSUME NEW slice, slice.begin \in Nat, slice.step \in Int \ {0}, NEW k \in Nat
  PROVE  /\ slice.step > 0 => Turn(slice, k) <= Turn(slice, k + 1)
         /\ slice.step < 0 => Turn(slice, k + 1) < Turn(slice, k)
         /\ Turn(slice, k) \in Int /\ Turn(slice, k + 1) = Turn(slice, k) + Shift(slice)
         /\ Turn(slice, 0) = slice.begin
<1> DEFINE x == Shift(slice)
           b == slice.begin
           d == slice.step
<1>1. b \in Nat /\ d \in Int \ {0} /\ x = IF d > 0 THEN d - 1 ELSE d
  BY DEF Shift
<1> HIDE DEF b, d, x
<1>2. x \in Int /\ (d > 0 => x >= 0) /\ (d < 0 => x < 0)
  BY <1>1
<1>3. (k + 1) * x = k * x + x /\ k * x \in Int /\ 0 * x = 0
  BY <1>2
<1> DEFINE u == k * x
           v == (k + 1) * x
           z == 0 * x
<1>4. v = u + x /\ u \in Int /\ z = 0
  BY <1>3
<1>5. Turn(slice, k) = b + u /\ Turn(slice, k + 1) = b + v /\ Turn(slice, 0) = b + z
  BY DEF Turn, b, x
<1> HIDE DEF u, v, z
<1> QED
  BY <1>1, <1>2, <1>4, <1>5 DEF b, d, x

\* What is left of s after k turns, l: the items at the positions g, which are
\* all but those that the slice has named so far.  The items that a turn still
\* erases are k places further down than in s, or where they were.
Left(s, slice, k, l, g) ==
  /\ g \in [1 .. Len(s) - k -> 1 .. Len(s)]
  /\ Rising(g, Len(s) - k)
  /\ l = Kept(s, g, Len(s) - k)
  /\ \A p : Has(g, Len(s) - k, p)
              <=> p \in 1 .. Len(s) /\ ~Has(Run(slice.begin, slice.step, slice.count), k, p)
  /\ slice.step > 0 => \A j \in 1 .. Len(s) - k : j >= Turn(slice, k) + 1 => g[j] = j + k
  /\ slice.step < 0 => \A j \in 1 .. Len(s) - k : j <= Turn(slice, k) + 1 => g[j] = j

\* One turn of the loop takes the next place of the run away.
LEMMA TurnLeaves ==
  ASSUME NEW S, NEW s \in Seq(S), NEW slice, InRange(Len(s), slice), NEW k \in Nat,
         k + 1 <= slice.count, NEW l, NEW g, Left(s, slice, k, l, g)
  PROVE  Left(s, slice, k + 1, Erase(l, Turn(slice, k), 1),
              Skip(g, Turn(slice, k), Len(s) - k))
<1> DEFINE n == Len(s)
           c == slice.count
           d == slice.step
           m == n - k
           i == Turn(slice, k)
           z == Turn(slice, k + 1)
           h == Skip(g, i, m)
           a == Run(slice.begin, d, c)
<1>1. n \in Nat
  BY LenProperties
<1>2. slice.begin \in Nat /\ c \in Nat \ {0} /\ d \in Int \ {0}
  BY DEF InRange
<1>3. i \in Nat /\ i + 1 <= m
  BY <1>1, TurnFits
<1>4. /\ d > 0 => i + 1 + k = a[k + 1]
      /\ d < 0 => i + 1 = a[k + 1]
  <2> DEFINE y == slice.begin + k * d + 1
  <2>1. (d > 0 => i + 1 + k = y) /\ (d < 0 => i + 1 = y)
    BY <1>1, TurnFits
  <2>2. k + 1 \in 1 .. c /\ (k + 1) - 1 = k
    BY <1>2
  <2>3. a[k + 1] = y
    BY <2>2 DEF Run
  <2> HIDE DEF y, a, i
  <2> QED
    BY <2>1, <2>3
<1>5. (d > 0 => i <= z) /\ (d < 0 => z < i) /\ z \in Int
  <2>1. k + 1 \in Nat
    OBVIOUS
  <2> QED
    BY <1>2, <2>1, TurnMoves
<1>6. /\ g \in [1 .. m -> 1 .. Len(s)] /\ Rising(g, m) /\ l = Kept(s, g, m)
      /\ \A p : Has(g, m, p) <=> p \in 1 .. n /\ ~Has(a, k, p)
      /\ d > 0 => \A j \in 1 .. m : j >= i + 1 => g[j] = j + k
      /\ d < 0 => \A j \in 1 .. m : j <= i + 1 => g[j] = j
  BY DEF Left
<1> HIDE DEF i, z, a, d
<1>7. m \in Nat /\ n - (k + 1) = m - 1 /\ i + 1 \in 1 .. m
  BY <1>1, <1>3
<1> HIDE DEF m
<1>8. /\ h \in [1 .. m - 1 -> 1 .. Len(s)] /\ Rising(h, m - 1)
      /\ Erase(Kept(s, g, m), i, 1) = Kept(s, h, m - 1)
      /\ \A p : Has(h, m - 1, p) <=> p # g[i + 1] /\ Has(g, m, p)
  <2>1. g \in [1 .. m -> 1 .. Len(s)] /\ Rising(g, m)
    BY <1>6
  <2> QED
    BY <1>3, <1>7, <2>1, EraseTurn
<1>9. \A j \in 1 .. m - 1 : h[j] = IF j <= i THEN g[j] ELSE g[j + 1]
  BY DEF Skip
<1> HIDE DEF h, n
<1>10. \A j \in 1 .. m - 1 : j \in 1 .. m /\ j + 1 \in 1 .. m
  BY <1>7
<1>11. g[i + 1] = a[k + 1]
  <2>1. CASE d > 0
    <3>1. g[i + 1] = (i + 1) + k
      BY <1>3, <1>6, <1>7, <2>1
    <3> QED
      BY <1>4, <2>1, <3>1
  <2>2. CASE d < 0
    <3>1. g[i + 1] = i + 1
      BY <1>3, <1>6, <1>7, <2>2
    <3> QED
      BY <1>4, <2>2, <3>1
  <2> QED
    BY <1>2, <2>1, <2>2 DEF d
<1>12. \A p : Has(h, m - 1, p) <=> p \in 1 .. n /\ ~Has(a, k + 1, p)
  <2>1. \A q : q \in 1 .. k + 1 <=> q \in 1 .. k \/ q = k + 1
    OBVIOUS
  <2>2. \A p : Has(a, k + 1, p) <=> Has(a, k, p) \/ p = a[k + 1]
    BY <2>1 DEF Has
  <2> QED
    BY <1>6, <1>8, <1>11, <2>2
<1>13. ASSUME d > 0, NEW j \in 1 .. m - 1, j >= z + 1 PROVE h[j] = j + (k + 1)
  <2>1. ~(j <= i) /\ j + 1 >= i + 1
    BY <1>3, <1>5, <1>13
  <2>2. h[j] = g[j + 1] /\ g[j + 1] = (j + 1) + k
    BY <1>6, <1>9, <1>10, <1>13, <2>1
  <2> QED
    BY <2>2
<1>14. ASSUME d < 0, NEW j \in 1 .. m - 1, j <= z + 1 PROVE h[j] = j
  <2>1. j <= i /\ j <= i + 1
    BY <1>3, <1>5, <1>14
  <2> QED
    BY <1>6, <1>9, <1>10, <1>14, <2>1
<1>15. Erase(l, i, 1) = Kept(s, h, m - 1)
  BY <1>6, <1>8
<1>16. Len(s) - (k + 1) = m - 1
  BY <1>7 DEF n
<1> QED
  BY <1>8, <1>12, <1>13, <1>14, <1>15, <1>16 DEF Left, a, d, i, z, h, m, n

\* removeSlice erases the items that the slice names and no others.
LEMMA EraseEachMeans ==
  ASSUME NEW S, NEW s \in Seq(S), NEW slice, InRange(Len(s), slice)
  PROVE  EraseEach(s, slice) = Without(s, Run(slice.begin, slice.step, slice.count))
<1> DEFINE n == Len(s)
           c == slice.count
           a == Run(slice.begin, slice.step, c)
<1>1. n \in Nat /\ \A p \in 1 .. n : s[p] \in S
  BY LenProperties, ElementOfSeq
<1>2. slice.begin \in Nat /\ c \in Nat \ {0} /\ slice.step \in Int \ {0}
  BY DEF InRange
<1>3. PICK f : EraseLoop(s, slice, c, f) /\ EraseEach(s, slice) = f[c].s
  BY <1>2, EraseLoopIs
<1> HIDE DEF c
<1>4. \A k \in 0 .. c : f[k] = IF k = 0 THEN [s |-> s, begin |-> slice.begin]
                               ELSE EraseOne(slice, f[k - 1])
  BY <1>3 DEF EraseLoop
<1> DEFINE T == {k \in Nat : k <= c => /\ f[k].begin = Turn(slice, k)
                                       /\ \E g : Left(s, slice, k, f[k].s, g)}
<1>5. 0 \in T
  <2>1. f[0].s = s /\ f[0].begin = slice.begin
    <3>1. f[0] = [s |-> s, begin |-> slice.begin]
      BY <1>2, <1>4
    <3> QED
      BY <3>1
  <2> DEFINE g == [j \in 1 .. n |-> j]
  <2>2. s = Kept(s, g, n)
    <3>1. s = [j \in 1 .. n |-> s[j]]
      BY LenProperties
    <3> QED
      BY <3>1 DEF Kept
  <2>3. g \in [1 .. n -> 1 .. n] /\ \A i \in 1 .. n : g[i] = i
    BY <1>1
  <2> HIDE DEF g
  <2>4. \A p : Has(g, n, p) <=> p \in 1 .. n
    BY <2>3 DEF Has
  <2>5. Len(s) - 0 = n
    BY <1>1
  <2>6. Rising(g, n) /\ (\A j \in 1 .. n : g[j] = j + 0) /\ \A p : ~Has(a, 0, p)
    BY <1>1, <2>3 DEF Rising, Has
  <2>7. Left(s, slice, 0, s, g)
    BY <2>2, <2>3, <2>4, <2>5, <2>6 DEF Left, c
  <2>8. Turn(slice, 0) = slice.begin
    BY <1>2, TurnMoves
  <2> QED
    BY <2>1, <2>7, <2>8
<1>6. ASSUME NEW k \in Nat, k \in T PROVE k + 1 \in T
  <2>1. ASSUME k + 1 <= c
        PROVE  f[k + 1].begin = Turn(slice, k + 1) /\ \E g : Left(s, slice, k + 1, f[k + 1].s, g)
    <3>1. k <= c /\ k + 1 \in 0 .. c /\ (k + 1) - 1 = k /\ k + 1 # 0
      BY <1>2, <2>1
    <3>2. f[k].begin = Turn(slice, k)
      BY <1>6, <3>1
    <3>3. PICK g : Left(s, slice, k, f[k].s, g)
      BY <1>6, <3>1
    <3>4. f[k + 1] = EraseOne(slice, f[k])
      BY <1>4, <3>1
    <3>5. f[k + 1].s = Erase(f[k].s, Turn(slice, k), 1)
      BY <3>2, <3>4 DEF EraseOne
    <3>6. f[k + 1].begin = (IF slice.step > 0 THEN f[k].begin - 1 ELSE f[k].begin) + slice.step
      BY <3>4 DEF EraseOne
    <3>7. Turn(slice, k) \in Int /\ Turn(slice, k + 1) = Turn(slice, k) + Shift(slice)
      BY <1>2, TurnMoves
    <3>8. f[k + 1].begin = Turn(slice, k + 1)
      BY <1>2, <3>2, <3>6, <3>7 DEF Shift
    <3>9. Left(s, slice, k + 1, Erase(f[k].s, Turn(slice, k), 1), Skip(g, Turn(slice, k), Len(s) - k))
      BY <2>1, <3>3, TurnLeaves DEF c
    <3> QED
      BY <3>5, <3>8, <3>9
  <2>2. k + 1 \in Nat
    OBVIOUS
  <2> QED
    BY <2>1, <2>2
<1>7. c \in T
  <2> HIDE DEF T
  <2>1. Nat \subseteq T
    BY <1>5, <1>6, NatInd
  <2> QED
    BY <1>2, <2>1
<1>8. PICK g : Left(s, slice, c, f[c].s, g)
  BY <1>2, <1>7
<1> DEFINE m == n - c
<1>9. m \in Nat
  <2>1. c <= n
    BY <1>1, SliceFits DEF c
  <2> QED
    BY <1>1, <1>2, <2>1
<1>10. /\ g \in [1 .. m -> 1 .. n] /\ Rising(g, m) /\ f[c].s = Kept(s, g, m)
       /\ \A p : Has(g, m, p) <=> p \in 1 .. n /\ ~Has(a, c, p)
  BY <1>8 DEF Left, c
<1>11. \A p : p \in Range(a) <=> Has(a, c, p)
  BY DEF Range, Run, Has
<1>12. Without(s, a) = Kept(s, g, m)
  <2> HIDE DEF m, n, a
  <2>1. g \in [1 .. m -> Int]
    BY <1>1, <1>10
  <2>2. \A p : p \in 1 .. Len(s) /\ p \notin Range(a) <=> Has(g, m, p)
    BY <1>10, <1>11 DEF n
  <2> QED
    BY <1>9, <1>10, <2>1, <2>2, WithoutIs
<1> QED
  BY <1>3, <1>10, <1>12 DEF a, c


\* Positions next to each other, and a single one, are erased at once.
LEMMA WithoutBlock ==
  ASSUME NEW S, NEW s \in Seq(S), NEW i \in Nat, NEW count \in Nat, i + count <= Len(s),
         NEW positions, Range(positions) = i + 1 .. i + count
  PROVE  Erase(s, i, count) = Without(s, positions)
<1> DEFINE n == Len(s)
           m == n - count
           g == [k \in 1 .. m |-> IF k <= i THEN k ELSE k + count]
           e == Erase(s, i, count)
           q == Kept(s, g, m)
<1>1. n \in Nat /\ m \in Nat /\ i <= m /\ i + count <= n /\ m + count = n
      /\ \A p \in 1 .. n : s[p] \in S
  BY LenProperties, ElementOfSeq
<1>2. e \in Seq(S) /\ Len(e) = m /\ \A p \in 1 .. m : e[p] = IF p <= i THEN s[p] ELSE s[p + count]
  <2>1. e \in Seq(S) /\ Len(e) = m
    BY EraseIs
  <2>2. ASSUME NEW p \in 1 .. m PROVE e[p] = IF p <= i THEN s[p] ELSE s[p + count]
    BY EraseIs
  <2> QED
    BY <2>1, <2>2
<1>3. \A k \in 1 .. m : g[k] = IF k <= i THEN k ELSE k + count
  OBVIOUS
<1> HIDE DEF n, m
<1>4. g \in [1 .. m -> 1 .. n]
  BY <1>1
<1> HIDE DEF g, e
<1>5. Rising(g, m)
  BY <1>1, <1>3 DEF Rising
<1>6. q \in [1 .. m -> S] /\ \A k \in 1 .. m : q[k] = s[g[k]]
  BY <1>1, <1>4 DEF Kept
<1> HIDE DEF q
<1>7. q \in Seq(S) /\ Len(q) = m
  BY <1>1, <1>6, MadeSeq
<1>8. \A k \in 1 .. m : e[k] = q[k]
  BY <1>1, <1>2, <1>3, <1>6
<1>9. e = q
  BY <1>2, <1>7, <1>8, SeqEqual
<1>10. ASSUME NEW p PROVE p \in 1 .. n /\ p \notin Range(positions) <=> Has(g, m, p)
  <2>1. ASSUME p \in 1 .. n, p \notin i + 1 .. i + count PROVE Has(g, m, p)
    <3>1. CASE p <= i
      <4>1. p \in 1 .. m
        BY <1>1, <2>1, <3>1
      <4>2. g[p] = p
        BY <1>3, <3>1, <4>1
      <4> QED
        BY <4>1, <4>2 DEF Has
    <3>2. CASE ~(p <= i)
      <4>1. p - count \in 1 .. m /\ ~(p - count <= i) /\ (p - count) + count = p
        BY <1>1, <2>1, <3>2
      <4>2. g[p - count] = (p - count) + count
        BY <1>3, <4>1
      <4> QED
        BY <4>1, <4>2 DEF Has
    <3> QED
      BY <3>1, <3>2
  <2>2. ASSUME NEW k \in 1 .. m, p = g[k] PROVE p \in 1 .. n /\ p \notin i + 1 .. i + count
    <3>1. CASE k <= i
      BY <1>1, <1>3, <2>2, <3>1
    <3>2. CASE ~(k <= i)
      BY <1>1, <1>3, <2>2, <3>2
    <3> QED
      BY <3>1, <3>2
  <2> QED
    BY <2>1, <2>2 DEF Has
<1>11. Without(s, positions) = q
  <2>1. g \in [1 .. m -> Int]
    BY <1>1, <1>4
  <2> QED
    BY <1>1, <1>5, <1>10, <2>1, WithoutIs DEF q, n
<1> QED
  BY <1>9, <1>11 DEF e

\* One step of 1 or -1 after the other.
LEMMA RunBlock ==
  ASSUME NEW b \in Nat, NEW count \in Nat
  PROVE  /\ Range(Run(b, 1, count)) = b + 1 .. b + count
         /\ Range(Run(b, -1, count)) = (b - count + 1) + 1 .. (b - count + 1) + count
<1>1. ASSUME NEW p \in b + 1 .. b + count PROVE p \in Range(Run(b, 1, count))
  <2>1. p - b \in 1 .. count
    OBVIOUS
  <2>2. Run(b, 1, count)[p - b] = p
    BY <2>1 DEF Run
  <2> QED
    BY <2>1, <2>2 DEF Range, Run
<1>2. ASSUME NEW p \in (b - count + 1) + 1 .. (b - count + 1) + count PROVE p \in Range(Run(b, -1, count))
  <2> DEFINE k == b + 2 - p
  <2>1. k \in 1 .. count /\ b + (k - 1) * (-1) + 1 = p
    OBVIOUS
  <2> HIDE DEF k
  <2>2. Run(b, -1, count)[k] = p
    BY <2>1 DEF Run
  <2>3. DOMAIN Run(b, -1, count) = 1 .. count
    BY DEF Run
  <2> QED
    BY <2>1, <2>2, <2>3 DEF Range
<1>3. \A k \in 1 .. count : b + (k - 1) * 1 + 1 \in b + 1 .. b + count
  OBVIOUS
<1>4. \A k \in 1 .. count : b + (k - 1) * (-1) + 1 \in (b - count + 1) + 1 .. (b - count + 1) + count
  OBVIOUS
<1>5. Range(Run(b, 1, count)) \subseteq b + 1 .. b + count
  BY <1>3 DEF Range, Run
<1>6. Range(Run(b, -1, count)) \subseteq (b - count + 1) + 1 .. (b - count + 1) + count
  BY <1>4 DEF Range, Run
<1> QED
  BY <1>1, <1>2, <1>5, <1>6

LEMMA WithoutOne ==
  ASSUME NEW S, NEW s \in Seq(S), NEW i \in Nat, i + 1 <= Len(s)
  PROVE  Erase(s, i, 1) = Without(s, <<i + 1>>)
<1> DEFINE a == <<i + 1>>
<1>1. Range(a) = i + 1 .. i + 1
  <2>1. DOMAIN a = {1} /\ a[1] = i + 1
    OBVIOUS
  <2> HIDE DEF a
  <2>2. Range(a) = {i + 1}
    BY <2>1 DEF Range
  <2> QED
    BY <2>2
<1> HIDE DEF a
<1>2. 1 \in Nat
  OBVIOUS
<1>3. Erase(s, i, 1) = Without(s, a)
  <2> DEFINE j == i + 1
             count == 1
  <2>1. j = i + count /\ count \in Nat /\ Range(a) = i + 1 .. j /\ j <= Len(s)
    BY <1>1
  <2> HIDE DEF count, j
  <2>2. Range(a) = i + 1 .. i + count /\ i + count <= Len(s)
    BY <2>1
  <2>3. Erase(s, i, count) = Without(s, a)
    BY <2>1, <2>2, WithoutBlock
  <2> QED
    BY <2>3 DEF count
<1> QED
  BY <1>3 DEF a

\* The three ways of removeSlice.
LEMMA SliceErased ==
  ASSUME NEW S, NEW s \in Seq(S), NEW slice, InRange(Len(s), slice)
  PROVE  LET a == Run(slice.begin, slice.step, slice.count)
         IN  /\ slice.step = 1 => Erase(s, slice.begin, slice.count) = Without(s, a)
             /\ slice.step = -1 =>
                  Erase(s, slice.begin - slice.count + 1, slice.count) = Without(s, a)
             /\ EraseEach(s, slice) = Without(s, a)
<1> DEFINE n == Len(s)
           c == slice.count
           b == slice.begin
           low == b - c + 1
<1>1. /\ n \in Nat /\ b \in Nat /\ c \in Nat
      /\ slice.step = 1 => b + c <= n
      /\ slice.step = -1 => low \in Nat /\ low + c <= n
  BY RunFits, LenProperties DEF InRange
<1>2. ASSUME slice.step = 1 PROVE Erase(s, b, c) = Without(s, Run(b, slice.step, c))
  <2> DEFINE a == Run(b, slice.step, c)
  <2>1. Range(a) = b + 1 .. b + c
    <3>1. Range(Run(b, 1, c)) = b + 1 .. b + c
      BY <1>1, RunBlock
    <3> QED
      BY <1>2, <3>1
  <2> HIDE DEF a, b, c
  <2> QED
    BY <1>1, <1>2, <2>1, WithoutBlock DEF a
<1>3. ASSUME slice.step = -1 PROVE Erase(s, low, c) = Without(s, Run(b, slice.step, c))
  <2> DEFINE a == Run(b, slice.step, c)
  <2>1. Range(a) = low + 1 .. low + c
    <3>1. Range(Run(b, -1, c)) = low + 1 .. low + c
      BY <1>1, RunBlock
    <3> QED
      BY <1>3, <3>1
  <2> HIDE DEF a, b, c, low
  <2> QED
    BY <1>1, <1>3, <2>1, WithoutBlock DEF a
<1> QED
  BY <1>2, <1>3, EraseEachMeans


\* The turn k of setSlice's loop takes the value From(slice, k), the last one
\* first when it goes backwards, and puts it where it belongs.
From(slice, k) == IF slice.step = -1 THEN slice.count - k + 1 ELSE k

\* The loop of setSlice uses each value and each place once, ...
LEMMA FromIs ==
  ASSUME NEW slice, slice.count \in Nat \ {0}, NEW k \in 1 .. slice.count
  PROVE  /\ From(slice, k) \in 1 .. slice.count
         /\ From(slice, From(slice, k)) = k
<1> DEFINE c == slice.count
<1>1. c \in Nat \ {0} /\ k \in 1 .. c
  OBVIOUS
<1> HIDE DEF c
<1>2. c - k + 1 \in 1 .. c /\ c - (c - k + 1) + 1 = k
  BY <1>1
<1> QED
  BY <1>1, <1>2 DEF From, c

Replaced(w, p, v) == [w EXCEPT ![p] = v]

\* ... the places are within the list, ...
LEMMA PlaceFits ==
  ASSUME NEW n \in Nat, NEW slice, InRange(n, slice), NEW k \in 1 .. slice.count
  PROVE  Run(slice.begin, slice.step, slice.count)[k] \in 1 .. n
<1> DEFINE c == slice.count
           j == k - 1
           u == slice.begin + j * slice.step
<1>1. Run(slice.begin, slice.step, c)[k] = u + 1
  BY DEF Run
<1>2. c \in Nat \ {0} /\ k \in 1 .. c
  BY DEF InRange
<1>3. u \in 0 .. n - 1
  <2> HIDE DEF c
  <2>1. j \in Nat /\ j <= c - 1
    BY <1>2
  <2> HIDE DEF j
  <2> QED
    BY <2>1, SliceFits DEF c
<1> HIDE DEF u
<1> QED
  BY <1>1, <1>3

\* ... and a turn of it replaces the item at one of them.
LEMMA OverwriteOneIs ==
  ASSUME NEW slice, slice.begin \in Nat, slice.count \in Nat \ {0}, slice.step \in Int,
         NEW k \in 1 .. slice.count, NEW w, NEW values
  PROVE  LET p == Run(slice.begin, slice.step, slice.count)[From(slice, k)]
         IN  /\ OverwriteOne(w, slice, values, FALSE, k) = Replaced(w, p, values[From(slice, k)])
             /\ OverwriteOne(w, slice, values, TRUE, k) = Replaced(w, p, w[From(slice, k)])
<1> DEFINE b == slice.begin
           c == slice.count
           d == slice.step
           to == IF d = -1 THEN b - c + k + 1 ELSE b + (k - 1) * d + 1
<1>1. Run(b, d, c)[From(slice, k)] = to
  <2>1. From(slice, k) \in 1 .. c
    BY FromIs
  <2>2. Run(b, d, c)[From(slice, k)] = b + (From(slice, k) - 1) * d + 1
    BY <2>1 DEF Run
  <2>3. CASE d = -1
    <3>1. From(slice, k) = c - k + 1
      BY <2>3 DEF From
    <3>2. b + ((c - k + 1) - 1) * (-1) + 1 = b - c + k + 1
      OBVIOUS
    <3> QED
      BY <2>2, <2>3, <3>1, <3>2
  <2>4. CASE d # -1
    BY <2>2, <2>4 DEF From
  <2> QED
    BY <2>3, <2>4
<1> HIDE DEF to
<1>2. /\ OverwriteOne(w, slice, values, FALSE, k) = Replaced(w, to, values[From(slice, k)])
      /\ OverwriteOne(w, slice, values, TRUE, k) = Replaced(w, to, w[From(slice, k)])
  BY DEF OverwriteOne, From, to, Replaced
<1> QED
  BY <1>1, <1>2

\* After k turns: the values of those turns are at their places, and the others
\* of s are where they were.
Overwrites(s, slice, values, k, w) ==
  LET a == Run(slice.begin, slice.step, slice.count)
  IN  /\ DOMAIN w = DOMAIN s
      /\ \A j \in 1 .. k : w[a[From(slice, j)]] = values[From(slice, j)]
      /\ \A p \in DOMAIN s : (\A j \in 1 .. k : p # a[From(slice, j)]) => w[p] = s[p]

\* A turn keeps what the earlier ones have written.
LEMMA OverwriteTurn ==
  ASSUME NEW S, NEW s \in Seq(S), NEW slice, InRange(Len(s), slice), NEW values,
         NEW k \in Nat, k + 1 <= slice.count, NEW w, Overwrites(s, slice, values, k, w)
  PROVE  Overwrites(s, slice, values, k + 1, OverwriteOne(w, slice, values, FALSE, k + 1))
<1> DEFINE c == slice.count
           a == Run(slice.begin, slice.step, c)
           from == From(slice, k + 1)
           z == OverwriteOne(w, slice, values, FALSE, k + 1)
<1>1. slice.begin \in Nat /\ c \in Nat \ {0} /\ slice.step \in Int \ {0} /\ k + 1 \in 1 .. c
  BY DEF InRange
<1>2. z = [w EXCEPT ![a[from]] = values[from]]
  <2> DEFINE m == k + 1
  <2>1. m \in 1 .. c /\ slice.step \in Int
    BY <1>1
  <2> HIDE DEF m
  <2>2. OverwriteOne(w, slice, values, FALSE, m) = Replaced(w, a[From(slice, m)], values[From(slice, m)])
    BY <1>1, <2>1, OverwriteOneIs
  <2> QED
    BY <2>2 DEF m, Replaced
<1>3. /\ DOMAIN w = DOMAIN s
      /\ \A j \in 1 .. k : w[a[From(slice, j)]] = values[From(slice, j)]
      /\ \A p \in DOMAIN s : (\A j \in 1 .. k : p # a[From(slice, j)]) => w[p] = s[p]
  BY DEF Overwrites
<1>4. ASSUME NEW i \in 1 .. c, NEW j \in 1 .. c, i # j PROVE a[i] # a[j]
  <2>1. /\ a \in [1 .. c -> Int]
        /\ \A l, m \in 1 .. c : l < m => IF slice.step > 0 THEN a[l] < a[m] ELSE a[m] < a[l]
    <3>1. c \in Nat
      BY <1>1
    <3> QED
      BY <1>1, <3>1, RunOrder
  <2> HIDE DEF a
  <2>2. i < j \/ j < i
    BY <1>1, <1>4
  <2>3. a[i] < a[j] \/ a[j] < a[i]
    BY <2>1, <2>2
  <2>4. a[i] \in Int /\ a[j] \in Int
    BY <2>1
  <2> QED
    BY <2>3, <2>4
<1>5. \A j \in 1 .. c : From(slice, j) \in 1 .. c /\ From(slice, From(slice, j)) = j
  BY <1>1, FromIs
<1>6. from \in 1 .. c /\ From(slice, from) = k + 1
  BY <1>1, <1>5
<1>7. \A j \in 1 .. c : a[j] \in DOMAIN s
  <2>1. Len(s) \in Nat /\ DOMAIN s = 1 .. Len(s)
    BY LenProperties
  <2> QED
    BY <2>1, PlaceFits
<1> HIDE DEF a, z
<1>8. DOMAIN z = DOMAIN s /\ z[a[from]] = values[from] /\ \A p \in DOMAIN s : p # a[from] => z[p] = w[p]
  BY <1>2, <1>3, <1>6, <1>7
<1>9. \A j \in 1 .. k : j \in 1 .. c /\ j # k + 1
  BY <1>1
<1>10. \A j : j \in 1 .. k + 1 <=> j \in 1 .. k \/ j = k + 1
  OBVIOUS
<1>11. ASSUME NEW j \in 1 .. k PROVE z[a[From(slice, j)]] = values[From(slice, j)]
  <2>1. From(slice, j) \in 1 .. c /\ From(slice, j) # from
    BY <1>5, <1>6, <1>9
  <2>2. a[From(slice, j)] # a[from]
    BY <1>4, <1>6, <2>1
  <2>3. a[From(slice, j)] \in DOMAIN s
    BY <1>7, <2>1
  <2> QED
    BY <1>3, <1>8, <2>2, <2>3
<1>12. \A j \in 1 .. k + 1 : z[a[From(slice, j)]] = values[From(slice, j)]
  BY <1>8, <1>10, <1>11
<1>13. \A p \in DOMAIN s : (\A j \in 1 .. k + 1 : p # a[From(slice, j)]) => z[p] = s[p]
  BY <1>3, <1>8, <1>10
<1> QED
  BY <1>8, <1>12, <1>13 DEF Overwrites, a, z

\* One value for each place.
LEMMA OverwrittenMeans ==
  ASSUME NEW S, NEW s \in Seq(S), NEW slice, InRange(Len(s), slice), NEW values \in Seq(S),
         Len(values) = slice.count, NEW up
  PROVE  Overwritten(s, slice, values, FALSE)
           = Placed(s, Run(slice.begin, slice.step, slice.count), values, up)
<1> DEFINE c == slice.count
           a == Run(slice.begin, slice.step, c)
           q == Placed(s, a, values, up)
<1>1. slice.begin \in Nat /\ c \in Nat \ {0} /\ slice.step \in Int \ {0}
  BY DEF InRange
<1>2. PICK f : /\ OverwriteLoop(s, slice, values, FALSE, c, f)
               /\ Overwritten(s, slice, values, FALSE) = f[c]
  BY <1>1, OverwriteLoopIs
<1>3. \A k \in 0 .. c : f[k] = IF k = 0 THEN s ELSE OverwriteOne(f[k - 1], slice, values, FALSE, k)
  BY <1>2 DEF OverwriteLoop
<1>4. a \in [1 .. c -> Int] /\ Len(a) = c
      /\ \A l, m \in 1 .. c : l < m => IF slice.step > 0 THEN a[l] < a[m] ELSE a[m] < a[l]
  <2>1. c \in Nat
    BY <1>1
  <2>2. a \in [1 .. c -> Int]
        /\ \A l, m \in 1 .. c : l < m => IF slice.step > 0 THEN a[l] < a[m] ELSE a[m] < a[l]
    BY <1>1, <2>1, RunOrder
  <2> HIDE DEF a
  <2> QED
    BY <2>1, <2>2, MadeSeq
<1> HIDE DEF c
<1> DEFINE T == {k \in Nat : k <= c => Overwrites(s, slice, values, k, f[k])}
<1>5. 0 \in T
  <2>1. 0 \in 0 .. c
    BY <1>1
  <2>2. f[0] = s
    BY <1>3, <2>1
  <2> QED
    BY <2>2 DEF Overwrites
<1>6. ASSUME NEW k \in Nat, k \in T PROVE k + 1 \in T
  <2>1. ASSUME k + 1 <= c PROVE Overwrites(s, slice, values, k + 1, f[k + 1])
    <3>1. k <= c /\ k + 1 \in 0 .. c /\ (k + 1) - 1 = k /\ k + 1 # 0
      BY <1>1, <2>1
    <3>2. f[k + 1] = OverwriteOne(f[k], slice, values, FALSE, k + 1)
      BY <1>3, <3>1
    <3>3. Overwrites(s, slice, values, k, f[k])
      BY <1>6, <3>1
    <3> QED
      BY <2>1, <3>2, <3>3, OverwriteTurn DEF c
  <2>2. k + 1 \in Nat
    OBVIOUS
  <2> QED
    BY <2>1, <2>2
<1>7. c \in T
  <2> HIDE DEF T
  <2>1. Nat \subseteq T
    BY <1>5, <1>6, NatInd
  <2> QED
    BY <1>1, <2>1
<1> DEFINE w == f[c]
<1>8. /\ DOMAIN w = DOMAIN s
      /\ \A j \in 1 .. c : w[a[From(slice, j)]] = values[From(slice, j)]
      /\ \A p \in DOMAIN s : (\A j \in 1 .. c : p # a[From(slice, j)]) => w[p] = s[p]
  BY <1>1, <1>7 DEF Overwrites, c
<1>9. \A j \in 1 .. c : From(slice, j) \in 1 .. c /\ From(slice, From(slice, j)) = j
  BY <1>1, FromIs DEF c
<1>10. w \in [1 .. Len(s) -> S]
  <2>1. Overwritten(s, slice, values, FALSE) \in Seq(S)
    BY OverwrittenIs
  <2>2. w \in Seq(S) /\ DOMAIN w = 1 .. Len(s)
    <3>1. DOMAIN s = 1 .. Len(s)
      BY LenProperties
    <3>2. w \in Seq(S)
      BY <1>2, <2>1
    <3> QED
      BY <1>8, <3>1, <3>2
  <2> HIDE DEF w
  <2>3. w \in [1 .. Len(w) -> S] /\ DOMAIN w = 1 .. Len(w)
    BY <2>2, LenProperties
  <2> QED
    BY <2>2, <2>3
<1> HIDE DEF w, a
<1>11. Len(values) = Len(a)
  BY <1>4 DEF c
<1>12. q = [p \in DOMAIN s |-> IF p \in Range(a) THEN values[CHOOSE k \in DOMAIN a : a[k] = p] ELSE s[p]]
  BY <1>11 DEF Placed
<1>13. ASSUME NEW p \in DOMAIN s PROVE q[p] = w[p]
  <2>1. DOMAIN a = 1 .. c
    BY <1>4
  <2>2. CASE p \in Range(a)
    <3>1. PICK k \in 1 .. c : a[k] = p
      BY <2>1, <2>2 DEF Range
    <3>2. \A m \in 1 .. c : a[m] = p => m = k
      <4> SUFFICES ASSUME NEW m \in 1 .. c, a[m] = p, m # k PROVE FALSE
        OBVIOUS
      <4>1. m < k \/ k < m
        BY <1>1
      <4>2. a[m] < a[k] \/ a[k] < a[m]
        BY <1>4, <4>1
      <4>3. a[m] \in Int /\ a[k] \in Int
        BY <1>4
      <4> QED
        BY <3>1, <4>2, <4>3
    <3>3. (CHOOSE m \in 1 .. c : a[m] = p) = k
      BY <3>1, <3>2
    <3>4. q[p] = values[k]
      BY <1>12, <2>1, <2>2, <3>3
    <3>5. From(slice, k) \in 1 .. c /\ From(slice, From(slice, k)) = k
      BY <1>9
    <3>6. w[p] = values[k]
      BY <1>8, <3>1, <3>5
    <3> QED
      BY <3>4, <3>6
  <2>3. CASE p \notin Range(a)
    <3>1. q[p] = s[p]
      BY <1>12, <2>3
    <3>2. \A j \in 1 .. c : p # a[From(slice, j)]
      BY <1>9, <2>1, <2>3 DEF Range
    <3>3. w[p] = s[p]
      BY <1>8, <3>2
    <3> QED
      BY <3>1, <3>3
  <2> QED
    BY <2>2, <2>3
<1>14. q = w
  <2>1. DOMAIN q = DOMAIN s /\ q = [p \in DOMAIN s |-> q[p]]
    BY <1>12
  <2>2. w = [p \in DOMAIN s |-> w[p]]
    BY <1>8, <1>10
  <2> HIDE DEF q
  <2> QED
    BY <1>13, <2>1, <2>2
<1> QED
  BY <1>2, <1>14 DEF w, a, c


\* As many places as there are positions, within bounds and not backwards one
\* by one: each position is its own place, ...
LEMMA AllPlaces ==
  ASSUME NEW n \in Nat, NEW slice, InRange(n, slice), slice.count = n, slice.step # -1
  PROVE  \A k \in 1 .. n : Run(slice.begin, slice.step, slice.count)[k] = k
<1> DEFINE b == slice.begin
           d == slice.step
           c == slice.count
<1>1. /\ b \in Nat /\ c \in Nat \ {0} /\ d \in Int \ {0} /\ b < n /\ c = n /\ d # -1
      /\ (d < 0 => (c - 1) * (-d) <= b) /\ b + (c - 1) * d \in 0 .. n - 1
  BY SliceFits DEF InRange
<1>2. Run(b, d, c) = [k \in 1 .. c |-> b + (k - 1) * d + 1]
  BY DEF Run
<1> HIDE DEF b, d, c
<1>3. c - 1 \in Nat
  BY <1>1
<1>4. CASE d = 1
  <2>1. b + (c - 1) * 1 \in 0 .. n - 1 /\ (c - 1) * 1 = c - 1
    BY <1>1, <1>3, <1>4
  <2>2. b = 0
    BY <1>1, <2>1
  <2>3. \A k \in 1 .. n : 0 + (k - 1) * 1 + 1 = k
    OBVIOUS
  <2>4. \A k \in 1 .. n : Run(b, d, c)[k] = b + (k - 1) * d + 1
    BY <1>1, <1>2
  <2> QED
    BY <1>4, <2>2, <2>3, <2>4 DEF b, d, c
<1>5. CASE d # 1
  <2> DEFINE m == c - 1
             y == IF d > 0 THEN d ELSE -d
             u == m * y
  <2>1. y \in Nat /\ 2 <= y /\ m \in Nat
    BY <1>1, <1>3, <1>5
  <2>2. 2 * m <= y * m /\ y * m = m * y
    <3> HIDE DEF y, m
    <3>1. 2 * m <= y * m
      BY <2>1, TimesLeast
    <3> QED
      BY <2>1, <3>1
  <2>3. u <= m
    <3>1. CASE d > 0
      <4>1. b + u \in 0 .. n - 1 /\ n - 1 = m
        BY <1>1, <3>1
      <4>2. u \in Int
        BY <2>1
      <4> HIDE DEF u, m
      <4> QED
        BY <1>1, <4>1, <4>2
    <3>2. CASE ~(d > 0)
      <4>1. u <= b /\ b <= m
        BY <1>1, <3>2
      <4>2. u \in Int /\ m \in Int
        BY <2>1
      <4> HIDE DEF u, m
      <4> QED
        BY <1>1, <4>1, <4>2
    <3> QED
      BY <3>1, <3>2
  <2>4. m = 0
    <3>1. 2 * m <= u
      BY <2>2
    <3>2. u \in Int
      BY <2>1
    <3> HIDE DEF u, m
    <3> QED
      BY <2>1, <2>3, <3>1, <3>2
  <2>5. n = 1 /\ b = 0 /\ c = 1
    BY <1>1, <2>4
  <2>6. Run(b, d, c)[1] = b + (1 - 1) * d + 1
    BY <1>2, <2>5
  <2>7. (1 - 1) * d = 0
    BY <1>1
  <2>8. Run(b, d, c)[1] = 1
    BY <2>5, <2>6, <2>7
  <2>9. \A k \in 1 .. n : k = 1
    BY <2>5
  <2> QED
    BY <2>8, <2>9 DEF b, d, c
<1> QED
  BY <1>4, <1>5

\* ... and an array that is overwritten with itself stays as it is.
LEMMA OwnOverwritten ==
  ASSUME NEW S, NEW s \in Seq(S), NEW slice, InRange(Len(s), slice),
         slice.count = Len(s), slice.step # -1, NEW values, NEW up
  PROVE  Overwritten(s, slice, values, TRUE)
           = Placed(s, Run(slice.begin, slice.step, slice.count), s, up)
<1> DEFINE c == slice.count
           a == Run(slice.begin, slice.step, c)
           q == Placed(s, a, s, up)
<1>1. slice.begin \in Nat /\ c \in Nat \ {0} /\ slice.step \in Int \ {0} /\ c = Len(s)
      /\ DOMAIN s = 1 .. c /\ s = [p \in 1 .. c |-> s[p]]
  BY LenProperties DEF InRange
<1>2. PICK f : /\ OverwriteLoop(s, slice, values, TRUE, c, f)
               /\ Overwritten(s, slice, values, TRUE) = f[c]
  <2>1. c \in Nat
    BY <1>1
  <2> QED
    BY <2>1, OverwriteLoopIs
<1>3. \A k \in 0 .. c : f[k] = IF k = 0 THEN s ELSE OverwriteOne(f[k - 1], slice, values, TRUE, k)
  BY <1>2 DEF OverwriteLoop
<1>4. \A k \in 1 .. c : a[k] = k
  BY <1>1, AllPlaces
<1>5. \A k \in 1 .. c : From(slice, k) = k
  BY DEF From
<1>6. DOMAIN a = 1 .. c /\ Len(a) = c
  <2>1. \A k \in 1 .. c : a[k] \in 1 .. c
    BY <1>4
  <2>2. a \in [1 .. c -> 1 .. c]
    BY <2>1 DEF Run
  <2> HIDE DEF a
  <2> QED
    BY <1>1, <2>2, MadeSeq
<1> HIDE DEF c
<1>7. ASSUME NEW k \in 1 .. c PROVE OverwriteOne(s, slice, values, TRUE, k) = s
  <2>1. OverwriteOne(s, slice, values, TRUE, k) = Replaced(s, a[From(slice, k)], s[From(slice, k)])
    BY <1>1, OverwriteOneIs DEF c
  <2> HIDE DEF a
  <2>2. OverwriteOne(s, slice, values, TRUE, k) = Replaced(s, k, s[k])
    BY <1>4, <1>5, <2>1
  <2> QED
    BY <1>1, <2>2 DEF Replaced
<1> HIDE DEF a
<1> DEFINE T == {k \in Nat : k <= c => f[k] = s}
<1>8. 0 \in T
  <2>1. 0 \in 0 .. c
    BY <1>1
  <2> QED
    BY <1>3, <2>1
<1>9. ASSUME NEW k \in Nat, k \in T PROVE k + 1 \in T
  <2>1. ASSUME k + 1 <= c PROVE f[k + 1] = s
    <3>1. k <= c /\ k + 1 \in 0 .. c /\ (k + 1) - 1 = k /\ k + 1 # 0 /\ k + 1 \in 1 .. c
      BY <1>1, <2>1
    <3>2. f[k] = s
      BY <1>9, <3>1
    <3> QED
      BY <1>3, <1>7, <3>1, <3>2
  <2>2. k + 1 \in Nat
    OBVIOUS
  <2> QED
    BY <2>1, <2>2
<1>10. c \in T
  <2> HIDE DEF T
  <2>1. Nat \subseteq T
    BY <1>8, <1>9, NatInd
  <2> QED
    BY <1>1, <2>1
<1>11. f[c] = s
  BY <1>1, <1>10
<1>12. q = s
  <2>1. Len(s) = Len(a)
    BY <1>1, <1>6
  <2>2. q = [p \in DOMAIN s |-> IF p \in Range(a) THEN s[CHOOSE k \in DOMAIN a : a[k] = p] ELSE s[p]]
    BY <2>1 DEF Placed
  <2>3. ASSUME NEW p \in 1 .. c PROVE (CHOOSE k \in DOMAIN a : a[k] = p) = p
    <3>1. p \in DOMAIN a /\ a[p] = p /\ \A k \in DOMAIN a : a[k] = p => k = p
      BY <1>4, <1>6
    <3> QED
      BY <3>1
  <2>4. \A p \in 1 .. c : q[p] = s[p]
    BY <1>1, <2>2, <2>3
  <2>5. q = [p \in 1 .. c |-> q[p]]
    BY <1>1, <2>2
  <2> HIDE DEF q
  <2> QED
    BY <1>1, <2>4, <2>5
<1> QED
  BY <1>2, <1>11, <1>12 DEF a, c


\* The beginning and the end of a list, and of two lists in a row.
LEMMA Parts ==
  ASSUME NEW S, NEW s \in Seq(S), NEW i \in Nat, i <= Len(s)
  PROVE  /\ SubSeq(s, 1, i) \in Seq(S) /\ Len(SubSeq(s, 1, i)) = i
         /\ \A p \in 1 .. i : SubSeq(s, 1, i)[p] = s[p]
         /\ SubSeq(s, i + 1, Len(s)) \in Seq(S)
<1> DEFINE m == Len(s)
           k == i + 1
<1>1. m \in Nat /\ i <= m /\ \A p \in 1 .. m : s[p] \in S
  BY ElementOfSeq, LenProperties
<1> HIDE DEF m
<1>2. /\ SubSeq(s, 1, i) \in Seq(S) /\ Len(SubSeq(s, 1, i)) = i
      /\ \A p \in 1 .. i : SubSeq(s, 1, i)[p] = s[p]
  <2>1. 1 \in Int /\ i \in Int /\ \A p \in 1 .. i : s[p] \in S
    BY <1>1
  <2>2. /\ SubSeq(s, 1, i) \in Seq(S)
        /\ Len(SubSeq(s, 1, i)) = IF 1 <= i THEN i - 1 + 1 ELSE 0
        /\ \A p \in 1 .. i - 1 + 1 : SubSeq(s, 1, i)[p] = s[1 + p - 1]
    BY <2>1, SubSeqProperties
  <2> DEFINE q == SubSeq(s, 1, i)
  <2> HIDE DEF q
  <2>3. q \in Seq(S) /\ Len(q) = (IF 1 <= i THEN i - 1 + 1 ELSE 0)
        /\ \A p \in 1 .. i - 1 + 1 : q[p] = s[1 + p - 1]
    BY <2>2 DEF q
  <2>4. q \in Seq(S) /\ Len(q) = i /\ \A p \in 1 .. i : q[p] = s[p]
    <3>1. i - 1 + 1 = i /\ \A p \in 1 .. i : 1 + p - 1 = p
      OBVIOUS
    <3> QED
      BY <2>3, <3>1
  <2> QED
    BY <2>4 DEF q
<1>3. SubSeq(s, k, m) \in Seq(S)
  <2>1. k \in Int /\ m \in Int /\ \A p \in k .. m : s[p] \in S
    BY <1>1
  <2> HIDE DEF k
  <2> QED
    BY <2>1, SubSeqProperties
<1> QED
  BY <1>2, <1>3 DEF m

LEMMA Halves ==
  ASSUME NEW S, NEW x \in Seq(S), NEW y \in Seq(S)
  PROVE  /\ SubSeq(x \o y, 1, Len(x)) = x
         /\ SubSeq(x \o y, Len(x) + 1, Len(x \o y)) = y
<1> DEFINE e == x \o y
           m == Len(x)
           n == Len(y)
           k == m + 1
           z == m + n
           v == SubSeq(e, 1, m)
           w == SubSeq(e, k, z)
<1>1. /\ m \in Nat /\ n \in Nat
      /\ \A p \in 1 .. m : x[p] \in S
      /\ \A p \in 1 .. n : y[p] \in S
  BY LenProperties, ElementOfSeq
<1>2. /\ e \in Seq(S) /\ Len(e) = z
      /\ \A i \in 1 .. z : e[i] = IF i <= m THEN x[i] ELSE y[i - m]
  BY ConcatProperties
<1>3. z \in Nat /\ m <= z
  BY <1>1
<1> HIDE DEF e
<1>4. v = x
  <2>1. m <= Len(e)
    BY <1>2, <1>3
  <2>2. v \in Seq(S) /\ Len(v) = m /\ \A p \in 1 .. m : v[p] = e[p]
    <3> HIDE DEF m
    <3> QED
      BY <1>1, <1>2, <2>1, Parts
  <2>3. \A p \in 1 .. m : e[p] = x[p]
    BY <1>1, <1>2
  <2>4. \A p \in 1 .. m : v[p] = x[p]
    BY <2>2, <2>3
  <2> HIDE DEF v
  <2> QED
    BY <2>2, <2>4, SeqEqual
<1>5. w = y
  <2>1. k \in Int /\ z \in Int /\ \A p \in k .. z : e[p] \in S
    <3>1. \A p \in k .. z : p \in 1 .. z /\ ~(p <= m) /\ p - m \in 1 .. n
      BY <1>1
    <3> QED
      BY <1>1, <1>2, <3>1
  <2>2. w \in Seq(S) /\ Len(w) = (IF k <= z THEN z - k + 1 ELSE 0)
        /\ \A p \in 1 .. z - k + 1 : w[p] = e[k + p - 1]
    <3> HIDE DEF k, z
    <3> QED
      BY <2>1, SubSeqProperties
  <2>3. z - k + 1 = n
    BY <1>1
  <2> HIDE DEF w
  <2>4. Len(w) = n
    BY <1>1, <2>2
  <2>5. ASSUME NEW p \in 1 .. n PROVE w[p] = y[p]
    <3>1. k + p - 1 \in 1 .. z /\ ~(k + p - 1 <= m) /\ (k + p - 1) - m = p
      BY <1>1
    <3> DEFINE i == k + p - 1
    <3>2. w[p] = e[i]
      BY <2>2, <2>3
    <3>3. i \in 1 .. z /\ ~(i <= m) /\ i - m = p
      BY <3>1
    <3> HIDE DEF i
    <3>4. e[i] = y[i - m]
      BY <1>2, <3>3
    <3> QED
      BY <3>2, <3>3, <3>4
  <2> QED
    BY <2>2, <2>4, <2>5, SeqEqual
<1> QED
  BY <1>2, <1>4, <1>5 DEF e

\* Values in place of others that lie next to each other.
LEMMA BlockReplaced ==
  ASSUME NEW S, NEW s \in Seq(S), NEW i \in Nat, NEW count \in Nat, i + count <= Len(s),
         NEW v
  PROVE  Insert(Erase(s, i, count), i, v) = SubSeq(s, 1, i) \o v \o SubSeq(s, i + count + 1, Len(s))
<1> DEFINE x == SubSeq(s, 1, i)
           j == i + count
           y == SubSeq(s, j + 1, Len(s))
           e == Erase(s, i, count)
<1>1. Len(s) \in Nat /\ j \in Nat /\ i <= Len(s) /\ j <= Len(s)
  BY LenProperties
<1>2. e = x \o y
  BY DEF Erase
<1>3. x \in Seq(S) /\ Len(x) = i
  BY <1>1, Parts
<1>4. y \in Seq(S)
  <2> HIDE DEF j
  <2> QED
    BY <1>1, Parts
<1> HIDE DEF e, x, y
<1>5. SubSeq(e, 1, i) = x /\ SubSeq(e, i + 1, Len(e)) = y
  <2>1. SubSeq(x \o y, 1, Len(x)) = x /\ SubSeq(x \o y, Len(x) + 1, Len(x \o y)) = y
    BY <1>3, <1>4, Halves
  <2> QED
    BY <1>2, <1>3, <2>1
<1>6. Insert(e, i, v) = SubSeq(e, 1, i) \o v \o SubSeq(e, i + 1, Len(e))
  BY DEF Insert
<1>7. Insert(e, i, v) = x \o v \o y
  BY <1>5, <1>6
<1> QED
  BY <1>7 DEF e, x, y

\* setSlice with more or fewer values than places: they take the place of the
\* block, the other way round when the slice goes backwards.
LEMMA SplicedMeans ==
  ASSUME NEW S, NEW s \in Seq(S), NEW slice, InRange(Len(s), slice), slice.step \in {1, -1},
         NEW values \in Seq(S), Len(values) # slice.count,
         NEW up, up <=> slice.step # -1
  PROVE  Spliced(s, slice, values)
           = Placed(s, Run(slice.begin, slice.step, slice.count), values, up)
<1> DEFINE n == Len(s)
           c == slice.count
           b == slice.begin
           d == slice.step
           a == Run(b, d, c)
           low == IF d = 1 THEN b ELSE b - c + 1
           v == IF d = 1 THEN values ELSE Reverse(values)
<1>1. /\ n \in Nat /\ b \in Nat /\ c \in Nat \ {0}
      /\ d = 1 => b + c <= n
      /\ d = -1 => b - c + 1 \in Nat /\ b - c + 1 + c <= n
  BY RunFits, LenProperties DEF InRange
<1>2. low \in Nat /\ low + c <= n /\ (d = 1 \/ d = -1) /\ (up <=> d = 1)
  BY <1>1
<1>3. Spliced(s, slice, values) = Insert(Erase(s, low, c), low, v)
  BY <1>2 DEF Spliced
<1>4. Range(a) = low + 1 .. low + c
  <2>1. /\ Range(Run(b, 1, c)) = b + 1 .. b + c
        /\ Range(Run(b, -1, c)) = (b - c + 1) + 1 .. (b - c + 1) + c
    BY <1>1, RunBlock
  <2>2. CASE d = 1
    BY <2>1, <2>2
  <2>3. CASE d = -1
    BY <2>1, <2>3
  <2> QED
    BY <1>2, <2>2, <2>3
<1>5. Len(a) = c
  <2>1. c \in Nat /\ d \in Int \ {0}
    BY <1>1, <1>2
  <2>2. a \in [1 .. c -> Int]
    BY <1>1, <2>1, RunOrder
  <2> HIDE DEF a
  <2> QED
    BY <2>1, <2>2, MadeSeq
<1> HIDE DEF n, b, c, d, a, low
<1>6. Min(Range(a)) = low + 1
  <2> DEFINE R == Range(a)
  <2>1. low + 1 \in R /\ \A p \in R : low + 1 <= p
    BY <1>1, <1>2, <1>4
  <2>2. \A x \in R : (\A p \in R : x <= p) => x = low + 1
    BY <1>1, <1>2, <1>4, <2>1
  <2> HIDE DEF R
  <2>3. (CHOOSE x \in R : \A p \in R : x <= p) = low + 1
    BY <2>1, <2>2
  <2> QED
    BY <2>3 DEF R, Min
<1>7. Placed(s, a, values, up)
        = SubSeq(s, 1, (low + 1) - 1) \o (IF up THEN values ELSE Reverse(values))
            \o SubSeq(s, (low + 1) + c, n)
  <2>1. Len(values) # Len(a)
    BY <1>5 DEF c
  <2> QED
    BY <1>5, <1>6, <2>1 DEF Placed, n
<1>8. (low + 1) - 1 = low /\ (low + 1) + c = low + c + 1
  BY <1>1, <1>2
<1>9. (IF up THEN values ELSE Reverse(values)) = v
  BY <1>2
<1> HIDE DEF v
<1>10. Insert(Erase(s, low, c), low, v) = SubSeq(s, 1, low) \o v \o SubSeq(s, low + c + 1, n)
  <2>1. c \in Nat
    BY <1>1
  <2> QED
    BY <1>1, <1>2, <2>1, BlockReplaced DEF n
<1> QED
  BY <1>3, <1>7, <1>8, <1>9, <1>10 DEF a, b, c, d


\* A list repeated never, once, and once more.
LEMMA RepeatedMeans ==
  ASSUME NEW S, NEW s \in Seq(S)
  PROVE  /\ Repeated(s, 0) = <<>> /\ Repeated(s, 1) = s
         /\ \A m \in Nat : s \o Repeated(s, m) = Repeated(s, m + 1)
<1> DEFINE n == Len(s)
<1>1. n \in Nat /\ DOMAIN s = 1 .. n /\ s \in [1 .. n -> S]
  BY LenProperties
<1>2. \A m : Repeated(s, m) = [p \in 1 .. m * n |-> s[((p - 1) % n) + 1]]
  BY DEF Repeated
<1> HIDE DEF n
<1>3. ASSUME NEW p \in 1 .. n PROVE ((p - 1) % n) + 1 = p
  <2> DEFINE x == p - 1
  <2>1. n \in Nat \ {0} /\ x \in 0 .. n - 1 /\ x \in Nat /\ x = 0 * n + x /\ 0 \in Nat
    BY <1>1
  <2> HIDE DEF x
  <2>2. x % n = x
    BY <2>1, DivModIs
  <2> QED
    BY <2>2 DEF x
<1>4. Repeated(s, 0) = <<>>
  <2>1. 0 * n = 0
    BY <1>1
  <2>2. Repeated(s, 0) = [p \in 1 .. 0 |-> s[((p - 1) % n) + 1]]
    BY <1>2, <2>1, Zenon
  <2> QED
    BY <2>2
<1>5. Repeated(s, 1) = s
  <2>1. 1 * n = n
    BY <1>1
  <2>2. Repeated(s, 1) = [p \in 1 .. n |-> s[((p - 1) % n) + 1]]
    BY <1>2, <2>1, Zenon
  <2>3. Repeated(s, 1) = [p \in 1 .. n |-> s[p]]
    BY <1>3, <2>2
  <2> QED
    BY <1>1, <2>3
<1>6. ASSUME NEW m \in Nat PROVE s \o Repeated(s, m) = Repeated(s, m + 1)
  <2> DEFINE u == m * n
             w == (m + 1) * n
             q == Repeated(s, m)
             r == Repeated(s, m + 1)
  <2>1. w = n + u /\ u \in Nat
    BY <1>1
  <2>2. q = [p \in 1 .. u |-> s[((p - 1) % n) + 1]] /\ r = [p \in 1 .. w |-> s[((p - 1) % n) + 1]]
    BY <1>2, Zenon
  <2>3. q \in Seq(S) /\ r \in Seq(S)
    <3> DEFINE k == m + 1
    <3>1. k \in Nat
      OBVIOUS
    <3> HIDE DEF k
    <3>2. Repeated(s, k) \in Seq(S)
      BY <3>1, RepeatedIs
    <3>3. q \in Seq(S)
      BY RepeatedIs
    <3> QED
      BY <3>2, <3>3 DEF k
  <2> HIDE DEF u, w, q, r
  <2>4. Len(q) = u /\ Len(r) = w
    <3>1. DOMAIN q = 1 .. u /\ DOMAIN r = 1 .. w
      BY <2>2
    <3>2. DOMAIN q = 1 .. Len(q) /\ DOMAIN r = 1 .. Len(r) /\ Len(q) \in Nat /\ Len(r) \in Nat
      BY <2>3, LenProperties
    <3> QED
      BY <1>1, <2>1, <3>1, <3>2
  <2>5. /\ s \o q \in Seq(S) /\ Len(s \o q) = n + u
        /\ \A i \in 1 .. n + u : (s \o q)[i] = IF i <= n THEN s[i] ELSE q[i - n]
    BY <2>3, <2>4, ConcatProperties DEF n
  <2>6. ASSUME NEW i \in 1 .. w PROVE (s \o q)[i] = r[i]
    <3>1. r[i] = s[((i - 1) % n) + 1]
      BY <2>2
    <3>2. CASE i <= n
      <4>1. i \in 1 .. n
        BY <1>1, <3>2
      <4> QED
        BY <1>3, <2>1, <2>5, <3>1, <3>2, <4>1
    <3>3. CASE ~(i <= n)
      <4> DEFINE j == i - n
                 x == j - 1
                 y == i - 1
      <4>1. j \in 1 .. u /\ n \in Nat
        BY <1>1, <2>1, <3>3
      <4>2. q[j] = s[((j - 1) % n) + 1]
        BY <2>2, <4>1
      <4>3. n # 0
        <5>1. n = 0 => u = 0
          BY DEF u
        <5> QED
          BY <4>1, <5>1
      <4>4. x \in Nat /\ y = x + n /\ y \in Nat
        BY <2>1, <4>1
      <4>5. x % n = y % n
        <5> HIDE DEF x, y
        <5> DEFINE g == x \div n
                   h == x % n
        <5>1. g \in Nat /\ h \in 0 .. n - 1 /\ x = n * g + h
          BY <4>1, <4>3, <4>4, DivMod
        <5> HIDE DEF g, h
        <5>2. n * g + n = (g + 1) * n
          BY <4>1, <5>1
        <5> DEFINE k == g + 1
                   e == n * g
                   f == k * n
        <5>3. e + n = f /\ e \in Int /\ k \in Nat /\ x = e + h
          BY <4>1, <5>1, <5>2
        <5>4. y = f + h
          <6> HIDE DEF e, f
          <6> QED
            BY <4>1, <4>4, <5>1, <5>3
        <5> HIDE DEF e, k
        <5>5. y = k * n + h /\ n \in Nat \ {0}
          BY <4>1, <4>3, <5>4
        <5>6. y % n = h
          BY <4>4, <5>1, <5>3, <5>5, DivModIs
        <5> QED
          BY <5>6 DEF h
      <4>6. (s \o q)[i] = q[j]
        BY <2>1, <2>5, <3>3
      <4> HIDE DEF j
      <4> QED
        BY <3>1, <4>2, <4>5, <4>6
    <3> QED
      BY <3>2, <3>3
  <2>7. s \o q = r
    <3> DEFINE z == s \o q
    <3>1. z \in Seq(S) /\ Len(z) = Len(r) /\ \A i \in 1 .. Len(z) : z[i] = r[i]
      BY <2>1, <2>4, <2>5, <2>6
    <3> HIDE DEF z
    <3>2. z = r
      BY <2>3, <3>1, SeqEqual
    <3> QED
      BY <3>2 DEF z
  <2> QED
    BY <2>7 DEF q, r
<1> QED
  BY <1>4, <1>5, <1>6

\* The slices of Chosen are within bounds.
LEMMA InBounds ==
  ASSUME NEW n \in Nat, NEW slice, slice.begin \in Nat, slice.count \in Nat \ {0},
         slice.step \in Int \ {0},
         \A k \in 1 .. slice.count : Run(slice.begin, slice.step, slice.count)[k] \in 1 .. n
  PROVE  ~OutOfRange(n, slice) /\ InRange(n, slice)
<1> DEFINE b == slice.begin
           d == slice.step
           c == slice.count
           u == (c - 1) * d
           v == (c - 1) * (-d)
<1>1. b \in Nat /\ c \in Nat \ {0} /\ d \in Int \ {0} /\ 1 \in 1 .. c /\ c \in 1 .. c
  OBVIOUS
<1>2. \A k \in 1 .. c : b + (k - 1) * d + 1 \in 1 .. n
  BY DEF Run
<1> HIDE DEF b, c, d
<1>3. b + 1 \in 1 .. n
  <2>1. b + (1 - 1) * d + 1 \in 1 .. n
    BY <1>1, <1>2
  <2>2. (1 - 1) * d = 0
    BY <1>1
  <2> QED
    BY <1>1, <2>1, <2>2
<1>4. b + u + 1 \in 1 .. n /\ u \in Int /\ v = -u
  BY <1>1, <1>2
<1>5. OutOfRange(n, slice) <=> b >= n \/ (d < 0 /\ b < v) \/ (d > 0 /\ b + u >= n)
  <2>1. c \notin {0, Top}
    BY <1>1, TopAssumption
  <2> QED
    BY <2>1 DEF OutOfRange, b, c, d
<1> HIDE DEF u, v
<1>6. ~OutOfRange(n, slice)
  BY <1>1, <1>3, <1>4, <1>5
<1> QED
  BY <1>1, <1>6 DEF InRange, b, c, d

\* The first difference decides.
LEMMA OrderIs ==
  ASSUME NEW s \in Seq(Int), NEW r \in Seq(Int), NEW i \in Nat, i <= Len(s), i <= Len(r),
         \A p \in 1 .. i : s[p] = r[p]
  PROVE  /\ i = Len(s) \/ i = Len(r) => Order(s, r) = Sign(Len(s) - Len(r))
         /\ i < Len(s) /\ i < Len(r) /\ s[i + 1] # r[i + 1] => Order(s, r) = Sign(s[i + 1] - r[i + 1])
<1> DEFINE differ == {p \in DOMAIN s \cap DOMAIN r : s[p] # r[p]}
           m == Len(s)
           n == Len(r)
<1>1. DOMAIN s = 1 .. m /\ DOMAIN r = 1 .. n /\ m \in Nat /\ n \in Nat
  BY LenProperties
<1>2. Order(s, r) = IF differ = {} THEN Sign(m - n) ELSE Sign(s[Min(differ)] - r[Min(differ)])
  BY DEF Order
<1> HIDE DEF m, n
<1>3. i <= m /\ i <= n
  BY DEF m, n
<1>4. ASSUME i = m \/ i = n PROVE differ = {}
  BY <1>1, <1>3, <1>4
<1>5. ASSUME i < m, i < n, s[i + 1] # r[i + 1] PROVE differ # {} /\ Min(differ) = i + 1
  <2>1. i + 1 \in differ
    BY <1>1, <1>5
  <2>2. \A p \in differ : p \in Int /\ i + 1 <= p
    BY <1>1, <1>3
  <2> HIDE DEF differ
  <2>3. i + 1 \in differ /\ (\A p \in differ : i + 1 <= p)
        /\ \A x \in differ : (\A p \in differ : x <= p) => x = i + 1
    BY <2>1, <2>2
  <2>4. (CHOOSE x \in differ : \A p \in differ : x <= p) = i + 1
    BY <2>3
  <2> QED
    BY <2>1, <2>4 DEF Min
<1> HIDE DEF differ
<1> QED
  BY <1>2, <1>4, <1>5 DEF m, n

-----------------------------------------------------------------------------
(* Calls that nobody disturbs. *)

\* What an assignment to a slice is given.
Given(c, b) == IF c.from = "array" THEN b[c.source] ELSE c.values

\* What is known of a slice on its way from the arguments of a call to the
\* places it stands for, in an array of n items.
IndexOK(n, c, s) == HasIndex(n, c.index) /\ s.begin + 1 = PositionOf(n, c.index)

Stands(i, p) == i \in Nat /\ i + 1 = p

StrideOK(n, c, s) == /\ n # 0 /\ c.step \notin HugeSteps
                     /\ s.step = (IF c.step = Absent THEN 1 ELSE c.step) /\ s.step # 0
                     /\ c.begin = Absent => Stands(s.begin, First(n, c))

PlacesOK(n, c, s) ==
  /\ ~BadSlice(n, c) /\ Chosen(n, c) = Run(s.begin, s.step, s.count)
  /\ \A k \in 1 .. s.count : Run(s.begin, s.step, s.count)[k] \in 1 .. n
  /\ s.count \in Nat /\ (s.step # 0 => s.count # 0)
  /\ s.count # 0 => n # 0 /\ s.step = (IF c.step \in {Absent} \cup HugeSteps THEN 1 ELSE c.step)

\* The buffer of a copy: what has been read of the two arrays so far.
CopiedOK(p, c, k, b) ==
  /\ c.op = "concat"     => k = IF p \in {"copy", "copying"} THEN <<>> ELSE b[c.source]
  /\ c.op = "concatCopy" => k = IF p \in {"copy", "copying"} THEN b[c.array] ELSE <<>>

\* A scan: nothing was found so far.
SearchOK(l, c, s) == s.count <= Len(l) /\ \A i \in 1 .. s.count : l[i] # c.value

CompareOK(p, l, r, s) ==
  /\ s.begin = Len(l) /\ s.stop = Len(r) /\ s.count <= Len(l) /\ s.count <= Len(r)
  /\ \A i \in 1 .. s.count : l[i] = r[i]
  /\ p = "differ" => s.count < Len(l) /\ s.count < Len(r) /\ l[s.count + 1] # r[s.count + 1]

\* A call on its way, of a thread at p with slice s, buffer k and counter n,
\* that began with the arrays b, whose counters are ms.
OnWay(p, c, s, k, n, b, ms) ==
  LET l == b[c.array]
      m == Len(l)
  IN  /\ c.op \in Indexed /\ p \in {"lock", "locked"} => IndexOK(m, c, s)
      /\ c.op \in Sliced /\ p = "default" => m # 0
      /\ c.op \in Sliced /\ p = "stop" =>
           StrideOK(m, c, s) /\ (c.end = Absent => Stands(s.stop, Final(m, c)))
      /\ c.op \in Sliced /\ p = "start" =>
           StrideOK(m, c, s) /\ Stands(s.stop, Final(m, c)) /\ (c.end # Absent => HasIndex(m, c.end))
      /\ c.op \in Sliced /\ p \in {"gather", "lock", "locked"} => PlacesOK(m, c, s)
      /\ c.op = "setSlice" /\ p \in {"lock", "locked"} =>
           k = Given(c, b) /\ (FromArray(c) => n = ms[c.source])
      /\ CopiedOK(p, c, k, b)
      /\ p = "empty" => c.op = "repeatCopy" /\ c.count = 0
      /\ c.op = "contains" /\ p = "scan" => SearchOK(l, c, s)
      /\ c.op = "compare" /\ p \in {"scan", "differ"} => CompareOK(p, l, b[c.source], s)
      /\ c.op = "for" /\ p \in {"lock", "locked"} => n = ms[c.array]

\* At its end, it left and gave what it means; before, it changed nothing.
AloneOK(p, c, s, k, n, r, b, its, ms) ==
  p # "idle" /\ ~Departs(c, b) =>
    IF p = "done" THEN /\ r = Meaning(c, b).result
                       /\ its = [b EXCEPT ![c.array] = Meaning(c, b).items]
    ELSE its = b /\ OnWay(p, c, s, k, n, b, ms)

Alone(t) == ~disturbed[t] =>
  AloneOK(pc[t], call[t], at[t], copied[t], noted[t], result[t], before[t], items, mods)

AloneInv == disturbed = [t \in Threads |-> disturbed[t]] /\ \A t \in Threads : Alone(t)

\* What a step of t tells the others: all of it.
Told(t) == /\ disturbed' = [u \in Threads |-> disturbed'[u]]
           /\ \A u \in Threads \ {t} : \/ items' = items /\ mods' = mods /\ disturbed'[u] = disturbed[u]
                                       \/ pc[u] # "idle" => disturbed'[u]

\* A step that tells the others what it does keeps their part, so that only the
\* call that takes it remains to be looked at.
LEMMA AloneStep ==
  ASSUME ContentInv, AloneInv, NEW t \in Threads,
         NEW p, NEW c, NEW s, NEW k, NEW n, NEW r, NEW b, Sets(t, p, c, s, k, n, r, b), Told(t),
         ~disturbed'[t] => AloneOK(p, c, s, k, n, r, b, items', mods')
  PROVE  AloneInv'
<1>1. /\ pc'[t] = p /\ call'[t] = c /\ at'[t] = s /\ copied'[t] = k
      /\ noted'[t] = n /\ result'[t] = r /\ before'[t] = b
  BY DEF ContentInv, Functions, Sets
<1>2. ASSUME NEW u \in Threads PROVE Alone(u)'
  <2>1. CASE u = t
    BY <1>1, <2>1 DEF Alone
  <2>2. CASE u # t
    <3>1. /\ pc'[u] = pc[u] /\ call'[u] = call[u] /\ at'[u] = at[u] /\ copied'[u] = copied[u]
          /\ noted'[u] = noted[u] /\ result'[u] = result[u] /\ before'[u] = before[u]
      BY <2>2 DEF ContentInv, Functions, Sets
    <3>2. CASE pc[u] = "idle"
      BY <3>1, <3>2 DEF Alone, AloneOK
    <3>3. CASE pc[u] # "idle" /\ disturbed'[u]
      BY <3>3 DEF Alone
    <3>4. CASE items' = items /\ mods' = mods /\ disturbed'[u] = disturbed[u]
      BY <3>1, <3>4 DEF Alone, AloneInv
    <3> QED
      BY <2>2, <3>2, <3>3, <3>4 DEF Told
  <2> QED
    BY <2>1, <2>2
<1> QED
  BY <1>2 DEF AloneInv, Told

\* Nobody disturbs the call of t, and it is none that the code gets wrong.
Proper(t) == ~disturbed[t] /\ ~Departs(call[t], before[t])

LEMMA ProperFacts ==
  ASSUME AloneInv, NEW t \in Threads, pc[t] \notin {"idle", "done"}, Proper(t)
  PROVE  /\ items = before[t]
         /\ OnWay(pc[t], call[t], at[t], copied[t], noted[t], before[t], mods)
BY DEF AloneInv, Alone, AloneOK, Proper

\* A call goes on its way, and nothing changes for the others.
LEMMA MoveAlone ==
  ASSUME ContentInv, AloneInv, NEW t \in Threads, pc[t] \notin {"idle", "done"},
         NEW p, p \notin {"idle", "done"}, NEW s, NEW k, NEW n,
         Sets(t, p, call[t], s, k, n, result[t], before[t]), UNCHANGED <<items, mods, disturbed>>,
         Proper(t) => OnWay(p, call[t], s, k, n, before[t], mods)
  PROVE  AloneInv'
<1>1. Told(t)
  BY DEF Told, AloneInv
<1>2. ~disturbed'[t] =>
        AloneOK(p, call[t], s, k, n, result[t], before[t], items', mods')
  BY ProperFacts DEF AloneOK, Proper
<1> QED
  BY <1>1, <1>2, AloneStep

\* How a call ends that nobody disturbed: with what it means.
LEMMA FinishAlone ==
  ASSUME ContentInv, AloneInv, NEW t \in Threads, pc[t] \notin {"idle", "done"},
         NEW r, Finish(t, r), NEW k, NEW s, Sets(t, "done", call[t], s, k, noted[t], r, before[t]),
         UNCHANGED <<items, mods, disturbed>>,
         Proper(t) => Meaning(call[t], before[t]) = Done(items[Array(t)], r)
  PROVE  AloneInv'
<1>1. Told(t)
  BY DEF Told, AloneInv
<1>2. ASSUME Proper(t)
      PROVE  /\ r = Meaning(call[t], before[t]).result
             /\ items = [before[t] EXCEPT ![call[t].array] = Meaning(call[t], before[t]).items]
  <2>1. items = before[t]
    BY <1>2, ProperFacts
  <2>2. items \in [ArrayNames -> Seq(Items)]
    BY DEF ContentInv, Held
  <2> DEFINE m == Meaning(call[t], before[t])
             s0 == items[Array(t)]
  <2>3. m = Done(s0, r)
    BY <1>2
  <2> HIDE DEF m, s0
  <2>4. m.result = r /\ m.items = s0
    BY <2>3 DEF Done
  <2>5. items = [items EXCEPT ![call[t].array] = s0]
    BY <2>2 DEF s0, Array
  <2> QED
    BY <2>1, <2>4, <2>5 DEF m
<1>3. ~disturbed'[t] => AloneOK("done", call[t], s, k, noted[t], r, before[t], items', mods')
  BY <1>2 DEF AloneOK, Proper
<1> QED
  BY <1>1, <1>3, AloneStep

LEMMA LeaveAlone ==
  ASSUME ContentInv, AloneInv, NEW t \in Threads, pc[t] \notin {"idle", "done"},
         NEW r, Finish(t, r), UNCHANGED <<items, mods, history, at, copied, noted, disturbed>>,
         Proper(t) => Meaning(call[t], before[t]) = Done(items[Array(t)], r)
  PROVE  AloneInv'
<1>1. Sets(t, "done", call[t], at[t], copied[t], noted[t], r, before[t])
  BY LocalFacts DEF Sets, Finish, Goto, history
<1> QED
  BY <1>1, FinishAlone

LEMMA StoreAlone ==
  ASSUME ContentInv, AloneInv, NEW t \in Threads, pc[t] \notin {"idle", "done"},
         NEW s, NEW r, Store(t, s, r),
         Proper(t) => Meaning(call[t], before[t]) = Done(s, r)
  PROVE  AloneInv'
<1>1. Sets(t, "done", call[t], at[t], copied[t], noted[t], r, before[t])
  BY LocalFacts DEF Sets, Store, Finish, Goto, history
<1>2. Told(t) /\ (~disturbed'[t] => ~disturbed[t])
  <2>1. disturbed' = [u \in Threads |-> disturbed[u] \/ (u # t /\ pc[u] # "idle")]
    BY DEF Store
  <2>2. \A u \in Threads : disturbed'[u] <=> (disturbed[u] \/ (u # t /\ pc[u] # "idle"))
    BY Zenon, <2>1
  <2>3. disturbed' = [u \in Threads |-> disturbed'[u]]
    BY Zenon, <2>1
  <2> QED
    BY <2>2, <2>3 DEF Told
<1>3. ASSUME Proper(t)
      PROVE  /\ r = Meaning(call[t], before[t]).result
             /\ items' = [before[t] EXCEPT ![call[t].array] = Meaning(call[t], before[t]).items]
  <2>1. items = before[t] /\ items' = [items EXCEPT ![call[t].array] = s]
    BY <1>3, ProperFacts DEF Store, Array
  <2> DEFINE m == Meaning(call[t], before[t])
  <2>2. m = Done(s, r)
    BY <1>3
  <2> HIDE DEF m
  <2>3. m.result = r /\ m.items = s
    BY <2>2 DEF Done
  <2> QED
    BY <2>1, <2>3 DEF m
<1>4. ~disturbed'[t] =>
        AloneOK("done", call[t], at[t], copied[t], noted[t], r, before[t], items', mods')
  BY <1>2, <1>3 DEF AloneOK, Proper
<1> QED
  BY <1>1, <1>2, <1>4, AloneStep

\* What the calls mean, one by one.
LEMMA ItemMeaning ==
  ASSUME NEW c, NEW b, c.op \in Indexed
  PROVE  LET s == b[c.array]
             n == Len(s)
             p == PositionOf(n, c.index)
         IN  /\ ~HasIndex(n, c.index) => Meaning(c, b) = Done(s, Error("IndexError"))
             /\ HasIndex(n, c.index) =>
                  /\ c.op = "getItem" => Meaning(c, b) = Done(s, Value(<<s[p]>>))
                  /\ c.op = "setItem" => Meaning(c, b) = Done([s EXCEPT ![p] = c.value], Value(<<>>))
                  /\ c.op = "delItem" => Meaning(c, b) = Done(Without(s, <<p>>), Value(<<>>))
BY DEF Meaning, Indexed

LEMMA SliceMeaning ==
  ASSUME NEW c, NEW b, c.op \in Sliced
  PROVE  LET s == b[c.array]
             n == Len(s)
             a == Chosen(n, c)
         IN  /\ n > 0 /\ c.step = 0 => Meaning(c, b) = Done(s, Error("ValueError"))
             /\ ~(n > 0 /\ c.step = 0) /\ BadSlice(n, c) => Meaning(c, b) = Done(s, Error("IndexError"))
             /\ ~BadSlice(n, c) =>
                  /\ c.op = "getSlice" => Meaning(c, b) = Done(s, Value(Pick(s, a)))
                  /\ c.op = "delSlice" => Meaning(c, b) = Done(Without(s, a), Value(<<>>))
                  /\ c.op = "setSlice" =>
                       IF Len(Given(c, b)) = Len(a) \/ c.step \in {Absent, 1, -1}
                       THEN Meaning(c, b) = Done(Placed(s, a, Given(c, b), c.step # -1), Value(<<>>))
                       ELSE Meaning(c, b) = Done(s, Error("ValueError"))
BY DEF Meaning, Sliced, Given, BadSlice

LEMMA OtherMeaning ==
  ASSUME NEW c, NEW b
  PROVE  LET s == b[c.array]
             r == b[c.source]
         IN  /\ c.op = "append"     => Meaning(c, b) = Done(Append(s, c.value), Value(<<>>))
             /\ c.op = "concat"     => Meaning(c, b) = Done(s \o r, Value(<<>>))
             /\ c.op = "concatCopy" => Meaning(c, b) = Done(s, Value(s \o r))
             /\ c.op = "repeat"     => Meaning(c, b) = Done(Repeated(s, c.count), Value(<<>>))
             /\ c.op = "repeatCopy" => Meaning(c, b) = Done(s, Value(Repeated(s, c.count)))
             /\ c.op = "contains"   => Meaning(c, b) = Done(s, Value(<<IF c.value \in Range(s) THEN 1 ELSE 0>>))
             /\ c.op = "compare"    => Meaning(c, b) = Done(s, Value(<<Order(s, r)>>))
             /\ c.op = "for"        => Meaning(c, b) = Done(s, Value(s))
BY DEF Meaning

\* What indexConstraint refuses is no index of the list; what it returns is
\* where the item is.
LEMMA ConstraintMeans ==
  ASSUME NEW n \in Nat, NEW i \in Int
  PROVE  /\ Constraint(n, i) = -1 <=> ~HasIndex(n, i)
         /\ Constraint(n, i) # -1 => Constraint(n, i) \in Nat /\ Constraint(n, i) + 1 = PositionOf(n, i)
BY DEF Constraint, HasIndex, PositionOf

\* What is known on the way of a call with an index, and with a slice.
LEMMA IndexOnWay ==
  ASSUME NEW c, c.op \in Indexed, NEW p \in {"lock", "locked"}, NEW s, NEW k, NEW n, NEW b, NEW ms
  PROVE  OnWay(p, c, s, k, n, b, ms) <=> IndexOK(Len(b[c.array]), c, s)
BY DEF OnWay, Indexed, Sliced, CopiedOK

LEMMA SliceOnWay ==
  ASSUME NEW c, c.op \in Sliced, NEW p, p # "empty", NEW s, NEW k, NEW n, NEW b, NEW ms
  PROVE  LET m == Len(b[c.array])
         IN  OnWay(p, c, s, k, n, b, ms) <=>
               /\ p = "default" => m # 0
               /\ p = "stop" => StrideOK(m, c, s) /\ (c.end = Absent => Stands(s.stop, Final(m, c)))
               /\ p = "start" => /\ StrideOK(m, c, s) /\ Stands(s.stop, Final(m, c))
                                 /\ c.end # Absent => HasIndex(m, c.end)
               /\ p \in {"gather", "lock", "locked"} => PlacesOK(m, c, s)
               /\ c.op = "setSlice" /\ p \in {"lock", "locked"} =>
                    k = Given(c, b) /\ (FromArray(c) => n = ms[c.source])
BY DEF OnWay, Indexed, Sliced, CopiedOK

\* indexConstraint.
LEMMA IndexAlone ==
  ASSUME ContentInv, AloneInv, NEW t \in Threads, Index(t)
  PROVE  AloneInv'
<1> DEFINE n == Size(Array(t))
           i == Constraint(n, call[t].index)
           s == [at[t] EXCEPT !.begin = i]
<1>1. /\ pc[t] = "index" /\ call[t].op \in Indexed /\ pc[t] \notin {"idle", "done"}
      /\ UNCHANGED <<items, mods, history, copied, noted, disturbed>>
  BY DEF Index, At
<1>2. n \in Nat /\ call[t].index \in Int /\ IsSlice(at[t])
  BY <1>1, LocalFacts DEF CallOK, LocalOK
<1>3. /\ i = -1 <=> ~HasIndex(n, call[t].index)
      /\ i # -1 => i \in Nat /\ i + 1 = PositionOf(n, call[t].index)
  BY <1>2, ConstraintMeans
<1>4. Proper(t) => items = before[t]
  BY <1>1, ProperFacts
<1>5. n = Len(items[call[t].array]) /\ Array(t) = call[t].array
  BY DEF Size, Array
<1>6. CASE i = -1
  <2>1. Finish(t, Error("IndexError")) /\ UNCHANGED at
    BY <1>6 DEF Index
  <2>2. ~HasIndex(n, call[t].index)
    BY <1>3, <1>6
  <2> HIDE DEF n, i
  <2>3. Proper(t) => Meaning(call[t], before[t]) = Done(items[Array(t)], Error("IndexError"))
    BY <1>1, <1>4, <1>5, <2>2, ItemMeaning
  <2> QED
    BY <1>1, <2>1, <2>3, LeaveAlone
<1>7. CASE i # -1
  <2>1. at' = [at EXCEPT ![t].begin = i] /\ Goto(t, "lock") /\ UNCHANGED result
    BY <1>7 DEF Index
  <2> HIDE DEF n, i
  <2>2. at' = [at EXCEPT ![t] = s]
    BY <2>1
  <2>3. s.begin = i
    <3>1. s = [begin |-> i, count |-> at[t].count, step |-> at[t].step, stop |-> at[t].stop]
      BY <1>2, SliceWith
    <3> QED
      BY <3>1
  <2> HIDE DEF s
  <2>4. Sets(t, "lock", call[t], s, copied[t], noted[t], result[t], before[t])
    BY <1>1, <2>1, <2>2, LocalFacts DEF Sets, Goto, history
  <2>5. ASSUME Proper(t) PROVE OnWay("lock", call[t], s, copied[t], noted[t], before[t], mods)
    <3>1. n = Len(before[t][call[t].array])
      BY <1>4, <1>5, <2>5
    <3>2. IndexOK(n, call[t], s)
      BY <1>3, <1>7, <2>3 DEF IndexOK
    <3> QED
      BY <1>1, <3>1, <3>2, IndexOnWay
  <2> QED
    BY <1>1, <2>4, <2>5, MoveAlone
<1> QED
  BY <1>6, <1>7

\* What sliceConstraint returns are the places that the slice names; those who
\* assign to it or remove it refuse it when there are none.
LEMMA ResolvedAlone ==
  ASSUME ContentInv, AloneInv, NEW t \in Threads, pc[t] \notin {"idle", "done"}, call[t].op \in Sliced,
         NEW i, NEW count, NEW step, Resolved(t, <<i, count, step>>),
         UNCHANGED <<items, mods, history, copied, noted, disturbed>>,
         Proper(t) => /\ step = 0 => call[t].op = "getSlice"
                      /\ PlacesOK(Len(items[call[t].array]), call[t],
                                  [begin |-> i, count |-> count, step |-> step, stop |-> 0])
  PROVE  AloneInv'
<1> DEFINE s == [begin |-> i, count |-> count, step |-> step, stop |-> 0]
           refused == step = 0 /\ call[t].op # "getSlice"
           p == IF call[t].op = "setSlice" THEN "gather" ELSE "lock"
<1>1. at' = [at EXCEPT ![t] = s]
  BY DEF Resolved
<1>2. Proper(t) => ~refused /\ PlacesOK(Len(items[call[t].array]), call[t], s) /\ items = before[t]
  BY ProperFacts
<1> HIDE DEF s
<1>3. CASE refused
  <2>1. Finish(t, Error("InternalError"))
    BY <1>3 DEF Resolved
  <2>2. Sets(t, "done", call[t], s, copied[t], noted[t], Error("InternalError"), before[t])
    BY <1>1, <2>1, LocalFacts DEF Sets, Finish, Goto, history
  <2> QED
    BY <1>2, <1>3, <2>1, <2>2, FinishAlone
<1>4. CASE ~refused
  <2>1. Goto(t, p) /\ UNCHANGED result
    BY <1>4 DEF Resolved
  <2>2. p \notin {"idle", "done", "empty", "default", "stop", "start"} /\ (p = "lock" => call[t].op # "setSlice") /\ p # "locked"
    OBVIOUS
  <2> HIDE DEF p
  <2>3. Sets(t, p, call[t], s, copied[t], noted[t], result[t], before[t])
    BY <1>1, <2>1, LocalFacts DEF Sets, Goto, history
  <2>4. ASSUME Proper(t) PROVE OnWay(p, call[t], s, copied[t], noted[t], before[t], mods)
    <3>1. PlacesOK(Len(before[t][call[t].array]), call[t], s)
      BY <1>2, <2>4
    <3> QED
      BY <2>2, <3>1, SliceOnWay
  <2> QED
    BY <2>2, <2>3, <2>4, MoveAlone
<1> QED
  BY <1>3, <1>4

\* The slices that are known without a loop over them: none, and one place.
LEMMA FewPlaces ==
  /\ \A c : Chosen(0, c) = <<>> /\ ~BadSlice(0, c)
  /\ Run(0, 0, 0) = <<>> /\ Run(0, 1, 1) = <<1>>
<1>1. \A c : Chosen(0, c) = <<>> /\ ~BadSlice(0, c)
  BY DEF Chosen, BadSlice
<1>2. Run(0, 0, 0) = <<>>
  BY DEF Run
<1>3. Run(0, 1, 1) = <<1>>
  <2>1. Run(0, 1, 1) = [k \in 1 .. 1 |-> 0 + (k - 1) * 1 + 1]
    BY DEF Run
  <2>2. \A k \in 1 .. 1 : 0 + (k - 1) * 1 + 1 = 1
    OBVIOUS
  <2>3. Run(0, 1, 1) = [k \in 1 .. 1 |-> 1]
    BY <2>1, <2>2
  <2> QED
    BY <2>3
<1> QED
  BY <1>1, <1>2, <1>3

\* The slice of no places.
LEMMA NoPlaces ==
  ASSUME NEW n \in Nat, NEW c, ~BadSlice(n, c), Chosen(n, c) = <<>>
  PROVE  PlacesOK(n, c, [begin |-> 0, count |-> 0, step |-> 0, stop |-> 0])
<1> DEFINE s == [begin |-> 0, count |-> 0, step |-> 0, stop |-> 0]
<1>1. s.begin = 0 /\ s.count = 0 /\ s.step = 0 /\ s.count \in Nat
  OBVIOUS
<1> HIDE DEF s
<1>2. \A k \in 1 .. s.count : FALSE
  BY <1>1
<1>3. Chosen(n, c) = Run(s.begin, s.step, s.count)
  BY <1>1, FewPlaces
<1>4. PlacesOK(n, c, s)
  BY <1>1, <1>2, <1>3 DEF PlacesOK
<1> QED
  BY <1>4 DEF s

\* sliceConstraint: an array that is empty, ...
LEMMA StrideAlone ==
  ASSUME ContentInv, AloneInv, NEW t \in Threads, Stride(t)
  PROVE  AloneInv'
<1> DEFINE c == call[t]
           n == Size(Array(t))
<1>1. /\ pc[t] = "stride" /\ c.op \in Sliced /\ pc[t] \notin {"idle", "done"}
      /\ UNCHANGED <<items, mods, history, copied, noted, disturbed>>
  BY DEF Stride, At
<1>2. n \in Nat
  BY <1>1, LocalFacts
<1>3. n = Len(items[c.array]) /\ (Proper(t) => items = before[t])
  BY <1>1, ProperFacts DEF Size, Array
<1>4. Proper(t) => ~Departs(c, before[t]) /\ n = Len(before[t][c.array])
  BY <1>3 DEF Proper
<1>5. CASE n = 0
  <2>1. Resolved(t, <<0, 0, 0>>)
    BY <1>5 DEF Stride
  <2>2. Proper(t) => c.op = "getSlice"
    BY <1>1, <1>4, <1>5 DEF Departs, Sliced
  <2>3. PlacesOK(n, c, [begin |-> 0, count |-> 0, step |-> 0, stop |-> 0])
    BY <1>2, <1>5, FewPlaces, NoPlaces
  <2> HIDE DEF n
  <2> QED
    BY <1>1, <1>3, <2>1, <2>2, <2>3, ResolvedAlone DEF c
<1>6. CASE n # 0
  <2>1. Goto(t, "default") /\ UNCHANGED <<at, result>>
    BY <1>6 DEF Stride
  <2>2. Sets(t, "default", call[t], at[t], copied[t], noted[t], result[t], before[t])
    BY <1>1, <2>1, LocalFacts DEF Sets, Goto, history
  <2> HIDE DEF n
  <2>3. Proper(t) => OnWay("default", call[t], at[t], copied[t], noted[t], before[t], mods)
    BY <1>1, <1>4, <1>6, SliceOnWay
  <2> QED
    BY <1>1, <2>2, <2>3, MoveAlone
<1> QED
  BY <1>5, <1>6

\* ... its step and what the boundaries are by default, ...
LEMMA DefaultAlone ==
  ASSUME ContentInv, AloneInv, NEW t \in Threads, Default(t)
  PROVE  AloneInv'
<1> DEFINE c == call[t]
           n == Size(Array(t))
           step == IF c.step = Absent THEN 1 ELSE c.step
           e == LastIndex(t)
           s == [begin |-> IF step > 0 THEN 0 ELSE e, stop |-> IF step > 0 THEN e ELSE 0,
                 step |-> step, count |-> 0]
<1>1. /\ pc[t] = "default" /\ c.op \in Sliced /\ pc[t] \notin {"idle", "done"}
      /\ UNCHANGED <<items, mods, history, copied, noted, disturbed>>
  BY DEF Default, At
<1>2. n \in Nat /\ c.step \in Int \cup {Absent} \cup HugeSteps
  BY <1>1, LocalFacts DEF CallOK
<1>3. n = Len(items[c.array])
  BY DEF Size, Array
<1>4. ASSUME Proper(t)
      PROVE  /\ ~Departs(c, before[t]) /\ items = before[t] /\ n = Len(before[t][c.array])
             /\ n # 0 /\ e = n - 1
  <2>1. items = before[t] /\ OnWay("default", c, at[t], copied[t], noted[t], before[t], mods)
    BY <1>1, <1>4, ProperFacts
  <2>2. n # 0
    BY <1>1, <1>3, <2>1, SliceOnWay
  <2> QED
    BY <1>3, <1>4, <2>1, <2>2 DEF Proper, LastIndex
<1>5. \/ step \in HugeSteps /\ Resolved(t, <<0, 1, 1>>)
      \/ step = 0 /\ Finish(t, Error("ValueError")) /\ UNCHANGED at
      \/ /\ step \notin HugeSteps \cup {0}
         /\ at' = [at EXCEPT ![t] = s] /\ Goto(t, "stop") /\ UNCHANGED result
  BY DefaultCases
<1>6. CASE step \in HugeSteps /\ Resolved(t, <<0, 1, 1>>)
  <2>1. c.step \in HugeSteps
    BY <1>6, Steps
  <2> DEFINE q == [begin |-> 0, count |-> 1, step |-> 1, stop |-> 0]
  <2>2. q.begin = 0 /\ q.count = 1 /\ q.step = 1
    OBVIOUS
  <2> HIDE DEF n, step, c, q, e
  <2>3. ASSUME Proper(t) PROVE PlacesOK(n, c, q)
    <3>1. ~BadSlice(n, c) /\ Chosen(n, c) = <<1>>
      BY <1>1, <1>2, <1>4, <2>1, <2>3 DEF Departs
    <3>2. Run(q.begin, q.step, q.count) = <<1>>
      BY <2>2, FewPlaces
    <3>3. \A k \in 1 .. q.count : Run(q.begin, q.step, q.count)[k] \in 1 .. n
      BY <1>2, <1>4, <2>2, <2>3, <3>2
    <3> QED
      BY <1>4, <2>1, <2>2, <2>3, <3>1, <3>2, <3>3 DEF PlacesOK
  <2>4. Proper(t) => PlacesOK(n, c, [begin |-> 0, count |-> 1, step |-> 1, stop |-> 0])
    BY <2>3 DEF q
  <2> QED
    BY <1>1, <1>3, <1>6, <2>4, ResolvedAlone DEF c
<1>7. CASE step = 0 /\ Finish(t, Error("ValueError")) /\ UNCHANGED at
  <2>1. c.step = 0
    BY <1>7
  <2> HIDE DEF n
  <2>2. ASSUME Proper(t) PROVE Meaning(c, before[t]) = Done(items[Array(t)], Error("ValueError"))
    <3>1. Len(before[t][c.array]) > 0
      BY <1>2, <1>4, <2>2
    <3> QED
      BY <1>1, <1>4, <2>1, <2>2, <3>1, SliceMeaning DEF Array
  <2> QED
    BY <1>1, <1>7, <2>2, LeaveAlone
<1>8. CASE /\ step \notin HugeSteps \cup {0}
           /\ at' = [at EXCEPT ![t] = s] /\ Goto(t, "stop") /\ UNCHANGED result
  <2>1. /\ s.step = step /\ s.begin = (IF step > 0 THEN 0 ELSE e)
        /\ s.stop = (IF step > 0 THEN e ELSE 0)
    OBVIOUS
  <2>2. /\ step \in Int \ {0} /\ c.step \notin HugeSteps /\ c.step \in Int \cup {Absent}
        /\ step = IF c.step = Absent THEN 1 ELSE c.step
    BY <1>2, <1>8, Steps
  <2>3. StepOf(n, c) = step
    BY <1>2, <2>2, StepIs
  <2> HIDE DEF s, e
  <2>4. ASSUME Proper(t)
        PROVE  StrideOK(n, c, s) /\ (c.end = Absent => Stands(s.stop, Final(n, c)))
    <3>1. /\ c.begin = Absent => First(n, c) = IF step > 0 THEN 1 ELSE n
          /\ c.end = Absent => Final(n, c) = IF step > 0 THEN n ELSE 1
      BY <2>3 DEF First, Final
    <3> HIDE DEF n, c, step
    <3>2. /\ s.begin \in Nat /\ s.begin + 1 = (IF step > 0 THEN 1 ELSE n)
          /\ s.stop \in Nat /\ s.stop + 1 = (IF step > 0 THEN n ELSE 1)
      BY <1>2, <1>4, <2>1, <2>2, <2>4
    <3> QED
      BY <1>4, <2>1, <2>2, <2>4, <3>1, <3>2 DEF StrideOK, Stands
  <2>5. Sets(t, "stop", call[t], s, copied[t], noted[t], result[t], before[t])
    BY <1>1, <1>8, LocalFacts DEF Sets, Goto, history
  <2> HIDE DEF n
  <2>6. Proper(t) => OnWay("stop", call[t], s, copied[t], noted[t], before[t], mods)
    BY <1>1, <1>4, <2>4, SliceOnWay
  <2> QED
    BY <1>1, <2>5, <2>6, MoveAlone
<1> QED
  BY <1>5, <1>6, <1>7, <1>8

\* ... its end, ...
LEMMA StopAlone ==
  ASSUME ContentInv, AloneInv, NEW t \in Threads, Stop(t)
  PROVE  AloneInv'
<1> DEFINE c == call[t]
           n == Size(Array(t))
           i == IF c.end = Absent THEN at[t].stop ELSE Constraint(n, c.end)
           s == [at[t] EXCEPT !.stop = i]
<1>1. /\ pc[t] = "stop" /\ c.op \in Sliced /\ pc[t] \notin {"idle", "done"}
      /\ UNCHANGED <<items, mods, history, copied, noted, disturbed>>
  BY DEF Stop, At
<1>2. n \in Nat /\ c.end \in Int \cup {Absent} /\ IsSlice(at[t]) /\ at[t].stop \in SizeT
  BY <1>1, LocalFacts DEF CallOK, LocalOK, Wide
<1>3. n = Len(items[c.array]) /\ Array(t) = c.array
  BY DEF Size, Array
<1>4. ASSUME Proper(t)
      PROVE  /\ items = before[t] /\ StrideOK(n, c, at[t])
             /\ c.end = Absent => Stands(at[t].stop, Final(n, c))
  <2>1. items = before[t] /\ OnWay("stop", c, at[t], copied[t], noted[t], before[t], mods)
    BY <1>1, <1>4, ProperFacts
  <2> QED
    BY <1>1, <1>3, <2>1, SliceOnWay
<1>5. c.end # Absent =>
        /\ i = -1 <=> ~HasIndex(n, c.end)
        /\ i # -1 => Stands(i, PositionOf(n, c.end))
  BY <1>2, ConstraintMeans DEF Stands
<1>6. CASE i = -1
  <2>1. Finish(t, Error("IndexError")) /\ UNCHANGED at
    BY <1>6 DEF Stop
  <2>2. c.end # Absent /\ ~HasIndex(n, c.end)
    BY <1>2, <1>5, <1>6, TopAssumption DEF SizeT
  <2> HIDE DEF n, i, c
  <2>3. ASSUME Proper(t) PROVE Meaning(c, before[t]) = Done(items[Array(t)], Error("IndexError"))
    <3>1. n > 0 /\ c.step # 0 /\ n = Len(before[t][c.array])
      BY <1>2, <1>3, <1>4, <2>3, Steps, BoundaryAssumption DEF StrideOK
    <3>2. BadSlice(n, c)
      BY <2>2, <3>1 DEF BadSlice
    <3> QED
      BY <1>1, <1>3, <1>4, <2>3, <3>1, <3>2, SliceMeaning
  <2> QED
    BY <1>1, <2>1, <2>3, LeaveAlone DEF c
<1>7. CASE i # -1
  <2>1. at' = [at EXCEPT ![t].stop = i] /\ Goto(t, "start") /\ UNCHANGED result
    BY <1>7 DEF Stop
  <2>2. i = at[t].stop \/ c.end # Absent
    OBVIOUS
  <2>0. c.end = Absent => i = at[t].stop
    OBVIOUS
  <2> HIDE DEF n, i
  <2>3. at' = [at EXCEPT ![t] = s]
    BY <2>1
  <2>4. s.begin = at[t].begin /\ s.step = at[t].step /\ s.stop = i
    <3>1. s = [begin |-> at[t].begin, count |-> at[t].count, step |-> at[t].step, stop |-> i]
      BY <1>2, SliceWith
    <3> QED
      BY <3>1
  <2> HIDE DEF s
  <2>5. Sets(t, "start", call[t], s, copied[t], noted[t], result[t], before[t])
    BY <1>1, <2>1, <2>3, LocalFacts DEF Sets, Goto, history
  <2>6. ASSUME Proper(t) PROVE OnWay("start", call[t], s, copied[t], noted[t], before[t], mods)
    <3>1. StrideOK(n, c, s)
      BY <1>4, <2>4, <2>6 DEF StrideOK
    <3>2. Stands(s.stop, Final(n, c)) /\ (c.end # Absent => HasIndex(n, c.end))
      <4>1. CASE c.end = Absent
        BY <1>4, <2>0, <2>4, <2>6, <4>1
      <4>2. CASE c.end # Absent
        BY <1>5, <1>7, <2>4, <4>2 DEF Final
      <4> QED
        BY <4>1, <4>2
    <3>3. n = Len(before[t][c.array])
      BY <1>3, <1>4, <2>6
    <3> HIDE DEF c
    <3>4. OnWay("start", c, s, copied[t], noted[t], before[t], mods)
      BY <1>1, <3>1, <3>2, <3>3, SliceOnWay
    <3> QED
      BY <3>4 DEF c
  <2> QED
    BY <1>1, <2>5, <2>6, MoveAlone
<1> QED
  BY <1>6, <1>7

\* ... and its beginning, with which the places are known.
LEMMA StartAlone ==
  ASSUME ContentInv, AloneInv, NEW t \in Threads, Start(t)
  PROVE  AloneInv'
<1> DEFINE c == call[t]
           n == Size(Array(t))
           i == IF c.begin = Absent THEN at[t].begin ELSE Constraint(n, c.begin)
           stop == at[t].stop
           step == at[t].step
           up == ((stop - i) \div step) + 1
           down == ((i - stop) \div (-step)) + 1
<1>1. /\ pc[t] = "start" /\ c.op \in Sliced /\ pc[t] \notin {"idle", "done"}
      /\ UNCHANGED <<items, mods, history, copied, noted, disturbed>>
  BY DEF Start, At
<1>2. /\ n \in Nat /\ c.begin \in Int \cup {Absent} /\ c.step \in Int \cup {Absent} \cup HugeSteps
      /\ c.end \in Int \cup {Absent} /\ at[t].begin \in SizeT /\ stop \in SizeT /\ step \in Int \ {0}
  BY <1>1, LocalFacts DEF CallOK, LocalOK, Wide
<1>3. n = Len(items[c.array]) /\ Array(t) = c.array
  BY DEF Size, Array
<1>4. ASSUME Proper(t)
      PROVE  /\ items = before[t] /\ StrideOK(n, c, at[t]) /\ ~Departs(c, before[t])
             /\ Stands(stop, Final(n, c)) /\ (c.end # Absent => HasIndex(n, c.end))
  <2>1. items = before[t] /\ OnWay("start", c, at[t], copied[t], noted[t], before[t], mods)
    BY <1>1, <1>4, ProperFacts
  <2> QED
    BY <1>1, <1>3, <1>4, <2>1, SliceOnWay DEF Proper
<1>5. /\ c.begin # Absent =>
           /\ i = -1 <=> ~HasIndex(n, c.begin)
           /\ i # -1 => i \in Nat /\ i + 1 = PositionOf(n, c.begin)
      /\ c.begin = Absent => i = at[t].begin
  BY <1>2, ConstraintMeans
<1>6. i # -1 => i \in SizeT
  BY <1>2, <1>5 DEF SizeT
<1>7. \/ i = -1 /\ Finish(t, Error("IndexError")) /\ UNCHANGED at
      \/ i # -1 /\ Top \in {i, stop} /\ \E count : Resolved(t, <<0, count, step>>)
      \/ i # -1 /\ (IF step > 0 THEN stop < i ELSE i < stop) /\ Resolved(t, <<0, 0, 0>>)
      \/ i # -1 /\ step > 0 /\ ~(stop < i) /\ Resolved(t, <<i, up, step>>)
      \/ i # -1 /\ step < 0 /\ ~(i < stop) /\ Resolved(t, <<i, down, step>>)
  <2> DEFINE R0 == Resolved(t, <<0, 0, 0>>)
             R1 == Resolved(t, <<i, up, step>>)
             R2 == Resolved(t, <<i, down, step>>)
             R3 == \E count : Resolved(t, <<0, count, step>>)
             E == Finish(t, Error("IndexError")) /\ UNCHANGED at
  <2>1. \/ i = -1 /\ E
        \/ i # -1 /\ Top \in {i, stop} /\ R3
        \/ /\ i # -1 /\ Top \notin {i, stop}
           /\ \/ ((step > 0 /\ stop < i) \/ (step < 0 /\ stop > i)) /\ R0
              \/ step > 0 /\ ~(stop < i) /\ R1
              \/ ~(step > 0) /\ ~(step < 0 /\ stop > i) /\ R2
    BY DEF Start
  <2> HIDE DEF R0, R1, R2, R3, E, i, up, down, stop, step
  <2>2. ASSUME i # -1, Top \notin {i, stop} PROVE i \in Nat /\ stop \in Nat
    BY <1>2, <1>6, <2>2 DEF SizeT
  <2>3. \/ i = -1 /\ E
        \/ i # -1 /\ Top \in {i, stop} /\ R3
        \/ i # -1 /\ (IF step > 0 THEN stop < i ELSE i < stop) /\ R0
        \/ i # -1 /\ step > 0 /\ ~(stop < i) /\ R1
        \/ i # -1 /\ step < 0 /\ ~(i < stop) /\ R2
    BY <1>2, <2>1, <2>2
  <2> QED
    BY <2>3 DEF R0, R1, R2, R3, E
\* With a beginning that is an index, the slice is a good one.
<1>8. ASSUME Proper(t), i # -1
      PROVE  /\ n \in Nat \ {0} /\ i \in Nat /\ i + 1 = First(n, c)
             /\ stop \in Nat /\ stop + 1 = Final(n, c)
             /\ ~BadSlice(n, c) /\ c.step \in Int \cup {Absent} /\ c.step # 0
             /\ step = IF c.step = Absent THEN 1 ELSE c.step
  <2>1. StrideOK(n, c, at[t])
    BY <1>4, <1>8
  <2>2. /\ n \in Nat \ {0} /\ c.step \in Int \cup {Absent} /\ c.step # 0
        /\ step = IF c.step = Absent THEN 1 ELSE c.step
    BY <1>2, <2>1, Steps, BoundaryAssumption DEF StrideOK
  <2>3. i \in Nat /\ i + 1 = First(n, c) /\ (c.begin # Absent => HasIndex(n, c.begin))
    <3>1. CASE c.begin = Absent
      BY <1>5, <2>1, <3>1 DEF StrideOK, Stands
    <3>2. CASE c.begin # Absent
      <4>1. First(n, c) = PositionOf(n, c.begin)
        BY <3>2 DEF First
      <4> QED
        BY <1>5, <1>8, <3>2, <4>1
    <3> QED
      BY <3>1, <3>2
  <2>4. ~BadSlice(n, c)
    BY <1>4, <1>8, <2>2, <2>3 DEF BadSlice
  <2> QED
    BY <1>4, <1>8, <2>2, <2>3, <2>4 DEF Stands
<1> HIDE DEF i, stop, step, n
<1>9. CASE i = -1 /\ Finish(t, Error("IndexError")) /\ UNCHANGED at
  <2>1. c.begin # Absent /\ ~HasIndex(n, c.begin)
    BY <1>2, <1>5, <1>9, TopAssumption DEF SizeT
  <2> HIDE DEF c
  <2>2. ASSUME Proper(t) PROVE Meaning(c, before[t]) = Done(items[Array(t)], Error("IndexError"))
    <3>1. n > 0 /\ c.step # 0 /\ n = Len(before[t][c.array])
      BY <1>2, <1>3, <1>4, <2>2, Steps, BoundaryAssumption DEF StrideOK
    <3>2. BadSlice(n, c)
      BY <2>1, <3>1 DEF BadSlice
    <3> QED
      BY <1>1, <1>3, <1>4, <2>2, <3>1, <3>2, SliceMeaning
  <2> QED
    BY <1>1, <1>9, <2>2, LeaveAlone DEF c
<1>13. CASE i # -1 /\ Top \in {i, stop} /\ \E count : Resolved(t, <<0, count, step>>)
  <2>1. ~Proper(t)
    BY <1>8, <1>13, TopAssumption
  <2> HIDE DEF c
  <2> QED
    BY <1>1, <1>13, <2>1, ResolvedAlone DEF c
<1>10. CASE i # -1 /\ (IF step > 0 THEN stop < i ELSE i < stop) /\ Resolved(t, <<0, 0, 0>>)
  <2>1. ASSUME Proper(t)
        PROVE  /\ call[t].op = "getSlice"
               /\ PlacesOK(Len(items[c.array]), c, [begin |-> 0, count |-> 0, step |-> 0, stop |-> 0])
    <3> HIDE DEF c
    <3>1. Chosen(n, c) = <<>>
      <4>1. CASE step > 0
        <5>1. step \in Nat \ {0} /\ stop < i
          BY <1>2, <1>10, <4>1
        <5> QED
          BY <1>2, <1>8, <1>10, <2>1, <5>1, ChosenUp
      <4>2. CASE ~(step > 0)
        <5> DEFINE d == -step
        <5>1. d \in Nat \ {0} /\ i < stop /\ step = -d
          BY <1>2, <1>10, <4>2
        <5> HIDE DEF d
        <5>2. c.step = -d
          BY <1>8, <1>10, <2>1, <4>2, <5>1
        <5> QED
          BY <1>2, <1>8, <1>10, <2>1, <5>1, <5>2, ChosenDown
      <4> QED
        BY <4>1, <4>2
    <3>2. ~BadSlice(n, c) /\ c.step # 0
      BY <1>8, <1>10, <2>1
    <3>3. PlacesOK(n, c, [begin |-> 0, count |-> 0, step |-> 0, stop |-> 0])
      BY <1>2, <3>1, <3>2, NoPlaces
    <3>4. c.op = "getSlice"
      <4>1. ~Departs(c, before[t]) /\ n = Len(before[t][c.array])
        BY <1>3, <1>4, <2>1
      <4> QED
        BY <1>1, <3>1, <3>2, <4>1 DEF Departs, Sliced
    <3> QED
      BY <1>3, <3>3, <3>4 DEF c
  <2> QED
    BY <1>1, <1>10, <2>1, ResolvedAlone
<1>11. CASE i # -1 /\ step > 0 /\ ~(stop < i) /\ Resolved(t, <<i, up, step>>)
  <2> DEFINE s == [begin |-> i, count |-> up, step |-> step, stop |-> 0]
  <2>1. ASSUME Proper(t) PROVE PlacesOK(n, c, s)
    <3> HIDE DEF c
    <3>1. /\ i \in Nat /\ stop \in Nat /\ i <= stop /\ step \in Nat \ {0} /\ n \in Nat \ {0}
          /\ i + 1 = First(n, c) /\ stop + 1 = Final(n, c)
      BY <1>2, <1>8, <1>11, <2>1
    <3>2. /\ up \in Nat \ {0} /\ \A k \in 1 .. up : Run(i, step, up)[k] \in i + 1 .. stop + 1
          /\ Ascending(Upwards(i + 1, stop + 1, step)) = Run(i, step, up)
      BY <3>1, RunUp
    <3> HIDE DEF up
    <3>3. Chosen(n, c) = Run(i, step, up)
      BY <1>8, <1>11, <2>1, <3>1, <3>2, ChosenUp
    <3>4. stop + 1 <= n
      BY <1>2, <1>4, <2>1, <3>1 DEF Final, HasIndex, PositionOf
    <3>5. \A k \in 1 .. up : Run(i, step, up)[k] \in 1 .. n
      BY <3>1, <3>2, <3>4
    <3>6. s.begin = i /\ s.count = up /\ s.step = step
      OBVIOUS
    <3>7. step = IF c.step \in {Absent} \cup HugeSteps THEN 1 ELSE c.step
      BY <1>8, <1>11, <2>1, Steps
    <3> HIDE DEF s
    <3> QED
      BY <1>8, <1>11, <2>1, <3>1, <3>2, <3>3, <3>5, <3>6, <3>7 DEF PlacesOK
  <2>2. step # 0
    BY <1>2
  <2> HIDE DEF up
  <2> QED
    BY <1>1, <1>3, <1>11, <2>1, <2>2, ResolvedAlone
<1>12. CASE i # -1 /\ step < 0 /\ ~(i < stop) /\ Resolved(t, <<i, down, step>>)
  <2> DEFINE s == [begin |-> i, count |-> down, step |-> step, stop |-> 0]
  <2>1. ASSUME Proper(t) PROVE PlacesOK(n, c, s)
    <3> HIDE DEF c
    <3> DEFINE d == -step
    <3>1. /\ i \in Nat /\ stop \in Nat /\ stop <= i /\ d \in Nat \ {0} /\ n \in Nat \ {0}
          /\ i + 1 = First(n, c) /\ stop + 1 = Final(n, c) /\ -d = step
      BY <1>2, <1>8, <1>12, <2>1
    <3>0. c.step = -d
      BY <1>8, <1>12, <2>1, <3>1
    <3>9. down = ((i - stop) \div d) + 1
      OBVIOUS
    <3> HIDE DEF d, down
    <3>2. /\ down \in Nat \ {0} /\ \A k \in 1 .. down : Run(i, step, down)[k] \in stop + 1 .. i + 1
          /\ Reverse(Ascending(Downwards(i + 1, stop + 1, d))) = Run(i, step, down)
      <4>1. step = -d
        BY <3>1
      <4>2. stop <= i /\ i \in Nat /\ stop \in Nat
        BY <3>1
      <4>3. d \in Nat \ {0}
        BY <3>1
      <4> QED
        BY <3>9, <4>1, <4>2, <4>3, RunDown
    <3>3. Chosen(n, c) = Run(i, step, down)
      <4>1. Chosen(n, c) = Reverse(Ascending(Downwards(i + 1, stop + 1, d)))
        BY <3>0, <3>1, ChosenDown
      <4> QED
        BY Zenon, <3>1, <3>2, <4>1
    <3>4. i + 1 <= n
      <4>1. c.begin # Absent => HasIndex(n, c.begin)
        BY <1>5, <1>12
      <4> QED
        BY <1>2, <1>8, <1>12, <2>1, <3>1, <4>1 DEF First, HasIndex, PositionOf
    <3>5. \A k \in 1 .. down : Run(i, step, down)[k] \in 1 .. n
      BY <3>1, <3>2, <3>4
    <3>6. s.begin = i /\ s.count = down /\ s.step = step
      OBVIOUS
    <3>7. step = IF c.step \in {Absent} \cup HugeSteps THEN 1 ELSE c.step
      BY <1>8, <1>12, <2>1, Steps
    <3> HIDE DEF s
    <3> QED
      BY <1>8, <1>12, <2>1, <3>1, <3>2, <3>3, <3>5, <3>6, <3>7 DEF PlacesOK
  <2>2. step # 0
    BY <1>2
  <2> HIDE DEF down
  <2> QED
    BY <1>1, <1>3, <1>12, <2>1, <2>2, ResolvedAlone
<1> QED
  BY <1>7, <1>9, <1>10, <1>11, <1>12, <1>13

\* Before the lock of the array is taken.
LEMMA PrepareAlone ==
  ASSUME ContentInv, AloneInv, NEW t \in Threads, Prepare(t)
  PROVE  AloneInv'
<1> DEFINE c == call[t]
           b == before[t]
<1>0. /\ LocalOK(t, pc[t], c, at[t], copied[t], noted[t], result[t], b)
      /\ Array(t) = c.array /\ Source(t) = c.source
      /\ pc[t] # "idle" => items[c.array] \in Seq(Items)
      /\ pc[t] # "idle" /\ FromArray(c) => items[c.source] \in Seq(Items)
  BY LocalFacts DEF Array, Source
<1>1. ASSUME Gather(t) PROVE AloneInv'
  <2> DEFINE k == IF FromArray(c) THEN items[c.source] ELSE c.values
             n == IF FromArray(c) THEN mods[c.source] ELSE 0
  <2>1. /\ pc[t] = "gather" /\ c.op = "setSlice" /\ pc[t] \notin {"idle", "done"} /\ c.op \in Sliced
        /\ UNCHANGED <<items, mods, disturbed>>
    BY <1>1 DEF Gather, At, Sliced
  <2>2. copied' = [copied EXCEPT ![t] = k] /\ noted' = [noted EXCEPT ![t] = n]
    BY <1>0, <1>1 DEF Gather
  <2>3. FromArray(c) <=> c.from = "array"
    BY <2>1 DEF FromArray, Copies
  <2>4. (FromArray(c) => n = mods[c.source]) /\ k = Given(c, items)
    BY <2>3 DEF Given
  <2> HIDE DEF k, n
  <2>5. Sets(t, "lock", call[t], at[t], k, n, result[t], before[t])
    BY <1>1, <2>2, LocalFacts DEF Gather, Goto, history, Sets
  <2>6. ASSUME Proper(t) PROVE OnWay("lock", c, at[t], k, n, b, mods)
    <3>1. items = b /\ OnWay("gather", c, at[t], copied[t], noted[t], b, mods)
      BY <2>1, <2>6, ProperFacts
    <3> HIDE DEF b, c
    <3>2. PlacesOK(Len(b[c.array]), c, at[t])
      BY <2>1, <3>1, SliceOnWay
    <3> QED
      BY <2>1, <2>4, <3>1, <3>2, SliceOnWay
  <2> QED
    BY <2>1, <2>5, <2>6, MoveAlone
<1>2. ASSUME CopyLock(t) PROVE AloneInv'
  <2>1. /\ pc[t] = "copy" /\ c.op \in Copies /\ pc[t] \notin {"idle", "done"}
        /\ UNCHANGED <<items, mods, disturbed>>
    BY <1>2 DEF CopyLock, At
  <2>2. Sets(t, "copying", call[t], at[t], copied[t], noted[t], result[t], before[t])
    BY <1>2, LocalFacts DEF CopyLock, Goto, history, Sets
  <2>3. Proper(t) => OnWay("copying", c, at[t], copied[t], noted[t], b, mods)
    BY <2>1, ProperFacts DEF OnWay, CopiedOK, Copies, Indexed, Sliced
  <2> QED
    BY <2>1, <2>2, <2>3, MoveAlone
<1>3. ASSUME Copy(t) PROVE AloneInv'
  <2> DEFINE r == items[c.source]
             k == copied[t] \o r
  <2>1. /\ pc[t] = "copying" /\ c.op \in {"concat", "concatCopy"} /\ pc[t] \notin {"idle", "done"}
        /\ FromArray(c) /\ UNCHANGED <<items, mods, disturbed>>
    BY <1>3 DEF Copy, At, Copies, FromArray
  <2>2. copied' = [copied EXCEPT ![t] = k]
    BY <1>0, <1>3 DEF Copy
  <2>3. ASSUME Proper(t)
        PROVE  items = b /\ copied[t] = (IF c.op = "concat" THEN <<>> ELSE items[c.array])
    <3>1. items = b /\ OnWay("copying", c, at[t], copied[t], noted[t], b, mods)
      BY <2>1, <2>3, ProperFacts
    <3> QED
      BY <2>1, <3>1 DEF OnWay, CopiedOK
  <2>4. r \in Seq(Items)
    BY <1>0, <2>1
  <2>5. CASE c.op = "concat"
    <3>1. Goto(t, "lock") /\ UNCHANGED result
      BY <1>3, <2>5 DEF Copy
    <3> HIDE DEF k
    <3>2. Sets(t, "lock", call[t], at[t], k, noted[t], result[t], before[t])
      BY <1>3, <2>2, <3>1, LocalFacts DEF Copy, Goto, history, Sets
    <3>3. Proper(t) => k = r
      BY <2>3, <2>4, <2>5, ConcatEmptySeq DEF k
    <3> HIDE DEF r
    <3>4. Proper(t) => k = b[c.source]
      BY <2>3, <3>3 DEF r
    <3>5. Proper(t) => OnWay("lock", c, at[t], k, noted[t], b, mods)
      BY <2>5, <3>4 DEF OnWay, CopiedOK, Indexed, Sliced
    <3> QED
      BY <2>1, <3>2, <3>5, MoveAlone
  <2>6. CASE c.op = "concatCopy"
    <3>1. Finish(t, Value(k))
      BY <1>0, <1>3, <2>6 DEF Copy
    <3>2. Proper(t) => Meaning(c, b) = Done(items[Array(t)], Value(k))
      BY <1>0, <2>3, <2>6, OtherMeaning
    <3> HIDE DEF k
    <3>3. Sets(t, "done", call[t], at[t], k, noted[t], Value(k), before[t])
      BY <1>3, <2>2, <3>1, LocalFacts DEF Copy, Finish, Goto, history, Sets
    <3> QED
      BY <2>1, <3>1, <3>2, <3>3, FinishAlone
  <2> QED
    BY <2>1, <2>5, <2>6
<1>4. ASSUME Empty(t) PROVE AloneInv'
  <2>1. /\ pc[t] = "empty" /\ c.op = "repeatCopy" /\ pc[t] \notin {"idle", "done"}
        /\ Finish(t, Value(<<>>)) /\ UNCHANGED <<items, mods, history, at, copied, noted, disturbed>>
    BY <1>4 DEF Empty, At
  <2>2. ASSUME Proper(t) PROVE Meaning(c, b) = Done(items[Array(t)], Value(<<>>))
    <3>1. items = b /\ OnWay("empty", c, at[t], copied[t], noted[t], b, mods)
      BY <2>1, <2>2, ProperFacts
    <3>2. c.count = 0
      BY <3>1 DEF OnWay
    <3>3. Repeated(items[c.array], 0) = <<>>
      BY <1>0, <2>1, RepeatedMeans
    <3>4. Meaning(c, b) = Done(b[c.array], Value(Repeated(b[c.array], c.count)))
      BY <2>1, OtherMeaning
    <3> QED
      BY <1>0, <3>1, <3>2, <3>3, <3>4
  <2> QED
    BY <2>1, <2>2, LeaveAlone
<1>5. ASSUME Lock(t) PROVE AloneInv'
  <2>1. pc[t] = "lock" /\ pc[t] \notin {"idle", "done"} /\ UNCHANGED <<items, mods, disturbed>>
    BY <1>5 DEF Lock
  <2>2. Sets(t, "locked", call[t], at[t], copied[t], noted[t], result[t], before[t])
    BY <1>5, LocalFacts DEF Lock, Goto, history, Sets
  <2>3. ASSUME Proper(t) PROVE OnWay("locked", c, at[t], copied[t], noted[t], b, mods)
    <3>1. OnWay("lock", c, at[t], copied[t], noted[t], b, mods)
      BY <2>1, <2>3, ProperFacts
    <3> HIDE DEF c, b
    <3> QED
      BY <3>1 DEF OnWay, CopiedOK
  <2> QED
    BY <2>1, <2>2, <2>3, MoveAlone
<1>6. ASSUME Iterator(t) PROVE AloneInv'
  <2>1. /\ pc[t] = "iterator" /\ c.op = "for" /\ UNCHANGED <<items, mods>>
        /\ disturbed' = [disturbed EXCEPT ![t] = FALSE]
    BY <1>6 DEF Iterator, At
  <2>2. Sets(t, "lock", call[t], at[t], copied[t], mods[c.array], result[t], items)
    BY <1>0, <1>6, LocalFacts DEF Iterator, Goto, Sets
  <2>3. Told(t)
    BY <2>1 DEF Told, AloneInv
  <2>4. OnWay("lock", c, at[t], copied[t], mods[c.array], items, mods)
    BY <2>1 DEF OnWay, CopiedOK, Indexed, Sliced
  <2>5. AloneOK("lock", c, at[t], copied[t], mods[c.array], result[t], items, items', mods')
    BY <2>1, <2>4 DEF AloneOK
  <2> QED
    BY <2>2, <2>3, <2>5, AloneStep
<1> QED
  BY <1>1, <1>2, <1>3, <1>4, <1>5, <1>6 DEF Prepare

\* Searching and comparing: what has been passed is different from what is
\* searched for, or the same in both arrays.
LEMMA ScanAlone ==
  ASSUME ContentInv, AloneInv, NEW t \in Threads, Scan(t)
  PROVE  AloneInv'
<1> DEFINE c == call[t]
           b == before[t]
           l == items[c.array]
           r == items[c.source]
           i == at[t].count
<1>0. /\ LocalOK(t, pc[t], c, at[t], copied[t], noted[t], result[t], b)
      /\ Array(t) = c.array /\ Source(t) = c.source /\ Size(c.array) = Len(l) /\ Size(c.source) = Len(r)
      /\ pc[t] # "idle" => l \in Seq(Items) /\ Len(l) \in Nat /\ DOMAIN l = 1 .. Len(l)
      /\ pc[t] # "idle" /\ c.op = "compare" => r \in Seq(Items) /\ Len(r) \in Nat
  BY LocalFacts, LenProperties DEF Array, Source, Size, FromArray
<1>1. IsSlice(at[t]) /\ i \in Nat
  <2>1. c.op \in Scans /\ c.op \notin Sliced
    BY DEF Scan, Sizes, Search, Compare, Differ, At, Scans, Sliced
  <2> QED
    BY <1>0, <2>1 DEF LocalOK
<1>2. ASSUME NEW p, p \notin {"idle", "done"}, pc[t] \notin {"idle", "done"},
             NEW s, Goto(t, p), at' = [at EXCEPT ![t] = s],
             UNCHANGED <<items, mods, history, copied, noted, result, disturbed>>,
             Proper(t) => OnWay(p, c, s, copied[t], noted[t], b, mods)
      PROVE  AloneInv'
  <2>1. Sets(t, p, call[t], s, copied[t], noted[t], result[t], before[t])
    BY <1>2, LocalFacts DEF Goto, history, Sets
  <2> QED
    BY <1>2, <2>1, MoveAlone
<1>3. ASSUME NEW v, Scanned(t, v), pc[t] \notin {"idle", "done"},
             Proper(t) => Meaning(c, b) = Done(l, v)
      PROVE  AloneInv'
  BY <1>0, <1>3, LeaveAlone DEF Scanned
<1>4. ASSUME pc[t] = "scan", Advance(t),
             NEW s, s = [at[t] EXCEPT !.count = @ + 1],
             Proper(t) => OnWay("scan", c, s, copied[t], noted[t], b, mods)
      PROVE  AloneInv'
  <2>1. at' = [at EXCEPT ![t] = s] /\ UNCHANGED <<items, mods, history, copied, noted, result, disturbed>>
    BY <1>4 DEF Advance
  <2>2. Goto(t, "scan")
    BY <1>4, LocalFacts DEF Advance, Goto
  <2> QED
    BY <1>2, <1>4, <2>1, <2>2
<1>5. ASSUME Break(t) PROVE AloneInv'
  BY <1>5 DEF Break, AloneInv, Alone, work, history
<1>6. ASSUME Sizes(t) PROVE AloneInv'
  <2> DEFINE n == IF c.op = "compare" THEN Len(r) ELSE 0
             s == [begin |-> Len(l), count |-> 0, step |-> 0, stop |-> n]
  <2>1. /\ pc[t] = "sizes" /\ c.op \in Scans /\ pc[t] \notin {"idle", "done"}
        /\ UNCHANGED <<items, mods, history, copied, noted, result, disturbed>>
        /\ at' = [at EXCEPT ![t] = s] /\ Goto(t, "scan")
    BY <1>0, <1>6 DEF Sizes, At
  <2>2. s.begin = Len(l) /\ s.count = 0 /\ s.stop = n
    OBVIOUS
  <2> HIDE DEF s
  <2>3. ASSUME Proper(t) PROVE OnWay("scan", c, s, copied[t], noted[t], b, mods)
    <3>1. items = b
      BY <2>1, <2>3, ProperFacts
    <3>2. \A j \in 1 .. s.count : FALSE
      BY <2>2
    <3> HIDE DEF n, b, c
    <3>3. c.op = "contains" => SearchOK(b[c.array], c, s)
      BY <1>0, <2>1, <2>2, <3>1, <3>2 DEF SearchOK
    <3>4. c.op = "compare" => CompareOK("scan", b[c.array], b[c.source], s)
      <4> SUFFICES ASSUME c.op = "compare" PROVE CompareOK("scan", b[c.array], b[c.source], s)
        OBVIOUS
      <4>1. n = Len(r)
        BY DEF n
      <4> QED
        BY <1>0, <2>1, <2>2, <3>1, <3>2, <4>1 DEF CompareOK
    <3> QED
      BY <2>1, <3>3, <3>4 DEF OnWay, CopiedOK, Indexed, Sliced, Scans
  <2> QED
    BY <1>2, <2>1, <2>3
<1>7. ASSUME NEW s, s = [at[t] EXCEPT !.count = @ + 1]
      PROVE  s.count = i + 1 /\ s.begin = at[t].begin /\ s.stop = at[t].stop
  <2>1. s = [begin |-> at[t].begin, count |-> i + 1, step |-> at[t].step, stop |-> at[t].stop]
    BY <1>1, <1>7, SliceWith
  <2> QED
    BY <2>1
<1>8. ASSUME Search(t) PROVE AloneInv'
  <2>1. pc[t] = "scan" /\ c.op = "contains" /\ pc[t] \notin {"idle", "done"}
    BY <1>8 DEF Search, At
  <2>2. \/ i < Len(l) /\ l[i + 1] = c.value /\ Scanned(t, Value(<<1>>))
        \/ i < Len(l) /\ l[i + 1] # c.value /\ Advance(t)
        \/ ~(i < Len(l)) /\ Scanned(t, Value(<<0>>))
        \/ Break(t)
    BY <1>0, <1>8 DEF Search, MayRead
  <2>3. ASSUME Proper(t)
        PROVE  items = b /\ i <= Len(l) /\ \A j \in 1 .. i : l[j] # c.value
    <3>1. items = b /\ OnWay("scan", c, at[t], copied[t], noted[t], b, mods)
      BY <2>1, <2>3, ProperFacts
    <3>2. SearchOK(b[c.array], c, at[t])
      BY <2>1, <3>1 DEF OnWay
    <3> QED
      BY <3>1, <3>2 DEF SearchOK
  <2>4. Proper(t) => Meaning(c, b) = Done(l, Value(<<IF c.value \in Range(l) THEN 1 ELSE 0>>))
    BY <2>1, <2>3, OtherMeaning
  <2> HIDE DEF l, i, b, c
  <2>5. CASE i < Len(l) /\ l[i + 1] = c.value /\ Scanned(t, Value(<<1>>))
    <3>1. i + 1 \in DOMAIN l
      BY <1>0, <1>1, <2>1, <2>5
    <3>2. c.value \in Range(l)
      BY <2>5, <3>1 DEF Range
    <3>3. Proper(t) => Meaning(c, b) = Done(l, Value(<<1>>))
      BY <2>4, <3>2
    <3> QED
      BY <1>3, <2>1, <2>5, <3>3
  <2>6. CASE ~(i < Len(l)) /\ Scanned(t, Value(<<0>>))
    <3>1. ASSUME Proper(t) PROVE c.value \notin Range(l)
      <4>1. i = Len(l)
        <5>1. Len(l) \in Nat /\ i \in Nat
          BY <1>0, <1>1, <2>1 DEF i
        <5>2. i <= Len(l) /\ ~(i < Len(l))
          BY <2>3, <2>6, <3>1
        <5> QED
          BY <5>1, <5>2
      <4>2. \A j \in 1 .. i : l[j] # c.value
        BY <2>3, <3>1
      <4>3. DOMAIN l = 1 .. i
        BY <1>0, <2>1, <4>1
      <4> QED
        BY <4>2, <4>3 DEF Range
    <3>2. Proper(t) => Meaning(c, b) = Done(l, Value(<<0>>))
      BY <2>4, <3>1
    <3> QED
      BY <1>3, <2>1, <2>6, <3>2
  <2>7. CASE i < Len(l) /\ l[i + 1] # c.value /\ Advance(t)
    <3> DEFINE s == [at[t] EXCEPT !.count = @ + 1]
    <3>1. s.count = i + 1
      BY <1>7
    <3>0. s = [at[t] EXCEPT !.count = @ + 1]
      OBVIOUS
    <3> HIDE DEF s
    <3>2. ASSUME Proper(t) PROVE SearchOK(l, c, s)
      <4>1. \A j \in 1 .. i + 1 : j \in 1 .. i \/ j = i + 1
        BY <1>1 DEF i
      <4>2. i + 1 <= Len(l)
        BY <1>0, <1>1, <2>1, <2>7 DEF i
      <4> QED
        BY <2>3, <2>7, <3>1, <3>2, <4>1, <4>2 DEF SearchOK
    <3>3. Proper(t) => OnWay("scan", c, s, copied[t], noted[t], b, mods)
      <4>1. Proper(t) => l = b[c.array]
        BY <2>3 DEF l
      <4> QED
        BY <2>1, <3>2, <4>1 DEF OnWay, CopiedOK, Indexed, Sliced
    <3> QED
      BY <1>4, <2>1, <2>7, <3>0, <3>3
  <2> QED
    BY <1>5, <2>2, <2>5, <2>6, <2>7
<1>9. ASSUME pc[t] \in {"scan", "differ"}, c.op = "compare", Proper(t)
      PROVE  items = b /\ CompareOK(pc[t], l, r, at[t])
  <2>1. items = b /\ OnWay(pc[t], c, at[t], copied[t], noted[t], b, mods)
    BY <1>9, ProperFacts
  <2> QED
    BY <1>9, <2>1 DEF OnWay
<1>10. pc[t] # "idle" /\ c.op = "compare" => l \in Seq(Int) /\ r \in Seq(Int)
  BY <1>0, ItemsInt
<1>11. c.op = "compare" /\ items = b => Meaning(c, b) = Done(l, Value(<<Order(l, r)>>))
  BY OtherMeaning
<1>12. ASSUME Compare(t) PROVE AloneInv'
  <2> DEFINE m == at[t].begin
             n == at[t].stop
             v == Value(<<Sign(m - n)>>)
  <2>1. pc[t] = "scan" /\ c.op = "compare" /\ pc[t] \notin {"idle", "done"}
    BY <1>12 DEF Compare, At
  <2>2. \/ ~(i < m /\ i < n) /\ Scanned(t, v)
        \/ i < Len(l) /\ i < Len(r) /\ l[i + 1] = r[i + 1] /\ Advance(t)
        \/ /\ i < m /\ i < n /\ i < Len(l) /\ i < Len(r) /\ l[i + 1] # r[i + 1] /\ Goto(t, "differ")
           /\ UNCHANGED <<items, mods, lock, named, history, at, copied, noted, result, broken, disturbed>>
        \/ Break(t)
    BY <1>0, <1>12 DEF Compare, MayRead
  <2> HIDE DEF l, r, i, c, b
  <2>3. ASSUME Proper(t)
        PROVE  /\ items = b /\ CompareOK("scan", l, r, at[t]) /\ m = Len(l) /\ n = Len(r)
               /\ i <= Len(l) /\ i <= Len(r) /\ \A j \in 1 .. i : l[j] = r[j]
    <3>1. items = b /\ CompareOK("scan", l, r, at[t])
      BY <1>9, <2>1, <2>3
    <3> QED
      BY <3>1 DEF CompareOK, i
  <2>4. CASE ~(i < m /\ i < n) /\ Scanned(t, v)
    <3>1. ASSUME Proper(t) PROVE Meaning(c, b) = Done(l, v)
      <4>1. i = Len(l) \/ i = Len(r)
        BY <1>0, <1>1, <2>1, <2>3, <2>4, <3>1 DEF i
      <4>2. i \in Nat
        BY <1>1 DEF i
      <4>3. Order(l, r) = Sign(Len(l) - Len(r))
        BY <1>10, <2>1, <2>3, <3>1, <4>1, <4>2, OrderIs
      <4> QED
        BY <1>11, <2>1, <2>3, <3>1, <4>3
    <3> HIDE DEF v
    <3> QED
      BY <1>3, <2>1, <2>4, <3>1
  <2>5. CASE i < Len(l) /\ i < Len(r) /\ l[i + 1] = r[i + 1] /\ Advance(t)
    <3> DEFINE s == [at[t] EXCEPT !.count = @ + 1]
    <3>1. s.count = i + 1 /\ s.begin = m /\ s.stop = n
      BY <1>7
    <3>0. s = [at[t] EXCEPT !.count = @ + 1]
      OBVIOUS
    <3> HIDE DEF s, m, n
    <3>2. ASSUME Proper(t) PROVE CompareOK("scan", l, r, s)
      <4>1. \A j \in 1 .. i + 1 : j \in 1 .. i \/ j = i + 1
        BY <1>1 DEF i
      <4>2. i + 1 <= Len(l) /\ i + 1 <= Len(r)
        BY <1>0, <1>1, <2>1, <2>5 DEF i
      <4> QED
        BY <2>3, <2>5, <3>1, <3>2, <4>1, <4>2 DEF CompareOK
    <3>3. Proper(t) => OnWay("scan", c, s, copied[t], noted[t], b, mods)
      <4>1. Proper(t) => l = b[c.array] /\ r = b[c.source]
        BY <2>3 DEF l, r
      <4> QED
        BY <2>1, <3>2, <4>1 DEF OnWay, CopiedOK, Indexed, Sliced
    <3> QED
      BY <1>4, <2>1, <2>5, <3>0, <3>3
  <2>6. CASE /\ i < m /\ i < n /\ i < Len(l) /\ i < Len(r) /\ l[i + 1] # r[i + 1] /\ Goto(t, "differ")
             /\ UNCHANGED <<items, mods, lock, named, history, at, copied, noted, result, broken, disturbed>>
    <3>1. at' = [at EXCEPT ![t] = at[t]]
      BY <2>6, LocalFacts
    <3>2. ASSUME Proper(t) PROVE OnWay("differ", c, at[t], copied[t], noted[t], b, mods)
      <4>1. CompareOK("differ", l, r, at[t])
        BY <2>3, <2>6, <3>2 DEF CompareOK, i
      <4>2. l = b[c.array] /\ r = b[c.source]
        BY <2>3, <3>2 DEF l, r
      <4> QED
        BY <2>1, <4>1, <4>2 DEF OnWay, CopiedOK, Indexed, Sliced
    <3> QED
      BY <1>2, <2>1, <2>6, <3>1, <3>2
  <2> QED
    BY <1>5, <2>2, <2>4, <2>5, <2>6
<1>13. ASSUME Differ(t) PROVE AloneInv'
  <2> DEFINE v == Value(<<Sign(l[i + 1] - r[i + 1])>>)
  <2>1. pc[t] = "differ" /\ c.op = "compare" /\ pc[t] \notin {"idle", "done"}
    BY <1>13 DEF Differ, At
  <2>2. Scanned(t, v) \/ Break(t)
    BY <1>0, <1>13 DEF Differ
  <2>3. ASSUME Proper(t) PROVE Meaning(c, b) = Done(l, v)
    <3> HIDE DEF l, r, c, b
    <3>1. items = b /\ CompareOK("differ", l, r, at[t])
      BY <1>9, <2>1, <2>3
    <3> HIDE DEF i
    <3>2. /\ i <= Len(l) /\ i <= Len(r) /\ \A j \in 1 .. i : l[j] = r[j]
          /\ i < Len(l) /\ i < Len(r) /\ l[i + 1] # r[i + 1]
      BY <3>1 DEF CompareOK, i
    <3>3. Order(l, r) = Sign(l[i + 1] - r[i + 1])
      BY <1>1, <1>10, <2>1, <3>2, OrderIs
    <3> QED
      BY <1>11, <2>1, <3>1, <3>3
  <2> HIDE DEF v
  <2> QED
    BY <1>3, <1>5, <2>1, <2>2, <2>3
<1> QED
  BY <1>6, <1>8, <1>12, <1>13 DEF Scan

\* A call that leaves the bounds of a vector never ends.
LEMMA BreakAlone ==
  ASSUME AloneInv, NEW t \in Threads, Break(t)  PROVE AloneInv'
BY DEF Break, AloneInv, Alone, work, history

\* What a thread knows of the array whose lock it holds.
LEMMA LockedFacts ==
  ASSUME ContentInv, NEW t \in Threads, pc[t] = "locked"
  PROVE  /\ pc[t] \notin {"idle", "done"} /\ CallOK(call[t])
         /\ Array(t) = call[t].array /\ Size(Array(t)) = Len(items[call[t].array])
         /\ items[call[t].array] \in Seq(Items) /\ Len(items[call[t].array]) \in Nat
         /\ items[Array(t)] = items[call[t].array]
         /\ at[t].begin \in Nat /\ at[t].count \in SizeT /\ at[t].step \in Int /\ copied[t] \in Seq(Items)
         /\ call[t].op \in {"setSlice", "delSlice"} => at[t].step # 0
BY LocalFacts, LenProperties DEF LocalOK, Wide, Array, Size

\* An index that the list has is one of its positions.
LEMMA PositionFits ==
  ASSUME NEW n \in Nat, NEW i \in Int, HasIndex(n, i)  PROVE PositionOf(n, i) \in 1 .. n
BY DEF HasIndex, PositionOf

\* The check of the index under the lock succeeds when nobody interferes.
LEMMA ItemAlone ==
  ASSUME ContentInv, AloneInv, NEW t \in Threads, GetItem(t) \/ SetItem(t) \/ DelItem(t)
  PROVE  AloneInv'
<1> DEFINE c == call[t]
           b == before[t]
           l == items[c.array]
           i == at[t].begin
<1>1. pc[t] = "locked" /\ c.op \in Indexed
  BY DEF GetItem, SetItem, DelItem, At, Indexed
<1>2. /\ pc[t] \notin {"idle", "done"} /\ Size(Array(t)) = Len(l) /\ items[Array(t)] = l
      /\ l \in Seq(Items) /\ Len(l) \in Nat /\ i \in Nat /\ c.index \in Int
  BY <1>1, LockedFacts DEF CallOK
<1>3. ASSUME Proper(t)
      PROVE  /\ items = b /\ HasIndex(Len(l), c.index) /\ i + 1 = PositionOf(Len(l), c.index)
             /\ i < Len(l) /\ l = b[c.array]
  <2>1. items = b /\ OnWay("locked", c, at[t], copied[t], noted[t], b, mods)
    BY <1>1, <1>2, <1>3, ProperFacts
  <2> HIDE DEF b, c
  <2>2. IndexOK(Len(b[c.array]), c, at[t])
    BY <1>1, <2>1, IndexOnWay
  <2>3. HasIndex(Len(l), c.index) /\ i + 1 = PositionOf(Len(l), c.index)
    BY <2>1, <2>2 DEF IndexOK
  <2>4. i + 1 \in 1 .. Len(l)
    BY <1>2, <2>3, PositionFits
  <2> QED
    BY <1>2, <2>1, <2>3, <2>4
<1>4. Proper(t) =>
        /\ c.op = "getItem" => Meaning(c, b) = Done(l, Value(<<l[i + 1]>>))
        /\ c.op = "setItem" => Meaning(c, b) = Done([l EXCEPT ![i + 1] = c.value], Value(<<>>))
        /\ c.op = "delItem" => Meaning(c, b) = Done(Without(l, <<i + 1>>), Value(<<>>))
  <2> HIDE DEF b, c
  <2>1. LET s == b[c.array]
            n == Len(s)
            p == PositionOf(n, c.index)
        IN  HasIndex(n, c.index) =>
              /\ c.op = "getItem" => Meaning(c, b) = Done(s, Value(<<s[p]>>))
              /\ c.op = "setItem" => Meaning(c, b) = Done([s EXCEPT ![p] = c.value], Value(<<>>))
              /\ c.op = "delItem" => Meaning(c, b) = Done(Without(s, <<p>>), Value(<<>>))
    BY <1>1, ItemMeaning
  <2> HIDE DEF l, i
  <2> QED
    BY <1>3, <2>1
<1>5. CASE GetItem(t)
  <2> DEFINE r == IF i < Len(l) THEN Value(<<l[i + 1]>>) ELSE Error("IndexError")
  <2>1. Leave(t, r) /\ c.op = "getItem"
    BY <1>2, <1>5 DEF GetItem, At
  <2>2. Proper(t) => Meaning(c, b) = Done(items[Array(t)], r)
    BY <1>2, <1>3, <1>4, <2>1
  <2> HIDE DEF r
  <2> QED
    BY <1>2, <2>1, <2>2, LeaveAlone DEF Leave
<1>6. CASE SetItem(t)
  <2> DEFINE q == [l EXCEPT ![i + 1] = c.value]
  <2>1. c.op = "setItem" /\ IF i < Len(l) THEN Store(t, q, Value(<<>>)) ELSE Leave(t, Error("IndexError"))
    BY <1>2, <1>6 DEF SetItem, At
  <2>2. Proper(t) => Meaning(c, b) = Done(q, Value(<<>>))
    BY <1>4, <2>1
  <2> HIDE DEF q
  <2>3. CASE i < Len(l)
    BY <1>2, <2>1, <2>2, <2>3, StoreAlone
  <2>4. CASE ~(i < Len(l))
    <3>1. Leave(t, Error("IndexError")) /\ ~Proper(t)
      BY <1>3, <2>1, <2>4
    <3> QED
      BY <1>2, <3>1, LeaveAlone DEF Leave
  <2> QED
    BY <2>3, <2>4
<1>7. CASE DelItem(t)
  <2> DEFINE q == Erase(l, i, 1)
  <2>1. c.op = "delItem" /\ IF i < Len(l) THEN Store(t, q, Value(<<>>)) ELSE Leave(t, Error("IndexError"))
    BY <1>2, <1>7 DEF DelItem, At
  <2> HIDE DEF q, l, i, b
  <2>2. Proper(t) => Meaning(c, b) = Done(q, Value(<<>>))
    <3>1. ASSUME Proper(t) PROVE q = Without(l, <<i + 1>>)
      <4>1. i + 1 <= Len(l)
        BY <1>2, <1>3, <3>1
      <4> QED
        BY <1>2, <4>1, WithoutOne DEF q
    <3> QED
      BY <1>4, <2>1, <3>1
  <2>3. CASE i < Len(l)
    BY <1>2, <2>1, <2>2, <2>3, StoreAlone DEF b
  <2>4. CASE ~(i < Len(l))
    <3>1. Leave(t, Error("IndexError")) /\ ~Proper(t)
      BY <1>3, <2>1, <2>4
    <3> QED
      BY <1>2, <3>1, LeaveAlone DEF Leave
  <2> QED
    BY <2>3, <2>4
<1> QED
  BY <1>5, <1>6, <1>7

\* What is known of a slice under the lock.
LEMMA PlacesFacts ==
  ASSUME ContentInv, AloneInv, NEW t \in Threads, pc[t] = "locked", call[t].op \in Sliced, Proper(t)
  PROVE  /\ items = before[t] /\ PlacesOK(Len(items[call[t].array]), call[t], at[t])
         /\ call[t].op = "setSlice" =>
              /\ copied[t] = Given(call[t], items)
              /\ FromArray(call[t]) => noted[t] = mods[call[t].source]
<1>1. items = before[t] /\ OnWay("locked", call[t], at[t], copied[t], noted[t], before[t], mods)
  BY ProperFacts
<1> QED
  BY <1>1, SliceOnWay

\* A slice with places is within the array.
LEMMA PlacesInRange ==
  ASSUME NEW n \in Nat, NEW c, NEW s, PlacesOK(n, c, s), s.begin \in Nat, s.step \in Int \ {0}
  PROVE  ~OutOfRange(n, s) /\ InRange(n, s)
<1>1. /\ s.count \in Nat \ {0}
      /\ \A k \in 1 .. s.count : Run(s.begin, s.step, s.count)[k] \in 1 .. n
  BY DEF PlacesOK
<1> QED
  BY <1>1, InBounds

\* getSlice.
LEMMA GetSliceAlone ==
  ASSUME ContentInv, AloneInv, NEW t \in Threads, GetSlice(t)
  PROVE  AloneInv'
<1> DEFINE c == call[t]
           b == before[t]
           l == items[c.array]
           a == Run(at[t].begin, at[t].step, at[t].count)
           r == IF at[t].count = Top THEN Error("MemoryError")
                ELSE IF Range(a) \subseteq DOMAIN l THEN Value(Pick(l, a)) ELSE Error("InternalError")
<1>1. pc[t] = "locked" /\ c.op = "getSlice" /\ c.op \in Sliced
  BY DEF GetSlice, At, Sliced
<1>2. /\ pc[t] \notin {"idle", "done"} /\ items[Array(t)] = l
      /\ l \in Seq(Items) /\ DOMAIN l = 1 .. Len(l)
  BY <1>1, LockedFacts, LenProperties
<1>3. Leave(t, r)
  BY <1>2 DEF GetSlice, Run
<1>4. ASSUME Proper(t) PROVE Meaning(c, b) = Done(l, r)
  <2>1. items = b /\ PlacesOK(Len(l), c, at[t])
    BY <1>1, <1>4, PlacesFacts
  <2>2. /\ at[t].count # Top /\ ~BadSlice(Len(l), c) /\ Chosen(Len(l), c) = a
        /\ \A k \in 1 .. at[t].count : a[k] \in 1 .. Len(l)
    BY <2>1, TopAssumption DEF PlacesOK
  <2>3. DOMAIN a = 1 .. at[t].count
    BY DEF Run
  <2> HIDE DEF a
  <2>4. Range(a) \subseteq DOMAIN l
    BY <1>2, <2>2, <2>3 DEF Range
  <2>5. r = Value(Pick(l, a))
    BY <2>2, <2>4
  <2> HIDE DEF r, l, c, b
  <2>6. Meaning(c, b) = Done(b[c.array], Value(Pick(b[c.array], Chosen(Len(b[c.array]), c))))
    <3>1. ~BadSlice(Len(b[c.array]), c)
      BY <2>1, <2>2 DEF l
    <3> QED
      BY <1>1, <3>1, SliceMeaning
  <2>7. b[c.array] = l
    BY <2>1 DEF l
  <2> QED
    BY <2>2, <2>5, <2>6, <2>7
<1> HIDE DEF r
<1> QED
  BY <1>2, <1>3, <1>4, LeaveAlone DEF Leave

\* removeSlice, in each of its three ways.
LEMMA DelSliceAlone ==
  ASSUME ContentInv, AloneInv, NEW t \in Threads, DelSlice(t)
  PROVE  AloneInv'
<1> DEFINE c == call[t]
           b == before[t]
           l == items[c.array]
           s == at[t]
           a == Run(s.begin, s.step, s.count)
           low == s.begin - s.count + 1
<1>1. pc[t] = "locked" /\ c.op = "delSlice" /\ c.op \in Sliced
  BY DEF DelSlice, At, Sliced
<1>2. /\ pc[t] \notin {"idle", "done"} /\ items[Array(t)] = l
      /\ l \in Seq(Items) /\ Len(l) \in Nat
      /\ s.begin \in Nat /\ s.step \in Int \ {0}
  BY <1>1, LockedFacts
<1>3. \/ OutOfRange(Len(l), s) /\ Store(t, l, Error("InternalError"))
      \/ ~OutOfRange(Len(l), s) /\ s.step = 1 /\ Store(t, Erase(l, s.begin, s.count), Value(<<>>))
      \/ ~OutOfRange(Len(l), s) /\ s.step = -1 /\ Store(t, Erase(l, low, s.count), Value(<<>>))
      \/ ~OutOfRange(Len(l), s) /\ Store(t, EraseEach(l, s), Value(<<>>))
  <2>1. CASE OutOfRange(Len(l), s)
    BY <1>2, <2>1 DEF DelSlice
  <2>2. CASE ~OutOfRange(Len(l), s)
    <3>2. s.step = 1 \/ s.step = -1 \/ s.step \notin {1, -1}
      OBVIOUS
    <3>3. CASE s.step = 1
      BY <1>2, <2>2, <3>3 DEF DelSlice
    <3>4. CASE s.step = -1
      BY <1>2, <2>2, <3>4 DEF DelSlice
    <3>5. CASE s.step \notin {1, -1}
      BY <1>2, <2>2, <3>5 DEF DelSlice
    <3> QED
      BY <3>2, <3>3, <3>4, <3>5
  <2> QED
    BY <2>1, <2>2
<1> HIDE DEF l, c, b, s
<1>4. ASSUME Proper(t)
      PROVE  /\ ~OutOfRange(Len(l), s) /\ InRange(Len(l), s)
             /\ Meaning(c, b) = Done(Without(l, a), Value(<<>>))
  <2>1. items = b /\ PlacesOK(Len(l), c, s)
    BY <1>1, <1>4, PlacesFacts DEF l, c, b, s
  <2>2. ~BadSlice(Len(l), c) /\ Chosen(Len(l), c) = a
    BY <2>1 DEF PlacesOK
  <2>3. ~OutOfRange(Len(l), s) /\ InRange(Len(l), s)
    BY <1>2, <2>1, PlacesInRange
  <2>4. b[c.array] = l
    BY <2>1 DEF l
  <2>5. Meaning(c, b) = Done(Without(b[c.array], Chosen(Len(b[c.array]), c)), Value(<<>>))
    <3>1. ~BadSlice(Len(b[c.array]), c)
      BY <2>2, <2>4
    <3> QED
      BY <1>1, <3>1, SliceMeaning
  <2> QED
    BY <2>2, <2>3, <2>4, <2>5
<1>5. ASSUME Proper(t)
      PROVE  /\ s.step = 1 => Erase(l, s.begin, s.count) = Without(l, a)
             /\ s.step = -1 => Erase(l, low, s.count) = Without(l, a)
             /\ EraseEach(l, s) = Without(l, a)
  BY <1>2, <1>4, <1>5, SliceErased
<1>6. ASSUME NEW q, NEW r, Store(t, q, r), Proper(t) => q = Without(l, a) /\ r = Value(<<>>)
      PROVE  AloneInv'
  <2>1. Proper(t) => Meaning(c, b) = Done(q, r)
    BY <1>4, <1>6
  <2> QED
    BY <1>2, <1>6, <2>1, StoreAlone DEF c, b
<1> HIDE DEF low, a
<1> QED
  BY <1>3, <1>4, <1>5, <1>6

\* setSlice: overwriting, replacing a block, and the array onto itself.
LEMMA SetSliceAlone ==
  ASSUME ContentInv, AloneInv, NEW t \in Threads, SetSlice(t)
  PROVE  AloneInv'
<1> DEFINE c == call[t]
           b == before[t]
           l == items[c.array]
           s == at[t]
           k == copied[t]
           w == Values(t)
           a == Run(s.begin, s.step, s.count)
           exact == Len(k) = s.count
           own == Own(t)
           up == c.step # -1
           stored == IF exact THEN Overwritten(l, s, w, own) ELSE Spliced(l, s, w)
<1>1. pc[t] = "locked" /\ c.op = "setSlice" /\ c.op \in Sliced
  BY DEF SetSlice, At, Sliced
<1>2. /\ pc[t] \notin {"idle", "done"} /\ items[Array(t)] = l /\ Array(t) = c.array /\ Source(t) = c.source
      /\ l \in Seq(Items) /\ Len(l) \in Nat /\ k \in Seq(Items) /\ Len(k) \in Nat
      /\ s.begin \in Nat /\ s.step \in Int \ {0}
      /\ c.step \in Int \cup {Absent} \cup HugeSteps
  BY <1>1, LockedFacts, LenProperties DEF CallOK, Source
<1>3. \/ OutOfRange(Len(l), s) /\ Store(t, l, Error("InternalError"))
      \/ ~exact /\ s.step \notin {1, -1} /\ Store(t, l, Error("ValueError"))
      \/ (exact \/ (s.step \in {1, -1} /\ (~own \/ k = <<>>))) /\ Store(t, stored, Value(<<>>))
      \/ Break(t)
  BY <1>2 DEF SetSlice
<1>4. own <=> FromArray(c) /\ c.source = c.array
  BY <1>2 DEF Own
<1>5. own \in BOOLEAN
  BY DEF Own
<1>6. Proper(t) => ~Departs(c, b)
  BY DEF Proper
<1> HIDE DEF l, c, b, s, k, w, own
<1>7. ASSUME Proper(t)
      PROVE  /\ items = b /\ b[c.array] = l /\ PlacesOK(Len(l), c, s) /\ ~OutOfRange(Len(l), s)
             /\ InRange(Len(l), s) /\ w = k /\ k = Given(c, b) /\ (own => k = l)
             /\ ~BadSlice(Len(l), c) /\ Chosen(Len(l), c) = a
             /\ s.step = (IF c.step \in {Absent} \cup HugeSteps THEN 1 ELSE c.step)
             /\ s.count \in Nat \ {0}
  <2>1. /\ items = b /\ PlacesOK(Len(l), c, s) /\ k = Given(c, items)
        /\ FromArray(c) => noted[t] = mods[c.source]
    BY <1>1, <1>7, PlacesFacts DEF l, c, b, s, k
  <2>2. ~OutOfRange(Len(l), s) /\ InRange(Len(l), s)
    BY <1>2, <2>1, PlacesInRange
  <2>3. b[c.array] = l
    BY <2>1 DEF l
  <2>4. w = k
    BY <1>2, <2>1 DEF w, k, c, Values, Stale
  <2>5. own => k = l
    <3>1. FromArray(c) => c.from = "array"
      BY <1>1 DEF FromArray, Copies
    <3> QED
      BY <1>4, <2>1, <2>3, <3>1 DEF Given
  <2> QED
    BY <1>2, <2>1, <2>2, <2>3, <2>4, <2>5 DEF PlacesOK
<1>8. ASSUME Proper(t) PROVE DOMAIN a = 1 .. s.count /\ Len(a) = s.count
  <2>1. DOMAIN a = 1 .. s.count
    BY DEF Run
  <2>2. Len(a) = s.count
    <3>1. a \in Seq(Int) /\ Len(a) = s.count
      <4>1. a \in [1 .. s.count -> Int]
        BY <1>2, <1>7, <1>8, RunOrder
      <4> HIDE DEF a
      <4> QED
        BY <1>7, <1>8, <4>1, MadeSeq
    <3> QED
      BY <3>1
  <2> QED
    BY <2>1, <2>2
<1> HIDE DEF a
<1>9. ASSUME Proper(t)
      PROVE  IF exact \/ c.step \in {Absent, 1, -1}
             THEN Meaning(c, b) = Done(Placed(l, a, k, up), Value(<<>>))
             ELSE Meaning(c, b) = Done(l, Error("ValueError"))
  <2>1. ~BadSlice(Len(b[c.array]), c)
    BY <1>7, <1>9
  <2>2. IF Len(Given(c, b)) = Len(Chosen(Len(b[c.array]), c)) \/ c.step \in {Absent, 1, -1}
        THEN Meaning(c, b) = Done(Placed(b[c.array], Chosen(Len(b[c.array]), c), Given(c, b), c.step # -1),
                                  Value(<<>>))
        ELSE Meaning(c, b) = Done(b[c.array], Error("ValueError"))
    BY <1>1, <2>1, SliceMeaning
  <2>3. Given(c, b) = k /\ Chosen(Len(b[c.array]), c) = a /\ b[c.array] = l
    BY <1>7, <1>9
  <2> QED
    BY <1>8, <1>9, <2>2, <2>3
\* The code's test for the step that it may insert with is the language's; with
\* a step beyond a machine word it is not needed.
<1>10. ASSUME Proper(t)
       PROVE  /\ exact \/ (s.step \in {1, -1} <=> c.step \in {Absent, 1, -1})
              /\ up <=> s.step # -1
  <2>1. CASE c.step \in HugeSteps
    <3>1. s.step = 1 /\ up
      BY <1>7, <1>10, <2>1, Steps
    <3>2. a = <<1>> /\ Len(k) = 1
      BY <1>1, <1>2, <1>6, <1>7, <1>10, <2>1 DEF Departs, Given, InRange, OutOfRange
    <3>3. exact
      BY <1>8, <1>10, <3>2
    <3> QED
      BY <3>1, <3>3
  <2>2. CASE c.step \notin HugeSteps
    BY <1>2, <1>7, <1>10, <2>2, BoundaryAssumption
  <2> QED
    BY <2>1, <2>2
<1>11. CASE OutOfRange(Len(l), s) /\ Store(t, l, Error("InternalError"))
  <2>1. ~Proper(t)
    BY <1>7, <1>11
  <2> QED
    BY <1>2, <1>11, <2>1, StoreAlone DEF c
<1>12. CASE ~exact /\ s.step \notin {1, -1} /\ Store(t, l, Error("ValueError"))
  <2>1. Proper(t) => Meaning(c, b) = Done(l, Error("ValueError"))
    BY <1>9, <1>10, <1>12
  <2> QED
    BY <1>2, <1>12, <2>1, StoreAlone DEF c, b
<1>13. CASE (exact \/ (s.step \in {1, -1} /\ (~own \/ k = <<>>))) /\ Store(t, stored, Value(<<>>))
  <2>1. ASSUME Proper(t) PROVE stored = Placed(l, a, k, up)
    <3>0. /\ InRange(Len(l), s) /\ w = k /\ (own => k = l) /\ (up <=> s.step # -1)
          /\ own => s.step # -1
      <4>1. own => c.step # -1
        BY <1>1, <1>4, <1>6, <2>1 DEF Departs
      <4> QED
        BY <1>7, <1>10, <2>1, <4>1
    <3> HIDE DEF up
    <3>1. CASE exact /\ ~own
      <4>1. own = FALSE
        BY <1>5, <3>1
      <4>2. InRange(Len(l), s) /\ Len(k) = s.count
        BY <3>0, <3>1
      <4>3. Overwritten(l, s, k, FALSE) = Placed(l, a, k, up)
        <5>1. l \in Seq(Items)
          BY <1>2
        <5>2. k \in Seq(Items)
          BY <1>2
        <5>3. InRange(Len(l), s)
          BY <4>2
        <5>4. Len(k) = s.count
          BY <4>2
        <5> QED
          BY Zenon, <5>1, <5>2, <5>3, <5>4, OverwrittenMeans DEF a
      <4> QED
        BY <3>0, <3>1, <4>1, <4>3
    <3>2. CASE exact /\ own
      <4>1. own = TRUE
        BY <1>5, <3>2
      <4>2. InRange(Len(l), s) /\ s.count = Len(l) /\ s.step # -1
        BY <3>0, <3>2
      <4>3. Overwritten(l, s, k, TRUE) = Placed(l, a, l, up)
        <5>1. l \in Seq(Items)
          BY <1>2
        <5>2. InRange(Len(l), s)
          BY <4>2
        <5>3. s.count = Len(l)
          BY <4>2
        <5>4. s.step # -1
          BY <4>2
        <5> QED
          BY Zenon, <5>1, <5>2, <5>3, <5>4, OwnOverwritten DEF a
      <4> QED
        BY <3>0, <3>2, <4>1, <4>3
    <3>3. CASE ~exact /\ s.step \in {1, -1}
      <4>1. InRange(Len(l), s) /\ Len(k) # s.count /\ (up <=> s.step # -1)
        BY <3>0, <3>3
      <4>2. Spliced(l, s, k) = Placed(l, a, k, up)
        BY <1>2, <3>3, <4>1, SplicedMeans DEF a
      <4> QED
        BY <3>0, <3>3, <4>2
    <3> QED
      BY <1>13, <3>1, <3>2, <3>3
  <2>2. Proper(t) => Meaning(c, b) = Done(stored, Value(<<>>))
    BY <1>9, <1>10, <1>13, <2>1
  <2> HIDE DEF stored
  <2> QED
    BY <1>2, <1>13, <2>2, StoreAlone DEF c, b
<1> HIDE DEF stored, exact
<1> QED
  BY <1>3, <1>11, <1>12, <1>13, BreakAlone

\* repeat and repeatCopy.
LEMMA RepeatAlone ==
  ASSUME ContentInv, AloneInv, NEW t \in Threads, Repeat(t) \/ RepeatCopy(t)
  PROVE  AloneInv'
<1> DEFINE c == call[t]
           b == before[t]
           l == items[c.array]
           n == c.count
<1>1. pc[t] = "locked" /\ c.op \in {"repeat", "repeatCopy"}
  BY DEF Repeat, RepeatCopy, At
<1>2. /\ pc[t] \notin {"idle", "done"} /\ items[Array(t)] = l
      /\ l \in Seq(Items) /\ Len(l) \in Nat /\ n \in Nat
  BY <1>1, LockedFacts DEF CallOK
<1>3. ASSUME Proper(t)
      PROVE  /\ c.op = "repeat"     => Meaning(c, b) = Done(Repeated(l, n), Value(<<>>))
             /\ c.op = "repeatCopy" => Meaning(c, b) = Done(l, Value(Repeated(l, n)))
             /\ c.op = "repeat"     => n \in {0, 1, Len(l)}
  <2>1. items = b /\ ~Departs(c, b)
    BY <1>2, <1>3, ProperFacts DEF Proper
  <2>2. c.op = "repeat" => n \in {0, 1, Len(l)}
    BY <2>1 DEF Departs
  <2> HIDE DEF c, b
  <2>3. /\ c.op = "repeat"     => Meaning(c, b) = Done(Repeated(b[c.array], c.count), Value(<<>>))
        /\ c.op = "repeatCopy" => Meaning(c, b) = Done(b[c.array], Value(Repeated(b[c.array], c.count)))
    BY OtherMeaning
  <2> QED
    BY <2>1, <2>2, <2>3
<1>4. CASE RepeatCopy(t)
  <2>1. c.op = "repeatCopy" /\ Leave(t, Value(Repeated(l, n)))
    BY <1>2, <1>4 DEF RepeatCopy, At
  <2>2. Proper(t) => Meaning(c, b) = Done(items[Array(t)], Value(Repeated(l, n)))
    BY <1>2, <1>3, <2>1
  <2> HIDE DEF l, n
  <2> QED
    BY <1>2, <2>1, <2>2, LeaveAlone DEF Leave
<1>5. CASE Repeat(t)
  <2> DEFINE q == l \o Repeated(SubSeq(l, 1, n), n - 1)
  <2>1. /\ c.op = "repeat"
        /\ \/ n = 0 /\ Store(t, <<>>, Value(<<>>))
           \/ n = 1 /\ Store(t, l, Value(<<>>))
           \/ n > 1 /\ n <= Len(l) /\ Store(t, q, Value(<<>>))
           \/ Break(t)
    BY <1>2, <1>5 DEF Repeat, At
  <2> HIDE DEF l, n, b, c
  <2>2. Repeated(l, 0) = <<>> /\ Repeated(l, 1) = l /\ \A m \in Nat : l \o Repeated(l, m) = Repeated(l, m + 1)
    BY <1>2, RepeatedMeans
  <2>3. CASE n = 0 /\ Store(t, <<>>, Value(<<>>))
    <3>1. Proper(t) => Meaning(c, b) = Done(<<>>, Value(<<>>))
      BY <1>3, <2>1, <2>2, <2>3
    <3> QED
      BY <1>2, <2>3, <3>1, StoreAlone DEF c, b
  <2>4. CASE n = 1 /\ Store(t, l, Value(<<>>))
    <3>1. Proper(t) => Meaning(c, b) = Done(l, Value(<<>>))
      BY <1>3, <2>1, <2>2, <2>4
    <3> QED
      BY <1>2, <2>4, <3>1, StoreAlone DEF c, b
  <2>5. CASE n > 1 /\ n <= Len(l) /\ Store(t, q, Value(<<>>))
    <3>1. ASSUME Proper(t) PROVE q = Repeated(l, n)
      <4>1. n = Len(l) /\ n - 1 \in Nat /\ (n - 1) + 1 = n
        BY <1>2, <1>3, <2>1, <2>5, <3>1
      <4>2. SubSeq(l, 1, n) = l
        <5>1. /\ SubSeq(l, 1, n) \in Seq(Items) /\ Len(SubSeq(l, 1, n)) = n
              /\ \A p \in 1 .. n : SubSeq(l, 1, n)[p] = l[p]
          BY <1>2, <4>1, Parts
        <5> DEFINE x == SubSeq(l, 1, n)
        <5> HIDE DEF x
        <5>2. x \in Seq(Items) /\ Len(x) = n /\ \A p \in 1 .. n : x[p] = l[p]
          BY <5>1 DEF x
        <5>3. x = l
          BY <1>2, <4>1, <5>2, SeqEqual
        <5> QED
          BY <5>3 DEF x
      <4>3. q = l \o Repeated(l, n - 1)
        BY <4>2
      <4> DEFINE m == n - 1
      <4>4. m \in Nat /\ m + 1 = n /\ q = l \o Repeated(l, m)
        BY <4>1, <4>3
      <4> HIDE DEF m, q
      <4> QED
        BY <2>2, <4>4
    <3>2. Proper(t) => Meaning(c, b) = Done(q, Value(<<>>))
      BY <1>3, <2>1, <3>1
    <3> HIDE DEF q
    <3> QED
      BY <1>2, <2>5, <3>2, StoreAlone DEF c, b
  <2> QED
    BY <2>1, <2>3, <2>4, <2>5, BreakAlone
<1> QED
  BY <1>4, <1>5

\* append, concat and concatCopy.
LEMMA JoinAlone ==
  ASSUME ContentInv, AloneInv, NEW t \in Threads, AppendItem(t) \/ Concat(t) \/ ConcatCopy(t)
  PROVE  AloneInv'
<1> DEFINE c == call[t]
           b == before[t]
           l == items[c.array]
<1>1. pc[t] = "locked" /\ c.op \in {"append", "concat", "concatCopy"}
  BY DEF AppendItem, Concat, ConcatCopy, At
<1>2. /\ pc[t] \notin {"idle", "done"} /\ items[Array(t)] = l /\ Array(t) = c.array
  BY <1>1, LockedFacts
<1>3. Proper(t) => items = b /\ OnWay("locked", c, at[t], copied[t], noted[t], b, mods)
  BY <1>1, <1>2, ProperFacts
<1>4. CASE AppendItem(t)
  <2> DEFINE q == Append(l, c.value)
  <2>1. c.op = "append" /\ Store(t, q, Value(<<>>))
    BY <1>2, <1>4 DEF AppendItem, At
  <2>2. Proper(t) => Meaning(c, b) = Done(q, Value(<<>>))
    BY <1>3, <2>1, OtherMeaning
  <2> HIDE DEF q
  <2> QED
    BY <1>2, <2>1, <2>2, StoreAlone
<1>5. CASE Concat(t)
  <2> DEFINE q == l \o copied[t]
  <2>1. c.op = "concat" /\ Store(t, q, Value(<<>>))
    BY <1>2, <1>5 DEF Concat, At
  <2>2. ASSUME Proper(t) PROVE Meaning(c, b) = Done(q, Value(<<>>))
    <3>1. copied[t] = b[c.source]
      BY <1>3, <2>1, <2>2 DEF OnWay, CopiedOK
    <3>2. Meaning(c, b) = Done(b[c.array] \o b[c.source], Value(<<>>))
      BY <2>1, OtherMeaning
    <3> QED
      BY <1>3, <2>2, <3>1, <3>2
  <2> HIDE DEF q
  <2> QED
    BY <1>2, <2>1, <2>2, StoreAlone
<1>6. CASE ConcatCopy(t)
  <2>1. /\ c.op = "concatCopy" /\ copied' = [copied EXCEPT ![t] = l]
        /\ UNCHANGED <<items, mods, disturbed>>
    BY <1>2, <1>6 DEF ConcatCopy, At
  <2> HIDE DEF l
  <2>2. Sets(t, "copy", call[t], at[t], l, noted[t], result[t], before[t])
    BY <1>6, <2>1, LocalFacts DEF ConcatCopy, Goto, history, Sets
  <2>3. Proper(t) => l = b[c.array]
    BY <1>3 DEF l
  <2>4. Proper(t) => OnWay("copy", c, at[t], l, noted[t], b, mods)
    BY <2>1, <2>3 DEF OnWay, CopiedOK, Indexed, Sliced
  <2> QED
    BY <1>2, <2>1, <2>2, <2>4, MoveAlone
<1> QED
  BY <1>4, <1>5, <1>6

\* The iterator gives all items, and never reports a change.
LEMMA IteratorAlone ==
  ASSUME ContentInv, AloneInv, NEW t \in Threads, IteratorNext(t)
  PROVE  AloneInv'
<1> DEFINE c == call[t]
           b == before[t]
           l == items[c.array]
           k == copied[t]
           n == noted[t]
<1>1. pc[t] = "locked" /\ c.op = "for"
  BY DEF IteratorNext, At
<1>2. /\ pc[t] \notin {"idle", "done"} /\ items[Array(t)] = l /\ Array(t) = c.array
      /\ l \in Seq(Items) /\ Len(l) \in Nat /\ k \in Seq(Items) /\ Len(k) \in Nat
  BY <1>1, LockedFacts, LenProperties
<1>3. ASSUME Proper(t) PROVE items = b /\ n = mods[c.array] /\ l = b[c.array]
  <2>1. items = b /\ OnWay("locked", c, at[t], copied[t], noted[t], b, mods)
    BY <1>1, <1>2, <1>3, ProperFacts
  <2> QED
    BY <1>1, <2>1 DEF OnWay
<1>4. Proper(t) => Meaning(c, b) = Done(l, Value(l))
  BY <1>1, <1>3, OtherMeaning
<1>5. CASE mods[c.array] # n
  <2>1. Leave(t, Error("RuntimeError")) /\ ~Proper(t)
    BY <1>2, <1>3, <1>5 DEF IteratorNext
  <2> QED
    BY <1>2, <2>1, LeaveAlone DEF Leave
<1>6. CASE mods[c.array] = n /\ Len(k) < Len(l)
  <2> DEFINE v == Append(k, l[Len(k) + 1])
  <2>1. /\ copied' = [copied EXCEPT ![t] = v] /\ Goto(t, "lock")
        /\ UNCHANGED <<items, mods, history, at, noted, result, disturbed>>
    BY <1>2, <1>6 DEF IteratorNext
  <2> HIDE DEF v
  <2>2. Sets(t, "lock", call[t], at[t], v, n, result[t], before[t])
    BY <2>1, LocalFacts DEF Goto, history, Sets
  <2>3. Proper(t) => OnWay("lock", c, at[t], v, n, b, mods)
    BY <1>1, <1>3 DEF OnWay, CopiedOK, Indexed, Sliced
  <2> QED
    BY <1>2, <2>1, <2>2, <2>3, MoveAlone
<1>7. CASE mods[c.array] = n /\ ~(Len(k) < Len(l))
  <2>1. Break(t) \/ Leave(t, Value(k))
    BY <1>2, <1>7 DEF IteratorNext
  <2>2. ASSUME Proper(t) PROVE k = l
    <3>1. FaithfulOK(pc[t], c, k, n, result[t], b, items, mods)
      BY LocalFacts
    <3>2. l = b[c.array]
      BY <1>3, <2>2
    <3>3. Len(k) <= Len(l) /\ \A j \in 1 .. Len(k) : k[j] = l[j]
      BY <1>1, <3>1, <3>2 DEF FaithfulOK
    <3> HIDE DEF k, l
    <3>4. Len(k) = Len(l)
      BY <1>2, <1>7, <3>3
    <3> QED
      BY <1>2, <3>3, <3>4, SeqEqual
  <2>3. Proper(t) => Meaning(c, b) = Done(items[Array(t)], Value(k))
    BY <1>2, <1>4, <2>2
  <2> QED
    BY <1>2, <2>1, <2>3, LeaveAlone, BreakAlone DEF Leave
<1> QED
  BY <1>5, <1>6, <1>7

LEMMA NextKeepsAlone ==
  ASSUME ContentInv, AloneInv, [Next]_vars  PROVE AloneInv'
<1>1. CASE UNCHANGED vars
  BY <1>1 DEF vars, work, history, AloneInv, Alone
<1>2. ASSUME NEW a \in Literals, Forget(a) PROVE AloneInv'
  BY <1>2 DEF Forget, work, history, AloneInv, Alone
<1>3. ASSUME NEW t \in Threads, NEW c \in CallsOf[t], Call(t, c) PROVE AloneInv'
  <2>1. /\ pc[t] = "idle" /\ copied[t] = <<>>
    BY <1>3, LocalFacts DEF Call, LocalOK
  <2>2. UNCHANGED <<items, mods>> /\ disturbed' = [disturbed EXCEPT ![t] = FALSE]
    BY <1>3 DEF Call
  <2>3. Sets(t, Entry(c), c, at[t], copied[t], noted[t], result[t], items)
    BY <1>3, LocalFacts DEF Call, Goto, Sets
  <2>4. Told(t)
    BY <2>2 DEF Told, AloneInv
  <2>5. OnWay(Entry(c), c, at[t], copied[t], noted[t], items, mods)
    BY <2>1 DEF OnWay, CopiedOK, Entry, Indexed, Sliced, Scans
  <2>6. Entry(c) # "done"
    BY DEF Entry
  <2> HIDE DEF Entry
  <2>7. AloneOK(Entry(c), c, at[t], copied[t], noted[t], result[t], items, items', mods')
    BY <2>2, <2>5, <2>6 DEF AloneOK
  <2> QED
    BY <2>3, <2>4, <2>7, AloneStep
<1>4. ASSUME NEW t \in Threads, Return(t) PROVE AloneInv'
  <2>1. Sets(t, "idle", call[t], NoSlice, <<>>, 0, NoResult, <<>>)
    BY <1>4, LocalFacts DEF Return, Goto, Sets
  <2>2. Told(t)
    BY <1>4 DEF Return, Told, AloneInv
  <2>3. AloneOK("idle", call[t], NoSlice, <<>>, 0, NoResult, <<>>, items', mods')
    BY DEF AloneOK
  <2> QED
    BY <2>1, <2>2, <2>3, AloneStep
<1>5. ASSUME NEW t \in Threads, Resolve(t) PROVE AloneInv'
  BY <1>5, IndexAlone, StrideAlone, DefaultAlone, StopAlone, StartAlone DEF Resolve
<1>6. ASSUME NEW t \in Threads, Work(t) PROVE AloneInv'
  BY <1>6, ItemAlone, GetSliceAlone, SetSliceAlone, DelSliceAlone, JoinAlone, RepeatAlone,
     IteratorAlone DEF Work
<1> QED
  BY <1>1, <1>2, <1>3, <1>4, <1>5, <1>6, PrepareAlone, ScanAlone DEF Next, Step

\* Indices, slices and loops: a call that ends with no other thread having
\* changed an array since it began leaves and gives what the language means,
\* whatever the lists, the index and the boundaries are, and every step that
\* fits into a machine word.  A step beyond that, of either sign, is right only
\* where it names the first item alone; this and the other departures of the
\* code from the language are the ones that Departs lists.
THEOREM AloneCorrect == Spec => []AloneMeans
<1>1. Init => ContentInv /\ AloneInv
  <2>1. ASSUME Init PROVE AloneInv
    BY <2>1 DEF Init, AloneInv, Alone, AloneOK
  <2> QED
    BY <2>1, ContentAtFirst
<1>2. ContentInv /\ AloneInv /\ [Next]_vars => (ContentInv /\ AloneInv)'
  BY NextKeepsContent, NextKeepsAlone
<1>3. AloneInv => AloneMeans
  BY DEF AloneInv, Alone, AloneOK, AloneMeans
<1> QED
  BY <1>1, <1>2, <1>3, PTL DEF Spec
=============================================================================
