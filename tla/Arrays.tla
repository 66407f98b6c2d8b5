------------------------------- MODULE Arrays -------------------------------
(***************************************************************************)
(* Runtime::ArrayObject, its iterator, and the index and slice helpers of  *)
(* utils/Lists.h, under threads that share arrays.  An operation resolves  *)
(* its index or slice with no lock, reading the size as it goes, and only  *)
(* then enters the lock of the array (module RWLock) to do its work; what  *)
(* another thread did in between is what the checks under the lock are     *)
(* for.  Comparing and searching never lock.  After an access outside of   *)
(* what the vectors own, nothing is modelled: broken says who made it.     *)
(***************************************************************************)
EXTENDS ListMeaning

CONSTANTS Threads, ArrayNames,
          Items,       \* what arrays hold: integers, so that they compare
          CallsOf,     \* CallsOf[t]: the calls that thread t may make
          Budgets,     \* bound: how many calls each thread makes
          Beginnings,  \* what the arrays may hold at first
          Literals,    \* the arrays that the program may forget the name of
          Top,         \* the largest size_t, which no size comes up to
          Nobody

ASSUME NobodyAssumption == Nobody \notin Threads
ASSUME TopAssumption == Top \notin Int
ASSUME ContentAssumption == Items \subseteq Int /\ Beginnings \subseteq [ArrayNames -> Seq(Items)]

VARIABLES items,     \* _items of each array
          mods,      \* _mods of each array
          lock,      \* who is inside of _lock of each array
          named,     \* does a variable of the program hold the array?
          pc, call,  \* per thread: the control point and the latest call
          at,        \* per thread: the Slice that was resolved
          copied,    \* per thread: a buffer, or what an iterator gave so far
          noted,     \* per thread: _mods when the iterator or pointer was made
          result,    \* per thread: how the call ended
          left,      \* per thread: calls left to make
          broken,    \* the first thread to leave the bounds of a vector
          before,    \* history: the arrays when the call began
          disturbed  \* history: did another thread change an array since?

work    == <<pc, at, copied, noted, result>>
history == <<call, left, before>>
vars    == <<items, mods, lock, named, work, history, broken, disturbed>>

Size(a)   == Len(items[a])
Array(t)  == call[t].array
Source(t) == call[t].source

Indexed == {"getItem", "setItem", "delItem"}
Sliced  == {"getSlice", "setSlice", "delSlice"}
Scans   == {"contains", "compare"}
Copies  == {"concat", "concatCopy"}
Reads   == {"getItem", "getSlice", "repeatCopy", "for"}

NoSlice  == [begin |-> 0, count |-> 0, step |-> 0, stop |-> 0]
NoResult == [raised |-> "", value |-> <<>>]
Value(v) == [raised |-> "", value |-> v]
Error(e) == [raised |-> e, value |-> <<>>]

\* The arrays that a call refers to until it returns.
FromArray(c) == c.op \in Copies \cup {"compare"} \/ (c.op = "setSlice" /\ c.from = "array")
Uses(c) == {c.array} \cup (IF FromArray(c) THEN {c.source} ELSE {})

\* What each operation is called with.
CallOK(c) ==
  /\ Uses(c) \subseteq ArrayNames
  /\ c.op \in Indexed => c.index \in Int
  /\ c.op \in Sliced => /\ {c.begin, c.end} \subseteq Int \cup {Absent}
                       /\ c.step \in Int \cup {Absent} \cup HugeSteps
  /\ c.op \in {"setItem", "append", "contains"} => c.value \in Items
  /\ c.op = "setSlice" /\ c.from # "array" => c.values \in Seq(Items)
  /\ c.op \in {"repeat", "repeatCopy"} => c.count \in Nat

ASSUME CallsAssumption == \A t \in Threads : \A c \in CallsOf[t] : CallOK(c)

Init == /\ items \in Beginnings
        /\ mods = [a \in ArrayNames |-> 0]
        /\ lock = [a \in ArrayNames |-> [read |-> {}, write |-> {}]]
        /\ named = [a \in ArrayNames |-> TRUE]
        /\ pc = [t \in Threads |-> "idle"]
        /\ call = [t \in Threads |-> [op |-> "none"]]
        /\ at = [t \in Threads |-> NoSlice]
        /\ copied = [t \in Threads |-> <<>>]
        /\ noted = [t \in Threads |-> 0]
        /\ result = [t \in Threads |-> NoResult]
        /\ left \in Budgets
        /\ broken = Nobody
        /\ before = [t \in Threads |-> <<>>]
        /\ disturbed = [t \in Threads |-> FALSE]

Goto(t, place) == pc' = [pc EXCEPT ![t] = place]

At(t, place, ops) == broken = Nobody /\ pc[t] = place /\ call[t].op \in ops

Finish(t, r) == Goto(t, "done") /\ result' = [result EXCEPT ![t] = r]

Break(t) == /\ broken' = t
            /\ UNCHANGED <<items, mods, lock, named, work, history, disturbed>>

\* Where a call starts: with its index, its slice, the source to copy, the
\* unlocked scan, the iterator, or the lock.
Entry(c) == CASE c.op \in Indexed -> "index"
              [] c.op \in Sliced  -> "stride"
              [] c.op = "concat"  -> "copy"
              [] c.op = "repeatCopy" /\ c.count = 0 -> "empty"
              [] c.op \in Scans   -> "sizes"
              [] c.op = "for"     -> "iterator"
              [] OTHER            -> "lock"

Call(t, c) == /\ broken = Nobody /\ pc[t] = "idle"
              /\ \A a \in Uses(c) : named[a]
              /\ call' = [call EXCEPT ![t] = c]
              /\ left' = [left EXCEPT ![t] = @ - 1]
              /\ Goto(t, Entry(c))
              /\ before' = [before EXCEPT ![t] = items]
              /\ disturbed' = [disturbed EXCEPT ![t] = FALSE]
              /\ UNCHANGED <<items, mods, lock, named, at, copied, noted, result, broken>>

Return(t) == /\ broken = Nobody /\ pc[t] = "done"
             /\ Goto(t, "idle")
             /\ at' = [at EXCEPT ![t] = NoSlice]
             /\ copied' = [copied EXCEPT ![t] = <<>>]
             /\ noted' = [noted EXCEPT ![t] = 0]
             /\ result' = [result EXCEPT ![t] = NoResult]
             /\ before' = [before EXCEPT ![t] = <<>>]
             /\ disturbed' = [disturbed EXCEPT ![t] = FALSE]
             /\ UNCHANGED <<items, mods, lock, named, call, left, broken>>

\* The program assigns another value to the variable that held the array, or
\* never had one: the array is a literal in the call.
Forget(a) == /\ broken = Nobody /\ named[a]
             /\ named' = [named EXCEPT ![a] = FALSE]
             /\ UNCHANGED <<items, mods, lock, work, history, broken, disturbed>>

(***************************************************************************)
(* Resolving an index or a slice (utils/Lists.h), with no lock.            *)
(***************************************************************************)
ConstraintNoBack(n, i) == IF i >= 0 THEN IF i < n THEN i ELSE -1    \* mutant: off by one
                          ELSE IF -i <= n THEN n + i - 1 ELSE -1

\* indexConstraint: -1 stands for the IndexError.
Constraint(n, i) == IF i >= 0 THEN IF i < n THEN i ELSE -1
                    ELSE IF -i <= n THEN n + i ELSE -1

Index(t) == /\ At(t, "index", Indexed)
            /\ LET i == Constraint(Size(Array(t)), call[t].index)
               IN IF i = -1
                  THEN Finish(t, Error("IndexError")) /\ UNCHANGED at
                  ELSE /\ at' = [at EXCEPT ![t].begin = i]
                       /\ Goto(t, "lock")
                       /\ UNCHANGED result
            /\ UNCHANGED <<items, mods, lock, named, history, copied, noted, broken, disturbed>>

\* What follows sliceConstraint: setSlice and removeSlice refuse the step 0
\* that stands for an empty slice before they lock anything.
Resolved(t, s) ==
  /\ at' = [at EXCEPT ![t] = [begin |-> s[1], count |-> s[2], step |-> s[3], stop |-> 0]]
  /\ IF s[3] = 0 /\ call[t].op # "getSlice" THEN Finish(t, Error("InternalError"))
     ELSE Goto(t, IF call[t].op = "setSlice" THEN "gather" ELSE "lock") /\ UNCHANGED result

\* sliceConstraint: an array that is empty, ...
Stride(t) ==
  /\ At(t, "stride", Sliced)
  /\ IF Size(Array(t)) = 0 THEN Resolved(t, <<0, 0, 0>>)
     ELSE Goto(t, "default") /\ UNCHANGED <<at, result>>
  /\ UNCHANGED <<items, mods, lock, named, history, copied, noted, broken, disturbed>>

\* size() - 1, in the arithmetic of size_t.
LastIndex(t) == IF Size(Array(t)) = 0 THEN Top ELSE Size(Array(t)) - 1

\* ... the step and the default boundaries, which read the size again, ...
Default(t) ==
  LET step == IF call[t].step = Absent THEN 1 ELSE call[t].step IN
  /\ At(t, "default", Sliced)
  /\ CASE step \in HugeSteps -> Resolved(t, <<0, 1, 1>>)
       [] step = 0 -> Finish(t, Error("ValueError")) /\ UNCHANGED at
       [] step \notin HugeSteps \cup {0} ->
            /\ at' = [at EXCEPT ![t] = [begin |-> IF step > 0 THEN 0 ELSE LastIndex(t),
                                        stop  |-> IF step > 0 THEN LastIndex(t) ELSE 0,
                                        step  |-> step, count |-> 0]]
            /\ Goto(t, "stop")
            /\ UNCHANGED result
  /\ UNCHANGED <<items, mods, lock, named, history, copied, noted, broken, disturbed>>

\* ... its end, which reads it once more, ...
Stop(t) ==
  /\ At(t, "stop", Sliced)
  /\ LET i == IF call[t].end = Absent THEN at[t].stop
              ELSE Constraint(Size(Array(t)), call[t].end)
     IN IF i = -1
        THEN Finish(t, Error("IndexError")) /\ UNCHANGED at
        ELSE at' = [at EXCEPT ![t].stop = i] /\ Goto(t, "start") /\ UNCHANGED result
  /\ UNCHANGED <<items, mods, lock, named, history, copied, noted, broken, disturbed>>

\* ... and its beginning, and the Slice that it returns.  With a boundary at Top
\* it has more places than any array, unless their number wraps around to 0.
Start(t) ==
  /\ At(t, "start", Sliced)
  /\ LET i == IF call[t].begin = Absent THEN at[t].begin
              ELSE Constraint(Size(Array(t)), call[t].begin)
         stop == at[t].stop
         step == at[t].step
     IN IF i = -1 THEN Finish(t, Error("IndexError")) /\ UNCHANGED at
        ELSE IF Top \in {i, stop}
        THEN Resolved(t, <<0, IF 0 \in {i, stop} /\ step \in {1, -1} THEN 0 ELSE Top, step>>)
        ELSE IF (step > 0 /\ stop < i) \/ (step < 0 /\ stop > i) THEN Resolved(t, <<0, 0, 0>>)
        ELSE IF step > 0 THEN Resolved(t, <<i, ((stop - i) \div step) + 1, step>>)
        ELSE Resolved(t, <<i, ((i - stop) \div (-step)) + 1, step>>)
  /\ UNCHANGED <<items, mods, lock, named, history, copied, noted, broken, disturbed>>

(***************************************************************************)
(* Taking what an array holds before entering the lock of another one.     *)
(***************************************************************************)
\* setSlice: the size and the buffer of the source.  That of an array is only
\* pointed to; a tuple keeps its items, and those of any other iterable have
\* been drained into a vector of their own.
Gather(t) ==
  /\ At(t, "gather", {"setSlice"})
  /\ copied' = [copied EXCEPT ![t] = IF FromArray(call[t]) THEN items[Source(t)]
                                     ELSE call[t].values]
  /\ noted' = [noted EXCEPT ![t] = IF FromArray(call[t]) THEN mods[Source(t)] ELSE 0]
  /\ Goto(t, "lock")
  /\ UNCHANGED <<items, mods, lock, named, history, at, result, broken, disturbed>>

\* concat and concatCopy: the read lock of the source, ...
CopyLock(t) == LET a == Source(t) IN
  /\ At(t, "copy", Copies)
  /\ lock[a].write = {}
  /\ lock' = [lock EXCEPT ![a].read = @ \cup {t}]
  /\ Goto(t, "copying")
  /\ UNCHANGED <<items, mods, named, history, at, copied, noted, result, broken, disturbed>>

Unlock(t, a) == lock' = [lock EXCEPT ![a] = [read |-> @.read \ {t}, write |-> @.write \ {t}]]

\* ... whose items are copied; the lock is given back before the next one.
CopyHolding(t) ==                           \* mutant: locks the target first
  /\ At(t, "copying", Copies)
  /\ copied' = [copied EXCEPT ![t] = @ \o items[Source(t)]]
  /\ IF call[t].op = "concat" THEN Goto(t, "lock") /\ UNCHANGED <<result, lock>>
     ELSE Finish(t, Value(copied[t] \o items[Source(t)])) /\ Unlock(t, Source(t))
  /\ UNCHANGED <<items, mods, named, history, at, noted, broken, disturbed>>

Copy(t) ==
  /\ At(t, "copying", Copies)
  /\ copied' = [copied EXCEPT ![t] = @ \o items[Source(t)]]
  /\ Unlock(t, Source(t))
  /\ IF call[t].op = "concat" THEN Goto(t, "lock") /\ UNCHANGED result
     ELSE Finish(t, Value(copied[t] \o items[Source(t)]))
  /\ UNCHANGED <<items, mods, named, history, at, noted, broken, disturbed>>

\* repeatCopy(0) makes an empty array without looking.
Empty(t) == /\ At(t, "empty", {"repeatCopy"})
            /\ Finish(t, Value(<<>>))
            /\ UNCHANGED <<items, mods, lock, named, history, at, copied, noted, broken, disturbed>>

(***************************************************************************)
(* Under the lock of the array.                                            *)
(***************************************************************************)
LockThrough(t) == LET a == Array(t) IN             \* mutant: readers are not waited for
  /\ broken = Nobody /\ pc[t] = "lock"
  /\ lock[a].write = {}
  /\ IF call[t].op \in Reads \cup {"concatCopy"}
     THEN lock' = [lock EXCEPT ![a].read = @ \cup {t}]
     ELSE lock' = [lock EXCEPT ![a].write = {t}]
  /\ Goto(t, "locked")
  /\ UNCHANGED <<items, mods, named, history, at, copied, noted, result, broken, disturbed>>

Lock(t) == LET a == Array(t) IN
  /\ broken = Nobody /\ pc[t] = "lock"
  /\ lock[a].write = {}
  /\ IF call[t].op \in Reads \cup {"concatCopy"}
     THEN lock' = [lock EXCEPT ![a].read = @ \cup {t}]
     ELSE lock[a].read = {} /\ lock' = [lock EXCEPT ![a].write = {t}]
  /\ Goto(t, "locked")
  /\ UNCHANGED <<items, mods, named, history, at, copied, noted, result, broken, disturbed>>

\* The operation ends and leaves s in the array, ...
Store(t, s, r) ==
  /\ items' = [items EXCEPT ![Array(t)] = s]
  /\ mods' = [mods EXCEPT ![Array(t)] = @ + 1]
  /\ disturbed' = [u \in Threads |-> disturbed[u] \/ (u # t /\ pc[u] # "idle")]
  /\ Finish(t, r)
  /\ Unlock(t, Array(t))
  /\ UNCHANGED <<named, history, at, copied, noted, broken>>

\* ... or it ends and changes nothing.
Leave(t, r) == /\ Finish(t, r)
               /\ Unlock(t, Array(t))
               /\ UNCHANGED <<items, mods, named, history, at, copied, noted, broken, disturbed>>

GetItem(t) == LET i == at[t].begin IN
  /\ At(t, "locked", {"getItem"})
  /\ Leave(t, IF i < Size(Array(t)) THEN Value(<<items[Array(t)][i + 1]>>)
              ELSE Error("IndexError"))

SetItemUncounted(t) == LET i == at[t].begin IN     \* mutant: _mods stays
  /\ At(t, "locked", {"setItem"})
  /\ IF i < Size(Array(t))
     THEN /\ items' = [items EXCEPT ![Array(t)][i + 1] = call[t].value]
          /\ disturbed' = [u \in Threads |-> disturbed[u] \/ (u # t /\ pc[u] # "idle")]
          /\ Finish(t, Value(<<>>))
          /\ Unlock(t, Array(t))
          /\ UNCHANGED <<mods, named, history, at, copied, noted, broken>>
     ELSE Leave(t, Error("IndexError"))

SetItem(t) == LET i == at[t].begin IN
  /\ At(t, "locked", {"setItem"})
  /\ IF i < Size(Array(t))
     THEN Store(t, [items[Array(t)] EXCEPT ![i + 1] = call[t].value], Value(<<>>))
     ELSE Leave(t, Error("IndexError"))

Erase(s, i, count) == SubSeq(s, 1, i) \o SubSeq(s, i + count + 1, Len(s))
Insert(s, i, v)    == SubSeq(s, 1, i) \o v \o SubSeq(s, i + 1, Len(s))

DelItemUnchecked(t) == LET i == at[t].begin IN     \* mutant: trusts the index
  /\ At(t, "locked", {"delItem"})
  /\ IF i < Size(Array(t)) THEN Store(t, Erase(items[Array(t)], i, 1), Value(<<>>))
     ELSE Break(t)

DelItem(t) == LET i == at[t].begin IN
  /\ At(t, "locked", {"delItem"})
  /\ IF i < Size(Array(t)) THEN Store(t, Erase(items[Array(t)], i, 1), Value(<<>>))
     ELSE Leave(t, Error("IndexError"))

\* A list of Top items cannot be made: an exception of C++, not of the language
\* (with a step so large that it can be made, the loop ends in an error as well).
GetSlice(t) == LET s == items[Array(t)]
                   p == [k \in 1 .. at[t].count |-> at[t].begin + (k - 1) * at[t].step + 1] IN
  /\ At(t, "locked", {"getSlice"})
  /\ Leave(t, IF at[t].count = Top THEN Error("MemoryError")
              ELSE IF Range(p) \subseteq DOMAIN s THEN Value(Pick(s, p))
              ELSE Error("InternalError"))

\* The range check of setSlice and removeSlice; 0 - 1 is out of every range.
OutOfRange(n, s) == \/ s.count \in {0, Top}
                    \/ s.begin >= n
                    \/ s.step < 0 /\ s.begin < (s.count - 1) * (-s.step)
                    \/ s.step > 0 /\ s.begin + (s.count - 1) * s.step >= n

\* The loop of removeSlice: erasing forwards moves the rest down.
EraseEach(s, slice) ==
  LET loop[k \in 0 .. slice.count] ==
        IF k = 0 THEN [s |-> s, begin |-> slice.begin]
        ELSE LET l == loop[k - 1]
             IN  [s     |-> Erase(l.s, l.begin, 1),
                  begin |-> (IF slice.step > 0 THEN l.begin - 1 ELSE l.begin) + slice.step]
  IN loop[slice.count].s

DelSlice(t) == LET s == items[Array(t)]
                   c == at[t] IN
  /\ At(t, "locked", {"delSlice"})
  /\ CASE OutOfRange(Len(s), c) -> Store(t, s, Error("InternalError"))
       [] ~OutOfRange(Len(s), c) /\ c.step = 1 ->
            Store(t, Erase(s, c.begin, c.count), Value(<<>>))
       [] ~OutOfRange(Len(s), c) /\ c.step = -1 ->
            Store(t, Erase(s, c.begin - c.count + 1, c.count), Value(<<>>))
       [] ~OutOfRange(Len(s), c) /\ c.step \notin {1, -1} ->
            Store(t, EraseEach(s, c), Value(<<>>))

\* setSlice with as many values as places.  Backwards, the last value is
\* written first; when the array is its own source, what the loop has written
\* is what it reads later.
Overwritten(s, slice, values, own) ==
  LET loop[k \in 0 .. slice.count] ==
        IF k = 0 THEN s
        ELSE LET w    == loop[k - 1]
                 to   == IF slice.step = -1 THEN slice.begin - slice.count + k + 1
                         ELSE slice.begin + (k - 1) * slice.step + 1
                 from == IF slice.step = -1 THEN slice.count - k + 1 ELSE k
             IN  [w EXCEPT ![to] = IF own THEN w[from] ELSE values[from]]
  IN loop[slice.count]

Spliced(s, slice, values) ==
  IF slice.step = 1 THEN Insert(Erase(s, slice.begin, slice.count), slice.begin, values)
  ELSE LET low == slice.begin - slice.count + 1
       IN  Insert(Erase(s, low, slice.count), low, Reverse(values))

\* The values behind the pointer that Gather took: when the source changed
\* since, they may be gone, or replaced by what it holds now.
Stale(t)  == FromArray(call[t]) /\ mods[Source(t)] # noted[t]
Values(t) == IF Stale(t) THEN SubSeq(items[Source(t)], 1, Len(copied[t])) ELSE copied[t]
Own(t)    == FromArray(call[t]) /\ Source(t) = Array(t)

SetSlice(t) == LET s == items[Array(t)]
                   c == at[t]
                   exact == Len(copied[t]) = c.count IN
  /\ At(t, "locked", {"setSlice"})
  /\ \/ /\ OutOfRange(Len(s), c)
        /\ Store(t, s, Error("InternalError"))
     \/ /\ ~OutOfRange(Len(s), c) /\ ~exact /\ c.step \notin {1, -1}
        /\ Store(t, s, Error("ValueError"))
     \/ /\ ~OutOfRange(Len(s), c)
        /\ exact \/ (c.step \in {1, -1} /\ (~Own(t) \/ copied[t] = <<>>))
        /\ Stale(t) => Len(copied[t]) <= Size(Source(t))
        /\ Store(t, IF exact THEN Overwritten(s, c, Values(t), Own(t))
                    ELSE Spliced(s, c, Values(t)), Value(<<>>))
     \/ /\ ~OutOfRange(Len(s), c)
        /\ exact \/ c.step \in {1, -1}
        /\ copied[t] # <<>> /\ (Stale(t) \/ (Own(t) /\ ~exact))
        /\ Break(t)

AppendItem(t) == /\ At(t, "locked", {"append"})
                 /\ Store(t, Append(items[Array(t)], call[t].value), Value(<<>>))

Concat(t) == /\ At(t, "locked", {"concat"})
             /\ Store(t, items[Array(t)] \o copied[t], Value(<<>>))

\* concatCopy has the left array first, and copies the right one after it.
ConcatCopy(t) == /\ At(t, "locked", {"concatCopy"})
                 /\ copied' = [copied EXCEPT ![t] = items[Array(t)]]
                 /\ Unlock(t, Array(t))
                 /\ Goto(t, "copy")
                 /\ UNCHANGED <<items, mods, named, history, at, noted, result, broken, disturbed>>

\* repeat: count is taken for the size of the array as well, so that the
\* items inserted each time are the first count ones.
Repeat(t) ==
  LET s == items[Array(t)]
      count == call[t].count IN
  /\ At(t, "locked", {"repeat"})
  /\ \/ count = 0 /\ Store(t, <<>>, Value(<<>>))
     \/ count = 1 /\ Store(t, s, Value(<<>>))
     \/ /\ count > 1 /\ count <= Len(s)
        /\ Store(t, s \o Repeated(SubSeq(s, 1, count), count - 1), Value(<<>>))
     \/ count > 1 /\ count > Len(s) /\ Break(t)

RepeatCopy(t) == /\ At(t, "locked", {"repeatCopy"})
                 /\ Leave(t, Value(Repeated(items[Array(t)], call[t].count)))

(***************************************************************************)
(* The iterator of a for statement, and the operations without a lock.     *)
(***************************************************************************)
Iterator(t) == /\ At(t, "iterator", {"for"})
               /\ noted' = [noted EXCEPT ![t] = mods[Array(t)]]
               /\ Goto(t, "lock")
               /\ before' = [before EXCEPT ![t] = items]
               /\ disturbed' = [disturbed EXCEPT ![t] = FALSE]
               /\ UNCHANGED <<items, mods, lock, named, call, left, at, copied, result, broken>>

\* ArrayIteratorObject::next, under the read lock.  At the end it lets go of
\* the array: when nobody else refers to it, the lock goes with the array and
\* is given back afterwards.
LastReference(t) == /\ ~named[Array(t)]
                    /\ \A u \in Threads \ {t} : pc[u] = "idle" \/ Array(t) \notin Uses(call[u])

IteratorNext(t) == LET s == items[Array(t)]
                pos == Len(copied[t]) IN
  /\ At(t, "locked", {"for"})
  /\ IF mods[Array(t)] # noted[t] THEN Leave(t, Error("RuntimeError"))
     ELSE IF pos < Len(s)
     THEN /\ copied' = [copied EXCEPT ![t] = Append(@, s[pos + 1])]
          /\ Goto(t, "lock")
          /\ Unlock(t, Array(t))
          /\ UNCHANGED <<items, mods, named, history, at, noted, result, broken, disturbed>>
     ELSE IF LastReference(t) THEN Break(t)
     ELSE Leave(t, Value(copied[t]))

\* An item read with no lock: the vector may be in the middle of a change, or
\* shorter than it was.
MayRead(a, i) == i < Size(a)
MayMiss(a, i) == ~MayRead(a, i) \/ lock[a].write # {}

Scanned(t, r) == /\ Finish(t, r)
                 /\ UNCHANGED <<items, mods, lock, named, history, at, copied, noted, broken, disturbed>>

Advance(t) == /\ at' = [at EXCEPT ![t].count = @ + 1]
              /\ UNCHANGED <<items, mods, lock, named, history, pc, copied, noted, result, broken,
                             disturbed>>

\* totalOrderCompare reads both sizes once, contains reads the size each time.
Sizes(t) == /\ At(t, "sizes", Scans)
            /\ at' = [at EXCEPT ![t] = [begin |-> Size(Array(t)), count |-> 0, step |-> 0,
                        stop |-> IF call[t].op = "compare" THEN Size(Source(t)) ELSE 0]]
            /\ Goto(t, "scan")
            /\ UNCHANGED <<items, mods, lock, named, history, copied, noted, result, broken, disturbed>>

Search(t) == LET a == Array(t)
                    i == at[t].count IN
  /\ At(t, "scan", {"contains"})
  /\ \/ MayRead(a, i) /\ items[a][i + 1] = call[t].value /\ Scanned(t, Value(<<1>>))
     \/ MayRead(a, i) /\ items[a][i + 1] # call[t].value /\ Advance(t)
     \/ ~MayRead(a, i) /\ Scanned(t, Value(<<0>>))
     \/ MayRead(a, i) /\ MayMiss(a, i) /\ Break(t)

Compare(t) == LET a == Array(t)
                  b == Source(t)
                  i == at[t].count
                  within == i < at[t].begin /\ i < at[t].stop IN
  /\ At(t, "scan", {"compare"})
  /\ \/ ~within /\ Scanned(t, Value(<<Sign(at[t].begin - at[t].stop)>>))
     \/ within /\ MayRead(a, i) /\ MayRead(b, i) /\ items[a][i + 1] = items[b][i + 1] /\ Advance(t)
     \/ /\ within /\ MayRead(a, i) /\ MayRead(b, i) /\ items[a][i + 1] # items[b][i + 1]
        /\ Goto(t, "differ")
        /\ UNCHANGED <<items, mods, lock, named, history, at, copied, noted, result, broken, disturbed>>
     \/ within /\ (MayMiss(a, i) \/ MayMiss(b, i)) /\ Break(t)

\* The two items are read again for their order.
Differ(t) == LET a == Array(t)
                 b == Source(t)
                 i == at[t].count IN
  /\ At(t, "differ", {"compare"})
  /\ \/ /\ MayRead(a, i) /\ MayRead(b, i)
        /\ Scanned(t, Value(<<Sign(items[a][i + 1] - items[b][i + 1])>>))
     \/ (MayMiss(a, i) \/ MayMiss(b, i)) /\ Break(t)

Resolve(t) == Index(t) \/ Stride(t) \/ Default(t) \/ Stop(t) \/ Start(t)
Prepare(t) == Gather(t) \/ CopyLock(t) \/ Copy(t) \/ Empty(t) \/ Lock(t) \/ Iterator(t)
Work(t)    == \/ GetItem(t) \/ SetItem(t) \/ DelItem(t)
              \/ GetSlice(t) \/ SetSlice(t) \/ DelSlice(t)
              \/ AppendItem(t) \/ Concat(t) \/ ConcatCopy(t) \/ Repeat(t) \/ RepeatCopy(t)
              \/ IteratorNext(t)
Scan(t)    == Sizes(t) \/ Search(t) \/ Compare(t) \/ Differ(t)
Step(t)    == Resolve(t) \/ Prepare(t) \/ Work(t) \/ Scan(t) \/ Return(t)

Next == \/ \E t \in Threads : Step(t) \/ (left[t] > 0 /\ \E c \in CallsOf[t] : Call(t, c))
        \/ \E a \in Literals : Forget(a)

\* A thread that is in a call goes on with it.
Fairness == \A t \in Threads : WF_vars(Step(t))

Spec == Init /\ [][Next]_vars /\ Fairness
-----------------------------------------------------------------------------
(* Properties. *)

\* RWLock: a lock is held by readers or by one writer, and a thread that works
\* under the lock of an array holds it, alone when it may write.
LocksHeld ==
  /\ \A a \in ArrayNames : \/ lock[a].write = {}
                           \/ lock[a].read = {} /\ \E t \in Threads : lock[a].write = {t}
  /\ \A t \in Threads : pc[t] = "locked" =>
       t \in (IF call[t].op \in Reads \cup {"concatCopy"} THEN lock[Array(t)].read ELSE lock[Array(t)].write)

\* The state has the shape the code gives it, and locks are held as they should.
TypeOK ==
  /\ items \in [ArrayNames -> Seq(Items)]
  /\ mods \in [ArrayNames -> Nat]
  /\ LocksHeld
  /\ \A t \in Threads : result[t].value \in Seq(Int)

\* A thread leaves the bounds of a vector only in the four ways the code does
\* not defend against: by repeating more often than the array is long; by
\* using the pointer to a source that is the target itself or has changed
\* since the pointer was taken; by a scan while another thread writes; and by
\* the iterator that drops the array, and the lock in it, while it is locked.
\* In particular no index and no slice that was resolved before the lock is
\* used on an array that has shrunk in the meantime.  These are the four ways.
Excused(t) ==
  LET c == call[t]
  IN  \/ c.op = "repeat" /\ c.count > Size(c.array)
      \/ c.op = "setSlice" /\ FromArray(c) /\ (c.source = c.array \/ mods[c.source] # noted[t])
      \/ c.op \in Scans /\ (disturbed[t] \/ \E a \in Uses(c) : lock[a].write # {})
      \/ c.op = "for" /\ ~named[c.array] /\ t \in lock[c.array].read

\* ArrayObject and Lists.h: whoever left the bounds of a vector did it like that.
MemorySafe == broken # Nobody => Excused(broken)

\* What a call gives and leaves behind when the array held s.
Done(s, r) == [items |-> s, result |-> r]

Meaning(c, arrays) ==
  LET s == arrays[c.array]
      n == Len(s)
      Item(kept) == IF HasIndex(n, c.index) THEN kept ELSE Done(s, Error("IndexError"))
      Slice(kept) == IF n > 0 /\ c.step = 0 THEN Done(s, Error("ValueError"))
                     ELSE IF BadSlice(n, c) THEN Done(s, Error("IndexError")) ELSE kept
      values == IF c.from = "array" THEN arrays[c.source] ELSE c.values
  IN CASE c.op = "getItem" -> Item(Done(s, Value(<<s[PositionOf(n, c.index)]>>)))
       [] c.op = "setItem" -> Item(Done([s EXCEPT ![PositionOf(n, c.index)] = c.value], Value(<<>>)))
       [] c.op = "delItem" -> Item(Done(Without(s, <<PositionOf(n, c.index)>>), Value(<<>>)))
       [] c.op = "getSlice" -> Slice(Done(s, Value(Pick(s, Chosen(n, c)))))
       [] c.op = "delSlice" -> Slice(Done(Without(s, Chosen(n, c)), Value(<<>>)))
       [] c.op = "setSlice" ->
            Slice(IF Len(values) = Len(Chosen(n, c)) \/ c.step \in {Absent, 1, -1}
                  THEN Done(Placed(s, Chosen(n, c), values, c.step # -1), Value(<<>>))
                  ELSE Done(s, Error("ValueError")))
       [] c.op = "append"     -> Done(Append(s, c.value), Value(<<>>))
       [] c.op = "concat"     -> Done(s \o arrays[c.source], Value(<<>>))
       [] c.op = "concatCopy" -> Done(s, Value(s \o arrays[c.source]))
       [] c.op = "repeat"     -> Done(Repeated(s, c.count), Value(<<>>))
       [] c.op = "repeatCopy" -> Done(s, Value(Repeated(s, c.count)))
       [] c.op = "contains"   -> Done(s, Value(<<IF c.value \in Range(s) THEN 1 ELSE 0>>))
       [] c.op = "compare"    -> Done(s, Value(<<Order(s, arrays[c.source])>>))
       [] c.op = "for"        -> Done(s, Value(s))

\* Where the code is known to do something else: it refuses to assign to and
\* to remove an empty slice; it takes a step beyond a machine word, of either
\* sign, for the slice of the first item, whatever the boundaries; repeating in
\* place is right for the counts 0, 1 and the length of the array; and an array
\* reversed onto itself is overwritten while it is read.
Departs(c, arrays) ==
  LET n == Len(arrays[c.array])
      values == IF c.from = "array" THEN arrays[c.source] ELSE c.values
  IN  \/ /\ c.op \in {"setSlice", "delSlice"}
         /\ n = 0 \/ (c.step # 0 /\ ~BadSlice(n, c) /\ Chosen(n, c) = <<>>)
      \/ /\ c.op \in Sliced /\ c.step \in HugeSteps /\ n > 0
         /\ \/ BadSlice(n, c) \/ Chosen(n, c) # <<1>>
            \/ c.op = "setSlice" /\ Len(values) # 1
      \/ c.op = "repeat" /\ c.count \notin {0, 1, n}
      \/ c.op = "setSlice" /\ FromArray(c) /\ c.source = c.array /\ c.step = -1

\* Indices, slices and loops: a call that ends with no other thread having
\* changed an array since it began leaves and gives what the language means.
AloneMeans ==
  \A t \in Threads :
    (pc[t] = "done" /\ ~disturbed[t] /\ ~Departs(call[t], before[t])) =>
      LET meant == Meaning(call[t], before[t])
      IN  /\ result[t] = meant.result
          /\ items = [before[t] EXCEPT ![call[t].array] = meant.items]

\* ArrayIteratorObject: as long as the counter of the array is the one the
\* iterator noted, the array holds what it held then; the iterator gives that
\* in order and without gaps, ends only after all of it, and reports a change
\* only when there was one.
IteratorFaithful ==
  \A t \in Threads :
    (call[t].op = "for" /\ pc[t] \in {"lock", "locked", "done"}) =>
      LET a == call[t].array
      IN  /\ noted[t] <= mods[a]
          /\ mods[a] = noted[t] => items[a] = before[t][a]
          /\ copied[t] = SubSeq(before[t][a], 1, Len(copied[t]))
          /\ pc[t] = "done" => IF result[t].raised = "" THEN result[t].value = before[t][a]
                               ELSE mods[a] # noted[t]

\* No call waits for ever: a += b next to b += a, and a += a, come to an end,
\* because nobody waits for a lock while holding another.
CallsReturn == \A t \in Threads : pc[t] # "idle" ~> (pc[t] = "idle" \/ broken # Nobody)
=============================================================================
