# RedScript in TLA+

RedScriptCompiler compiles a small dynamic language to byte code and interprets it. These modules model
the parts of it whose correctness depends on the order of many steps: the locks, the garbage collector, the
way from a text to what the interpreter does, function calls with the variables they capture, and arrays that
several threads share. TLC checks them on small instances; TLAPS proves nearly all of that, but for liveness, for
every instance. Paths below are relative to the repository; a line such as
`GarbageCollector.cpp:132` is in `src/src/engine/GarbageCollector.cpp`.

    tlc -workers 2 -config MCSpinLock.cfg MCSpinLock      model-checks a run (PROJECT.json lists all)
    tlapm SpinLockProofs.tla                              checks the proofs of a module

## The system

`main.cpp` tokenizes and parses a file, generates a code object and evaluates it on the main thread. The
program itself starts no other thread. Every mutable object nevertheless carries a lock, counts are atomic
and frames are thread-local: the run-time system promises an embedding host that several threads may evaluate
code at once. The modules of the locks, the collector and the arrays check that promise, with a set of threads as
a parameter.

| Component | State | Operations | Calls, and is called by |
|---|---|---|---|
| spin lock (`utils/SpinLock.h`) | two 32-bit counters | acquire, release | generations, pools |
| read-write lock (`utils/RWLock.h`) | `_ticket` and the two halves of `_access` | readLock, writeLock, readUnlock, writeUnlock | arrays, maps, modules |
| garbage collector (`engine/GarbageCollector`) | three lists of nodes with `gen` and `ref`, `used` per generation, `_isCollecting`, `_residentObjects` | track, untrack, collect (Fast, Full), move | every container object; clears objects, which destroys others, which untracks them |
| reference counting (`runtime/ReferenceCounted.h`) | a count per object | ref, unref, destruction | everything |
| interpreter (`engine/Interpreter`) | value stack, block stack, pending return, locals, closures | one step per op-code, recovery from exceptions | objects' operators, nested calls |
| frames (`engine/Thread.h`) | program counter, stack of frames, recursion depth | jumpBy, jumpTo, nextOpCode, push and pop | interpreter |
| code generator (`compiler/CodeGenerator`) | code object, vectors of branches to patch | one visitor per kind of node | parser's tree in, code object out |
| tokenizer, parser (`compiler/`) | position, look-ahead, nesting of loops, cases, functions | next token; one method per production | code generator |
| map (`runtime/MapObject`) | hash index, ordered list, access mode, lock | find, insert, pop, enumerate, clear | interpreter, attributes |
| array, iterator, tuple, slice (`runtime/`, `utils/Lists.h`) | items, modification counter, lock | item and slice access, append, repeat, concatenate, iterate | interpreter |
| function, bound method, closure | code, defaults, captured variables open or frozen | invoke, freeze, get | interpreter |
| object model (`runtime/Object`) | attributes, types, descriptors | get, set, delete, dispatch of operators | interpreter |
| exceptions | type, parent, traceback | raise, match, chain | interpreter |
| scalars, strings, integers, decimals | values, pools | arithmetic, conversions | interpreter |
| modules, FFI, native classes | import cache, compiled C code | import, native calls | interpreter |
| memory, strings, free list, built-ins, start-up | allocator counters | allocation, formatting, registration | everything |

What is hard in it:

* **Order between threads.** The tickets of the locks wrap. `used` is changed outside of the lock that guards
  the list it counts. `untrack` reads `gen` before it takes the lock of that generation. A dying object can be
  found by a collection.
* **Order inside of one thread.** Clearing one object destroys others that are on the same list while a loop
  stands on it. An exception block is driven by three flags that earlier instructions left in it.
* **Code that meets only in bytes.** Parser, code generator and interpreter have no common notion of a loop or
  a try statement: a clause goes to the statement that is open, offsets are patched later, heights of the stack
  are implied.
* **Aliasing**: a slice assigned from its own array, an iterator that drops the array that holds its lock, a
  closure that points into a frame.
* **Checks before the lock**: an index is resolved against a size that may be another one when the lock is held.
* **Bounds**: counters at 2^32, sizes of generations, negative indices and empty slices.

What makes each component correct: a lock excludes and serves everyone in turn. A collection clears only
what nobody can reach, finds everything that is lost, ends, and keeps its counters in step with its lists. A
compiled statement does what the statement says, uses the stack evenly, and ends. A container behaves like a
sequential map or list, and an iterator notices every change. A closure sees the variable, before and after the
frame has gone. The hazards in `PROJECT.json` give the line where each of these is at risk.

## The modules

    Wrap ── SpinLock ──(implements)── FairLock        SpinLockProofs
      │  └─ RWLock ────(implements)── FairRWLock      RWLockProofs
      └──── Generations                             GenerationsProofs
            MarkSweep ─(implements)── Collector       MarkSweepProofs
    Parser        ┐
    CodeGenerator ├─ ControlFlow
    Interpreter   │  └─ MCVerified
    Language      ┘       │
    Interpreter ── Verifier                         InterpreterProofs
    FunctionCalls                                     FunctionCallsProofs
    ListMeaning ── Arrays                             ArraysProofs
                                                      Lines (lemmas that several proofs share)

An `MC` module with its `.cfg` files instantiates each for TLC; the properties, and the refinement mappings
(`Abstract == INSTANCE ... WITH ...`), are in the specification modules.

**SpinLock** (`SpinLock.h`). `Draw` is `_ticket++`, `Enter` the successful test of the spin loop, `Release`
the increment. Counters are modulo `Word` (`Wrap`), as `uint32_t` is modulo 2^32. *FairLock* is a line of
threads of which the first is inside.

**RWLock** (`RWLock.h`). `Draw`, `ReadTurn`/`ReadAdmit`, `WriteTurn`, `ReadUnlock`, and the unlock of a writer
in the steps the expression takes: load `_reads`, load `_writes`, one 64-bit store. Lines 13-31 lay `_access`
over the two halves. `SetLowBit` is the carry: `(_reads + 1ul)` is computed in 64 bits, so at the maximum of
`_reads` it reaches the high half. *FairRWLock* grants requests in the order of a line, readers together.

**MarkSweep** (`GarbageCollector.cpp:86-223`, `Generation::collect`). The heap is a set of slots, each a counted
reference of an object or of the `Root` (stacks, maps, untracked objects, other threads). A list is a set of
objects ordered by `rank`. The three loops of `markObjects` take one step per node and one per child visited by
`referenceTraverse`; `freeObjects` one per retained object, cleared slot and destruction. Initial states are all
heaps. *Collector* says what a collection may do to a heap: it destroys objects of a set nothing outside of it
refers to, and nothing else.

**Generations** (the rest of `GarbageCollector.cpp`, `ReferenceCounted.cpp`, `RedScript::shutdown`). `New`,
`Check`, `Attach`, `Count` are `track`; `Drop`, `Uncount`, `Detach` are `untrack` and `removeObject`; `CallFull`,
`Test`, `Mark`, `FreeEnd`, `Move`, `Exchange`, `Add`, `End` are `collect`. A critical section of a generation's
spin lock is one step, which `SpinLock!MutualExclusion` justifies; the changes of `used` outside of it are steps of
their own. What `markObjects` singles out is any set of objects of the generation, and any of those may be garbage
(`stage`), the others in use, as `mark_sweep_live` shows that they can be: MarkSweep has the inside of that step. When an object is destroyed twice or taken off a list under another list's lock, the C++ program is
undefined, and the model stops (`undefined`). A history variable `raced` says that a move has come between
a list operation and its change of the counter.

**Parser** (`Parser.cpp`, `Tokenizer.cpp:532-592`). From tokens to syntax trees. The parser is predictive, so each
function is written down as the steps it takes for the token ahead, and `Run` takes them; a loop of the code is
a rule that ends with itself. `Peek` and `PeekOrLine` are the two ways of looking ahead: operators may follow on a
later line, the bracket of a call may not. The state counts the loops, cases and functions around it, as `Scope`
and `Reset` do, and decides where break, continue and return are accepted. An assignment is not predictive: the
code parses it as an expression, restores the tokenizer (`Back`), and tries targets (`ParseTarget`, `ParseUnpack`)
until one does not end in `=`.

**CodeGenerator** (`CodeGenerator.cpp`, `CodeObject.cpp`). One operator per visitor, from a syntax tree to
instructions at byte addresses with relative operands. It has if, while, for, switch, try, break, continue,
return, raise, expression statements and compound statements; assignments, unpacking, incremental assignments
and deletion of local variables; boolean operators with short circuits, chains of comparisons, arithmetic, tuples
and arrays. Visitors emit, remember offsets and patch them as in the code, including `leave` of the
scopes, which does not pop.

**Interpreter** (`Interpreter.cpp`, `Thread.h`). One call of `eval`: `Step` executes the instruction at `pc`,
with the checks that throw `InternalError`; `Recover` is the catch clause, one step per block. `CALL` stands for a
call of some function of the program, which returns any value or throws: it is external and nondeterministic.
The values are numbers, exceptions, exception types, tuples and arrays, and iterators with the items that are
left. A number that is iterated or unpacked stands for some object with so many items. Operands of arithmetic are
numbers of any size; what `IntObject` does with them is not modelled.

**Verifier** says which code objects are safe to execute, as a verifier of byte code would; the program has none.
A certificate has the shapes the state may have at each address: the kinds of values on the stack, the exception
blocks and their flags, whether a return is pending. `Flow` follows one instruction from a shape, with all it can do;
`Sound` says that the checks of the interpreter succeed there; `Certified`, that the certificate is closed under `Flow` and
has one height for each address. `MCVerified` computes the certificates for the programs of `MCControlFlow`, and
`CertificateAssumption`, which TLC evaluates, is that the compiler's code for each of them is certified.

**Language** is the reference: what a function body means, by recursion over its tree. Where the
language has no other definition it follows the comments of the interpreter (a return in a finally section
takes over, `Interpreter.cpp:567-577`). **ControlFlow** puts them together: a text is parsed and compiled
(`ProgramsAssumption`, which TLC evaluates), the code is executed, and `Agrees` compares the end of each execution with the meaning of the body for the same results
of its calls.

**FunctionCalls** (`Thread.h`, `Closure.h`, `FunctionObject.cpp`, parts of `Interpreter.cpp` and `CodeGenerator.cpp`).
The stack of frames of one thread. A frame takes the steps its text allows in any order: `LoadConst`, `Load`, `Store`,
`Delete`, `MakeFunction`, `Invoke`, `Raise`, `Return`; an exception is handled by `Catch` or by `Unwind`. A captured
variable is a cell, which points into a frame (`home`) or holds a value of its own (`freeze`). `lives` is a history of
all frames with what their variables hold, against which `SeesVariable` compares what a closure reads; `early`
collects the cells that were frozen while their frame went on, when the variable was deleted or another function
captured it: from then on such a closure holds what the variable was, and `SeesVariable` asks nothing of it.
`Positional`, `Named`, `Defaulted` and `Count` are the passes of `FunctionObject::invoke`; `Binds` says
independently of them what the parameters should hold. The names of built-in functions, which every module has
in its closure, are left out.

**Arrays** (`ArrayObject.cpp`, `Lists.h`). Every operation of an array and its iterator, by threads that share
arrays. What reads without the lock is steps of its own: `Index`; `Stride`, `Default`, `Stop` and `Start`, since
`sliceConstraint` asks for the size up to four times (`Top` is the largest `size_t`, the last index of an array that has
become empty in between; a slice that reaches there is refused under the lock, or is too large to allocate); `Gather`, which takes a pointer into the source of a slice assignment; `Sizes`,
`Search`, `Compare`, `Differ`, which never lock. `Lock` is a readers-writer lock (RWLock has its inside), the operation
under it one step. When the code leaves what a vector owns the program is undefined: `broken` names the thread, and
the model stops. Tuples and drained iterables, as sources, are values of the call. An iterator belongs to one
thread. *ListMeaning* is the reference: lists as sequences, slices as sets of
positions listed in order, without cursors and without machine words.

## The runs

| Run | Instance | What it shows |
|---|---|---|
| `spin_lock` | 3 threads, counters modulo 4 | exclusion, service in the order of the tickets (`Window`, `ImplementsFairLock`), everyone enters, across several wraps |
| `rw_lock` | 3 threads, counters modulo 4, up to the carry | a writer is alone, readers share, nobody overtakes or starves; what `writeUnlock` loaded is still true when it stores (`LoadsStayFresh`) |
| `rw_lock_carry` (violation) | the same, beyond the carry | a reader, admitted by the wrapped `_reads`, is inside together with a writer |
| `mark_sweep` | all heaps of 3 objects and 4 references, up to the order of slots | subtraction is exact, nothing scanned is given up, forward references keep their objects, all garbage is found, and destroyed one by one without an object left over |
| `mark_sweep_live` (violation) | 2 objects are enough | a live object is cleared: see below |
| `generations` | 2 threads, 3 objects, generations full with 1, 1 and 2 objects, counters modulo 4 | counters are conserved whoever interferes, and exact unless a move raced; `gen` agrees with the list; one collector at a time; the ageing that Fast and Full promise |
| `generations_end` | 2 threads, 2 objects | a collection that singles out only garbage ends, and clears the flag |
| `generations_leak` (violation) | the same | `shutdown` reports a leak where there is none |
| `control_flow` | the texts of 1443 function bodies, on one line or on many; calls return 0 or 2 or throw, 4 calls with a free result | the code is certified; no internal error, every address is reached with one height of the stack, each body does what it means, each call ends |
| `control_flow_break` (violation) | one body | a for loop left by break leaves its iterator behind |
| `function_calls` | three programs: nested functions, a variable captured twice, parameters of all kinds with up to 4 arguments and keywords; recursion limit 3, 3 function objects, 4 frames | an open closure points into a live frame and is its context; a name means the variable it lies in; a call binds its arguments or raises, and the stack keeps to its limit |
| `arrays` | 2 arrays of up to 3 items; one call alone, with all slices over 4 boundaries and 8 steps (none, two beyond a machine word), or one call of each of two threads | no access outside of a vector but in the known ways; indices, slices and loops mean what the language says; an iterator notices every change; every call returns |

**Why these bounds.** Lock counters only matter modulo their width and relative to the number of threads, so a
width one above the number of threads has every wrap and every fullest window; the proofs do not depend on it.
Three objects and four references have cycles, shared and self references, two references between one pair and
an object reached against the order of the list; four are needed for a loop of two with one reference from
outside and one to a third. Sizes of generations of one or two make every collection due during short
behaviours; the real sizes (YOUNG, OLD and PERM) only delay that. `resident` wraps like the counters of the generations. In `control_flow` two levels of nesting let each statement be left in every way through each other
statement; three levels are in the run where an exception leaves a loop in a try in a loop. After `MaxCalls`
calls every call returns 0, which ends loops. Results 0 and 2 make conditions false or true, select different
cases of a switch, give empty loops and loops of two items, and objects that have too few items to be unpacked into
two variables, or just as many; tuples and arrays are there with too few items, too. Each assignment is followed by
a look at the variables: at the end, in an except section after a failure, and in a finally section. `Supported` in `MCControlFlow` says which
programs are left out, and why; symmetry is used in `generations` for threads and objects, which no property
tells apart, and not in the runs with liveness. `MCControlFlow` also assumes, and TLC evaluates, that the parser
refuses break, continue, return, try, switch, targets that are none and unfinished expressions where it should.

In `function_calls` three levels of functions make a name pass through a function that does not use it; two
function objects of one frame capture its variable twice; frames outlive, and are outlived by, what they
define; `Budget` bounds the steps of a program, not their order. In `arrays` three items and steps up to 2 have
every relation of a slice to its array (inside, empty, backwards, with a remainder, past the end); the boundary
0 and the last one appear in the calls next to another thread. Of two calls at the same time, the second
changes one of the arrays the first one uses, between any two of its steps.

**Deadlock** is checked except where the modelled program stops: a collection returns, a call of `eval` returns,
and Generations stops where the program becomes undefined.

**Fairness.** The locks have weak fairness of every step a thread takes once it has called acquire, and of the
release: a thread that runs goes on, and whoever holds a lock gives it back. There is none for asking for a lock. A
collection and a call of `eval` are one thread that keeps running: weak fairness of its next step. Generations
has strong fairness of the steps inside of track, untrack and collect, since some of them wait for a lock that comes
and goes; that such a lock comes to everyone who waits is `SpinLock!EveryoneEnters`. Creating and dropping
objects has no fairness, except for the drops of garbage that `freeObjects` makes itself: that what it clears is
then destroyed, object by object, is `MarkSweep!SingledOutDies`. An object in use has none, since `freeObjects` puts
it back again and again; `CollectionEnds` claims nothing of a collection that has singled out such an object. A thread in a call of an array goes on
with it: weak fairness of its step is enough, since nobody holds one array lock while asking for another, and
calls are finitely many (that a lock comes to everyone who waits for it, however many follow, is `RWLock`). The program
of `control_flow` has no infinite loop of its own, since calls return 0 in the end.

## The proofs

`SpinLockProofs`, `RWLockProofs`, `MarkSweepProofs`, `GenerationsProofs`, `FunctionCallsProofs`, `ArraysProofs` and
`InterpreterProofs`, for every value of the constants. They rest on the named assumptions of the modules only, which TLC evaluates in
every run: threads are finitely many, at most as many as a lock counter has values, and the width of the counters of
the read-write lock is even; fewer objects than a counter of a generation has values, sizes of generations that are
not zero, and no thread that could be mistaken for a generation; numbers of objects and references are natural; the
parameters of a function are local variables, distinct, with no more defaults than parameters
(`TextsAssumption`; the same name twice is a hazard, `FunctionObject.cpp:175`); arrays hold items, and
a call names arrays there are, with boundaries that are integers and a step that is one, or is beyond a machine
word (`ContentAssumption`, `CallsAssumption`, `BoundaryAssumption`, `TopAssumption`); calls return integers, other than the one
that stands for an exception (`ValuesAssumption`), and the code objects are certified (`CertificateAssumption`).

* *Spin lock.* Mutual exclusion is not inductive: nothing in it says that two waiting threads have different
  tickets. `Window` does: the tickets that are out are distinct and fill the interval from the ticket being
  served to the next one drawn, and a holder has the first. `WindowInvariant` proves it for every step, with
  arithmetic modulo `Word`; `Exclusion` follows. `StepsOfFairLock` is the refinement: `Line` orders the threads by
  the distance of their tickets from the one being served, drawing a ticket appends to it, `Release` takes its head.
* *Read-write lock.* The same with two counters: readers move the window's start when they are admitted, writers
  when they leave, and `LoadsStayFresh` keeps what a leaving writer has loaded. Both hold until `carried`;
  `Exclusion` and the refinement `Implements` are stated with that condition, since the code breaks them afterwards.
* *Mark and sweep.* `TypeCorrect` is inductive. `SubtractCorrect` needs `SubtractInv`: at any moment of the second
  loop `ref` is the number of references that have not been visited yet, so that the test of `ref > 0` never stops
  early. `ScannedStays` needs `MoveInv`: an object that is referred to from elsewhere, or by a traversed object, is
  on the head list with a `ref` that is not zero, and what was moved away is marked `UNREACHABLE`, by which a later
  traversal recognizes it. `GarbageIsFound` needs `FindInv`: every member of a closed set has been moved away, or
  has a `ref` of zero and is still ahead of the loop; the loop cannot miss it because what is moved back comes
  after all such objects. Here the order of the list matters, which the lemmas on `MoveTo` and `NextAfter` provide.
  `ForwardIsKept` needs `ForwardInv`: objects that references reach down the list are never moved, keep their order, and
  come before whatever was moved away and back. `ReclaimsGarbage` is the refinement of *Collector*: `ReclaimInv` says that
  what is on the garbage list is garbage of the abstract heap, and stays so while other garbage is destroyed.
* *Generations.* The type of the state (`TypeInv`) needs that only a generation with an older one is moved
  (`MovesUp`), and agrees with `GenAgrees` in one induction: what a thread does outside of a critical section
  touches an object that nobody else can reach. `OneCollector` is the exchange of `_isCollecting`. `CountsConserved`
  holds in steps that only trade an object for a thread that owes a change of the counter; since counters wrap, it
  is an equation modulo `Word`, over finite sets of threads and objects. `CountsExact` is the same for each generation, as long as
  nothing `raced`. `FastAges` and `FullAges` follow the index of the loop: what the collection has passed is
  on the next list, what it has still to do is where it was.
* *Function calls.* `PointsIntoFrame`: an open cell points into a frame of the stack that has it as a context. The
  inductive invariant `PointsInv` adds the shape of the frames: contexts are those of the local variables, and no
  function object has the number 0, by which a context says that there is none. Each action keeps the contexts of a
  frame or freezes what it drops: lemma `LeaveKeeps` is that for the ways out of a frame (return and exception), the
  steps for `Delete` and `MakeFunction` are that for a single variable. `RefsInv`, on top of it, bounds every
  reference to a frame, a function object or a cell by what has been made. `CallsBind` needs it only to know that a call
  runs a function of the program; the rest of that proof is about the passes of `invoke` alone. `SeesInv` links
  a captured name to its cell and to the life of the frame it came from, one function object at a time;
  `SeesVariable` follows in a single state by induction on the age of the function object, down the chain of definitions.
* *Arrays.* `LocksAndMemory`: a thread that works under the lock of an array holds it, alone when it may write, and
  `MemorySafe`. What an index, a slice or an iterator was before the lock does not matter to it, since each is
  checked under the lock. `Compare` checks nothing after it has read the two sizes: `Inv` adds (`Knows`) that they
  still are the sizes as long as no other thread has stored anything, and that a difference is at a place within
  both, where `Differ` reads again. `StepKeepsInv` does all other threads once, for any step that `Tells` them when
  it stores and takes only a lock that is free; `NextKeepsInv` shows each action to be such a step. On top of it
  `ContentInv` is what arrays hold: the loops of `removeSlice`, `setSlice` and `repeat` make sequences of items out of
  sequences of items (`EraseLoopIs`, `OverwriteLoopIs`, `RepeatedIs`), for which a slice has to be within the bounds it was
  computed for; and an iterator whose counter has not changed stands before the item after the ones it gave.
  `AloneMeans` says that a call which no other thread disturbs does what *ListMeaning* says. `AloneInv` is about the way
  there (`OnWay`): what `sliceConstraint` has found so far is what the boundaries mean, the slice it ends with runs
  through the positions they name, in order (`PlacesOK`), the buffer holds what was read, and a scan has found nothing up to
  where it is. A step of another thread keeps it, or is a change and marks the call as disturbed. Under the lock
  there is one lemma for each operation (`GetSliceAlone`, `DelSliceAlone`, `SetSliceAlone`, ...), over lemmas that know no
  threads: a resolved slice is the set of positions of the language in ascending or descending order (`ChosenUp`,
  `ChosenDown`); removing one item after the other, with each removal moving the rest, leaves those that were not
  named (`EraseEachMeans`, `SliceErased`); overwriting puts each value where it belongs, whichever way the slice runs
  (`OverwrittenMeans`, `SplicedMeans`); `RepeatedMeans`; and the first difference decides an order (`OrderIs`).
* *Interpreter.* `NoErrors` and `HeightsAgree` hold for every certified code object, whatever calls return and throw,
  in whatever order, with numbers, tuples and iterators of any size. Neither is inductive: what an instruction finds on
  the stack depends on how control came to it, and an exception continues where a block says that was set up
  long before. `Inv` says that the shape of the state is in the certificate at `pc`. While an exception is under
  way it says that the block which will handle it continues with such a shape; blocks on the way there, which
  have come to their finally section with an exception, are given up one by one (`Takes`). There is a lemma for each
  instruction (`CallKeeps` to `PopReturnKeeps`), which compares what the interpreter does with a value to what `Flow` does
  with its kind; `Datum` says down to which numbers and exceptions a value is made, so that a conversion, an
  unpacking and a chain of causes have what they take. What remains for the compiler is to emit code that is certified,
  which TLC finds for the programs of `control_flow`. Of the programs that are excluded
  there, those which leave a value behind have no certificate (break or return out of a for loop, continue or return
  out of a switch): it is still there at a return, or the heights at an address differ. The others do not do what
  they say, but without an internal error.

The loops of the code are recursive functions over the naturals. The library's induction theorems cannot be
instantiated by the provers here; `Lines` derives from its theorem on well-founded relations induction in a form
that needs no operator (`NatInd`: a set of naturals with 0 and with every successor is all of them).

Only model-checked:

* liveness, and so the fair part of the refinements, which this prover does not reach (`EveryoneEnters`,
  `SingledOutDies`, `CollectionEnds`, `CallsReturn`, `Terminates` and their like);
* `Agrees` of ControlFlow: its parser, code generator and reference are recursive operators. For the same reason
  it is not proved that the code generator emits certified code, whatever the program.

## What was found

* `rw_lock_carry`: `writeUnlock` lets the carry out of `_reads` into the lowest bit of `_writes`
  (`RWLock.h:50`). It takes 2^32 acquisitions.
* `mark_sweep_live`: `markObjects` saves `p->next` before it traverses (`GarbageCollector.cpp:132`). A node that
  comes back to the end of the list while the last node is traversed is not visited, and what it refers to is
  cleared although it is in use. The comment of `freeObjects` promises otherwise.
* `generations_leak`: a move between a list operation and its change of `used` leaves two counters wrong for
  ever, and `shutdown` reports a leak.
* `control_flow_break`: break out of a for loop ends in "Stack not empty when return".

Reading the code for `control_flow` turned up more programs that it does not execute as written. They are excluded by
`Supported`, so that the run says something about all the others, and are listed as hazards: continue or return
out of a switch and return out of a for loop (a value is left on the stack); break and continue out of a try
statement (its block is left); break or continue before an inner loop (never patched, it jumps to itself); an
exception of a finally section when there was none before (the except sections of the same try run, and
the finally section runs twice); a try statement in a finally section that runs with a pending return; `>=`, which
is compiled to `LEQ` (`CodeGenerator.cpp:1247`).

The parser takes less than the trees it makes could say, and once more. `(x, y) = c()` is refused, though
`(x, y), z = c()` is not: a single sequence in brackets is read up to its bracket, and `=` is left (`Parser.cpp:1563`).
`x = 1, 2` is refused, since the list of values is tried as targets first and a number is an error there, not a
reason to give up (`Parser.cpp:1010`); `x = y, z` is accepted. A list of names on a line of its own becomes an
assignment without targets, for which `visitAssign` reads before the start of a vector. `NoTargetAssumption` and
`TargetAssumption` state all of this; no program of the run does such a thing.

`arrays` holds with exceptions that are part of its properties, so that they are stated once and exactly. `Departs` are
the calls that do something else than lists do: assigning to and removing an empty slice is refused; a step beyond a
machine word, of either sign, selects the first item of the array whatever the boundaries are (`Lists.h:169-170`), so
that `a[::-2**64]` gives the first item and not the last, and assigning to such a slice puts any number of values
in place of that item; `repeat` in place inserts as many items as it should repeat
times; a slice that is reversed onto its own array is overwritten while it is read. `MemorySafe` has the four
accesses nothing guards: that same `repeat`, when the count is larger than the array; the pointer into a source
that is the target, or that another thread has changed; comparison and search, which do not lock; and the iterator
that destroys the array together with the lock it holds. In `function_calls`, `early` are the closures that lose
their variable because another function captured it, or because it was deleted.

## Not modelled, and the plan

Left out for good: arithmetic of the vendored MPIR and libbid, native code through libtcc and libffi, allocation,
formatting, the command line, and the free list, which no class uses. Reference counting is part of MarkSweep and
Generations, without the template machinery of `Reference<T>`.

Of modelled components: in Arrays, an iterator that two threads advance at once, and the text of an array; in
FunctionCalls, the collection of function objects and the traceback; in Parser, imports, classes,
decorators, lambdas, parameters, maps, subscripts, attributes, slices and the operators of the other levels; in
CodeGenerator and Interpreter, the visitors and instructions for those; in Tokenizer, how characters become tokens.
These need values the models do not have.

Next, in this order:

1. *HashMap*: `MapObject` with its two access modes, eviction, enumeration that copies, under RWLock, as an
   implementation of an ordered map with a recency order. No class of the program asks for the second mode yet.
2. *Attributes*: `Object` with types, descriptors and the dispatch of operators.
3. A second round of MarkSweep over one heap, with a younger generation in between, for the `ref` that a first
   round leaves behind.
4. Attributes, subscripts and slices as targets, once there is a model of objects.

Theorems next: the parts of the code generator that are not recursive, as lemmas about what `PatchAll` and the scopes
do to branches.
