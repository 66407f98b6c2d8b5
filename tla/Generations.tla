----------------------------- MODULE Generations -----------------------------
(***************************************************************************)
(* The three generations of the garbage collector as the threads of the    *)
(* program use them (src/engine/GarbageCollector.cpp): GCObject::track and *)
(* untrack, Generation::addObject, removeObject and move, and              *)
(* GarbageCollector::collect, interleaved.                                 *)
(*                                                                         *)
(* MarkSweep has the inside of one Generation::collect; here it singles    *)
(* out some objects of a generation and destroys them.  A critical section *)
(* of a Generation's SpinLock is one step (SpinLock!MutualExclusion), but  *)
(* the counters used are changed outside of it, in steps of their own.     *)
(***************************************************************************)
EXTENDS Wrap, FiniteSets

CONSTANTS Threads, Objects,
          Size,        \* Generation::size of YOUNG, OLD and PERM
          Share        \* PERM is collected for resident objects worth one
                       \* Share-th of its size; 4 in the program

Young == 0
Old   == 1
Perm  == 2
Gens  == {Young, Old, Perm}

None == -1             \* GC_UNTRACKED, and "no object"

ASSUME GenerationsAssumption ==
  /\ IsFiniteSet(Threads) /\ Threads \cap Gens = {} /\ None \notin Threads \cup Objects
  /\ IsFiniteSet(Objects) /\ Cardinality(Objects) < Word
  /\ Size \in [Gens -> Words \ {0}] /\ Share \in Nat \ {0}

VARIABLES stage,       \* "free", "new", "live", "garbage" or "dying", per object
          list,        \* the generation an object is on, or the thread whose
                       \* local list of collect it is on, or None
          gen,         \* GCNode::gen
          used,        \* Generation::used
          flag,        \* _isCollecting
          resident,    \* _residentObjects
          pc,          \* where each thread is
          obj, dead,   \* the objects it tracks and untracks
          from,        \* the generation removeObject was called on
          mode, i,     \* collect: the mode and the generation of the round
          due,         \* collect: j > 0
          size,        \* move: the local size
          back,        \* where collect returns to
          resume,      \* where untrack returns to
          start,       \* history: gen when the running collection began
          raced,       \* history: did move take an object whose addObject or
                       \* removeObject had not changed used yet?
          undefined    \* a list is torn or an object is destroyed twice

objects == <<stage, list, gen>>
locals  == <<obj, dead, from, mode, i, due, size, back, resume>>
vars    == <<objects, used, flag, resident, pc, locals, start, raced, undefined>>

-----------------------------------------------------------------------------
Plus(x, n)  == (x + n) % Word
Minus(x, n) == (x - n) % Word

ResidentLimit == Size[Perm] \div Share

On(l)   == {o \in Objects : list[o] = l}
Full(g) == used[g] >= Size[g]

\* move holds two locks until it has changed both counters.
Locked == UNION {{i[t], i[t] + 1} : t \in {u \in Threads : pc[u] \in {"exchange", "add"}}}

Goto(t, label) == pc' = [pc EXCEPT ![t] = label]

Collecting == {"test", "mark", "free", "move", "exchange", "add", "end"}

Init == /\ stage = [o \in Objects |-> "free"]
        /\ list = [o \in Objects |-> None]
        /\ gen = [o \in Objects |-> None]
        /\ used = [g \in Gens |-> 0]
        /\ flag = FALSE
        /\ resident = 0
        /\ pc = [t \in Threads |-> "idle"]
        /\ obj = [t \in Threads |-> None]
        /\ dead = [t \in Threads |-> None]
        /\ from = [t \in Threads |-> Young]
        /\ mode = [t \in Threads |-> "Fast"]
        /\ i = [t \in Threads |-> Young]
        /\ due = [t \in Threads |-> FALSE]
        /\ size = [t \in Threads |-> 0]
        /\ back = [t \in Threads |-> "idle"]
        /\ resume = [t \in Threads |-> "idle"]
        /\ start = [o \in Objects |-> None]
        /\ raced = FALSE
        /\ undefined = FALSE

-----------------------------------------------------------------------------
\* A thread creates an object, whose constructor calls track.
New(t, o) == /\ pc[t] = "idle" /\ stage[o] = "free"
             /\ stage' = [stage EXCEPT ![o] = "new"]
             /\ obj' = [obj EXCEPT ![t] = o]
             /\ Goto(t, "check")
             /\ UNCHANGED <<list, gen, used, flag, resident, dead, from, mode, i, due, size,
                            back, resume, start, raced, undefined>>

\* collect up to its test of the flag, called from label here and returning to
\* label ret.  Fast starts at the oldest generation, Full at the youngest.
CallWithoutFlag(t, m, ret) ==    \* mutant: the flag is not tested
  /\ flag' = TRUE
  /\ mode' = [mode EXCEPT ![t] = m]
  /\ i' = [i EXCEPT ![t] = IF m = "Fast" THEN Perm ELSE Young]
  /\ due' = [due EXCEPT ![t] = FALSE]
  /\ back' = [back EXCEPT ![t] = ret]
  /\ start' = gen
  /\ Goto(t, IF m = "Fast" THEN "test" ELSE "mark")

Call(t, m, ret) ==
  IF flag
  THEN /\ Goto(t, ret)
       /\ UNCHANGED <<flag, mode, i, due, back, start>>
  ELSE /\ flag' = TRUE
       /\ mode' = [mode EXCEPT ![t] = m]
       /\ i' = [i EXCEPT ![t] = IF m = "Fast" THEN Perm ELSE Young]
       /\ due' = [due EXCEPT ![t] = FALSE]
       /\ back' = [back EXCEPT ![t] = ret]
       /\ start' = gen
       /\ Goto(t, IF m = "Fast" THEN "test" ELSE "mark")

\* track: a young generation that is full is collected first, ...
Check(t) == /\ pc[t] = "check"
            /\ IF Full(Young) THEN Call(t, "Fast", "attach")
               ELSE Goto(t, "attach") /\ UNCHANGED <<flag, mode, i, due, back, start>>
            /\ UNCHANGED <<objects, used, resident, obj, dead, from, size, resume, raced, undefined>>

\* ... addObject attaches the object ...
Attach(t) == /\ pc[t] = "attach" /\ Young \notin Locked
             /\ list' = [list EXCEPT ![obj[t]] = Young]
             /\ gen' = [gen EXCEPT ![obj[t]] = Young]
             /\ Goto(t, "count")
             /\ UNCHANGED <<stage, used, flag, resident, locals, start, raced, undefined>>

\* ... and counts it.  Then the program has the object.
Count(t) == /\ pc[t] = "count"
            /\ used' = [used EXCEPT ![Young] = Plus(@, 1)]
            /\ stage' = [stage EXCEPT ![obj[t]] = "live"]
            /\ obj' = [obj EXCEPT ![t] = None]
            /\ Goto(t, "idle")
            /\ UNCHANGED <<list, gen, flag, resident, dead, from, mode, i, due, size, back,
                           resume, start, raced, undefined>>

\* The program calls collect(Full), as RedScript::shutdown does.
CallFull(t) == /\ pc[t] = "idle"
               /\ Call(t, "Full", "idle")
               /\ UNCHANGED <<objects, used, resident, obj, dead, from, size, resume, raced, undefined>>

\* The last reference is dropped, by the program or inside of freeObjects, also
\* that of an object which a collection has singled out although it is in use;
\* garbage dies only in freeObjects.  untrack reads gen; removeObject counts the
\* object out ...
Drop(t, o) == /\ pc[t] \in {"idle", "free"} /\ (pc[t] = "free" => On(t) # {})
              /\ list[o] # None
              /\ stage[o] = "live" \/ (stage[o] = "garbage" /\ list[o] = t)
              /\ stage' = [stage EXCEPT ![o] = "dying"]
              /\ dead' = [dead EXCEPT ![t] = o]
              /\ from' = [from EXCEPT ![t] = gen[o]]
              /\ resume' = [resume EXCEPT ![t] = pc[t]]
              /\ Goto(t, "uncount")
              /\ UNCHANGED <<list, gen, used, flag, resident, obj, mode, i, due, size, back,
                             start, raced, undefined>>

UncountSigned(t) ==              \* mutant: used is not unsigned
  /\ pc[t] = "uncount"
  /\ used' = [used EXCEPT ![from[t]] = @ - 1]
  /\ Goto(t, "detach")
  /\ UNCHANGED <<objects, flag, resident, locals, start, raced, undefined>>

Uncount(t) == /\ pc[t] = "uncount"
              /\ used' = [used EXCEPT ![from[t]] = Minus(@, 1)]
              /\ Goto(t, "detach")
              /\ UNCHANGED <<objects, flag, resident, locals, start, raced, undefined>>

\* ... and takes it off the list it is on, under the lock of the generation
\* untrack read.  If that is not the lock of the list, the links may be torn.
Detach(t) == /\ pc[t] = "detach" /\ from[t] \notin Locked
             /\ undefined' \in {FALSE, list[dead[t]] \notin {from[t], t}}
             /\ list' = [list EXCEPT ![dead[t]] = None]
             /\ gen' = [gen EXCEPT ![dead[t]] = None]
             /\ stage' = [stage EXCEPT ![dead[t]] = "free"]
             /\ start' = [start EXCEPT ![dead[t]] = None]
             /\ Goto(t, resume[t])
             /\ dead' = [dead EXCEPT ![t] = None]
             /\ from' = [from EXCEPT ![t] = Young]
             /\ resume' = [resume EXCEPT ![t] = "idle"]
             /\ UNCHANGED <<used, flag, resident, obj, mode, i, due, size, back, raced>>

-----------------------------------------------------------------------------
\* The round of a Fast collection for generation i.
NextRoundBreak(t) == IF i[t] > Young /\ ~due[t]     \* mutant: break, not j++
                     THEN i' = [i EXCEPT ![t] = @ - 1] /\ Goto(t, "test")
                     ELSE i' = i /\ Goto(t, "end")

NextRound(t) == IF i[t] > Young
                THEN i' = [i EXCEPT ![t] = @ - 1] /\ Goto(t, "test")
                ELSE i' = i /\ Goto(t, "end")

Test(t) ==
  /\ pc[t] = "test"
  /\ IF ~due[t] /\ ~Full(i[t])
     THEN NextRound(t) /\ UNCHANGED due
     ELSE /\ due' = [due EXCEPT ![t] = TRUE]
          /\ IF i[t] # Perm \/ resident >= ResidentLimit
             THEN Goto(t, "mark") /\ UNCHANGED i
             ELSE NextRound(t)
  /\ UNCHANGED <<objects, used, flag, resident, obj, dead, from, mode, size, back, resume,
                 start, raced, undefined>>

\* markObjects singles out a set S: some of it is garbage, to which nothing else
\* refers any more, the rest is in use and was missed (module MarkSweep); and the
\* objects another thread is destroying, whose reference count is zero.
Mark(t) ==
  /\ pc[t] = "mark" /\ i[t] \notin Locked
  /\ \E S \in SUBSET {o \in On(i[t]) : stage[o] = "live"} : \E G \in SUBSET S :
       /\ list' = [o \in Objects |-> IF o \in S \/ (list[o] = i[t] /\ stage[o] = "dying")
                                     THEN t ELSE list[o]]
       /\ stage' = [o \in Objects |-> IF o \in G THEN "garbage" ELSE stage[o]]
  /\ Goto(t, "free")
  /\ UNCHANGED <<gen, used, flag, resident, locals, start, raced, undefined>>

\* freeObjects takes the first object of its list.  One that is still alive when
\* its references are cleared goes to the end of the list; one that is being
\* destroyed already is destroyed again.
DestroyAgain(t) == /\ pc[t] = "free"
                   /\ \E o \in On(t) : stage[o] = "dying"
                   /\ undefined' = TRUE
                   /\ UNCHANGED <<objects, used, flag, resident, pc, locals, start, raced>>

\* When the list is empty, a generation that has an older one is moved into it;
\* PERM is the last one.
FreeEndShort(t) ==               \* mutant: i < count - 2
  /\ pc[t] = "free" /\ On(t) = {}
  /\ IF i[t] = Young
     THEN Goto(t, "move") /\ UNCHANGED <<i, resident>>
     ELSE /\ resident' = 0
          /\ IF mode[t] = "Fast" THEN NextRound(t) ELSE Goto(t, "end") /\ UNCHANGED i
  /\ UNCHANGED <<objects, used, flag, obj, dead, from, mode, due, size, back, resume, start,
                 raced, undefined>>

FreeEnd(t) ==
  /\ pc[t] = "free" /\ On(t) = {}
  /\ IF i[t] # Perm
     THEN Goto(t, "move") /\ UNCHANGED <<i, resident>>
     ELSE /\ resident' = 0
          /\ IF mode[t] = "Fast" THEN NextRound(t) ELSE Goto(t, "end") /\ UNCHANGED i
  /\ UNCHANGED <<objects, used, flag, obj, dead, from, mode, due, size, back, resume, start,
                 raced, undefined>>

\* Back in collect with the result n of move: Fast counts what has become
\* resident and goes on with the next younger generation, Full with the next
\* older one.
AfterMove(t, n) == IF mode[t] = "Fast"
                   THEN /\ resident' = Plus(resident, n)
                        /\ NextRound(t)
                   ELSE /\ i' = [i EXCEPT ![t] = @ + 1]
                        /\ Goto(t, "mark")
                        /\ UNCHANGED resident

\* move merges the list into the next older one, unless it is empty, ...
MoveKeepGen(t) ==                \* mutant: gen is not updated
  /\ pc[t] = "move" /\ {i[t], i[t] + 1} \cap Locked = {}
  /\ list' = [o \in Objects |-> IF list[o] = i[t] THEN i[t] + 1 ELSE list[o]]
  /\ IF On(i[t]) = {} THEN AfterMove(t, 0) ELSE Goto(t, "exchange") /\ UNCHANGED <<i, resident>>
  /\ UNCHANGED <<stage, gen, used, flag, obj, dead, from, mode, due, size, back, resume,
                 start, raced, undefined>>

Move(t) ==
  /\ pc[t] = "move" /\ {i[t], i[t] + 1} \cap Locked = {}
  /\ list' = [o \in Objects |-> IF list[o] = i[t] THEN i[t] + 1 ELSE list[o]]
  /\ gen' = [o \in Objects |-> IF list[o] = i[t] THEN i[t] + 1 ELSE gen[o]]
  /\ IF On(i[t]) = {} THEN AfterMove(t, 0) ELSE Goto(t, "exchange") /\ UNCHANGED <<i, resident>>
  /\ UNCHANGED <<stage, used, flag, obj, dead, from, mode, due, size, back, resume,
                 start, raced, undefined>>

\* ... takes the whole counter of the younger generation ...
Pending(g) == {t \in Threads : \/ pc[t] = "count" /\ g = Young /\ list[obj[t]] # Young
                               \/ pc[t] = "uncount" /\ from[t] = g /\ list[dead[t]] # g}

ExchangeLoadThenStore(t) ==      \* mutant: the counter is not taken, only read
  /\ pc[t] = "exchange"
  /\ size' = [size EXCEPT ![t] = used[i[t]]]
  /\ used' \in {used, [used EXCEPT ![i[t]] = 0]}
  /\ raced' = (raced \/ Pending(i[t]) # {})
  /\ Goto(t, "add")
  /\ UNCHANGED <<objects, flag, resident, obj, dead, from, mode, i, due, back, resume, start,
                 undefined>>

Exchange(t) ==
  /\ pc[t] = "exchange"
  /\ size' = [size EXCEPT ![t] = used[i[t]]]
  /\ used' = [used EXCEPT ![i[t]] = 0]
  /\ raced' = (raced \/ Pending(i[t]) # {})
  /\ Goto(t, "add")
  /\ UNCHANGED <<objects, flag, resident, obj, dead, from, mode, i, due, back, resume, start,
                 undefined>>

\* ... and adds it to the older one's.
AddOverwrite(t) ==               \* mutant: store instead of fetch_add
  /\ pc[t] = "add"
  /\ used' = [used EXCEPT ![i[t] + 1] = size[t]]
  /\ size' = [size EXCEPT ![t] = 0]
  /\ AfterMove(t, size[t])
  /\ UNCHANGED <<objects, flag, obj, dead, from, mode, due, back, resume, start, raced,
                 undefined>>

Add(t) ==
  /\ pc[t] = "add"
  /\ used' = [used EXCEPT ![i[t] + 1] = Plus(@, size[t])]
  /\ size' = [size EXCEPT ![t] = 0]
  /\ AfterMove(t, size[t])
  /\ UNCHANGED <<objects, flag, obj, dead, from, mode, due, back, resume, start, raced,
                 undefined>>

\* A thread that leaves collect forgets its locals.
Return(t) == /\ Goto(t, back[t])
             /\ mode' = [mode EXCEPT ![t] = "Fast"]
             /\ i' = [i EXCEPT ![t] = Young]
             /\ due' = [due EXCEPT ![t] = FALSE]
             /\ back' = [back EXCEPT ![t] = "idle"]
             /\ start' = [o \in Objects |-> None]

EndWithoutClear(t) ==            \* mutant: the flag stays set
  /\ pc[t] = "end"
  /\ Return(t)
  /\ UNCHANGED <<objects, used, flag, resident, obj, dead, from, size, resume, raced,
                 undefined>>

End(t) ==
  /\ pc[t] = "end"
  /\ flag' = FALSE
  /\ Return(t)
  /\ UNCHANGED <<objects, used, resident, obj, dead, from, size, resume, raced, undefined>>

Collect(t) == \/ Test(t) \/ Mark(t) \/ DestroyAgain(t) \/ FreeEnd(t) \/ Move(t)
              \/ Exchange(t) \/ Add(t) \/ End(t)

Track(t)   == (\E o \in Objects : New(t, o)) \/ Check(t) \/ Attach(t) \/ Count(t)
Untrack(t) == (\E o \in Objects : Drop(t, o)) \/ Uncount(t) \/ Detach(t)

\* Once a list is torn or an object destroyed twice, nothing is known any more.
Next == ~undefined /\ \E t \in Threads : Track(t) \/ Untrack(t) \/ CallFull(t) \/ Collect(t)

\* A thread that is inside of track, untrack or collect goes on, through locks
\* that come to everyone who waits for them (SpinLock!EveryoneEnters); and of the
\* objects freeObjects clears in turn, those that are garbage die
\* (MarkSweep!SingledOutDies).  One that is in use need not.
Freeing(t) == DestroyAgain(t) \/ \E o \in On(t) : stage[o] = "garbage" /\ Drop(t, o)
Running(t) == \/ Check(t) \/ Attach(t) \/ Count(t) \/ Uncount(t) \/ Detach(t) \/ Test(t)
              \/ Mark(t) \/ FreeEnd(t) \/ Move(t) \/ Exchange(t) \/ Add(t) \/ End(t)

Fairness == \A t \in Threads : /\ SF_vars(~undefined /\ Running(t))
                               /\ SF_vars(~undefined /\ Freeing(t))

Spec == Init /\ [][Next]_vars /\ Fairness

-----------------------------------------------------------------------------
TypeOK == /\ stage \in [Objects -> {"free", "new", "live", "garbage", "dying"}]
          /\ list \in [Objects -> Gens \cup Threads \cup {None}]
          /\ gen \in [Objects -> Gens \cup {None}]
          /\ used \in [Gens -> Words]
          /\ flag \in BOOLEAN
          /\ resident \in Words
          /\ pc \in [Threads -> Collecting \cup {"idle", "check", "attach", "count",
                                                 "uncount", "detach"}]
          /\ obj \in [Threads -> Objects \cup {None}]
          /\ dead \in [Threads -> Objects \cup {None}]
          /\ from \in [Threads -> Gens]
          /\ mode \in [Threads -> {"Fast", "Full"}]
          /\ i \in [Threads -> Gens]
          /\ due \in [Threads -> BOOLEAN]
          /\ size \in [Threads -> Words]
          /\ back \in [Threads -> {"idle", "attach"}]
          /\ resume \in [Threads -> {"idle", "free"}]
          /\ start \in [Objects -> Gens \cup {None}]
          /\ raced \in BOOLEAN
          /\ undefined \in BOOLEAN

Tracked    == {o \in Objects : list[o] # None}
At(label)  == {t \in Threads : pc[t] = label}

\* What the one thread that is inside of move has taken and not added yet.
InTransit == IF At("add") = {} THEN 0 ELSE size[CHOOSE t \in At("add") : TRUE]

\* Whoever interferes, the counters together count the tracked objects that
\* have been counted in and not yet out: move neither loses nor invents one.
CountsConserved ==
  ~undefined =>
    Plus(used[Young] + used[Old] + used[Perm], InTransit)
      = Minus(Cardinality(Tracked), Cardinality(At("count")) + Cardinality(At("detach")))

\* Each counter by itself counts the objects of its generation, unless a move
\* has come between a list operation and its change of the counter.
CountsExact ==
  ~undefined /\ ~raced /\ Locked = {} =>
    \A g \in Gens :
      used[g] = Cardinality({o \in Objects : gen[o] = g})
                - Cardinality({t \in At("count") : gen[obj[t]] = g})
                - Cardinality({t \in At("detach") : gen[dead[t]] = g})

\* The gen of an object, by which untrack finds lock and counter, is the
\* generation of the list it is on, and an untracked object is on no list.
GenAgrees == \A o \in Objects : /\ list[o] \in Gens => gen[o] = list[o]
                                /\ gen[o] = None <=> list[o] = None

\* One collection at a time: _residentObjects needs no lock.
OneCollector == \A s, t \in Threads : pc[s] \in Collecting /\ pc[t] \in Collecting => s = t

\* What a collection does to the objects that were tracked when it began and
\* are alive when it ends.
Survivors == {o \in Objects : start[o] # None /\ list[o] \in Gens}

\* A Fast collection ages an object by one generation at most, and with the
\* objects of a generation those of every younger one: the comment of collect.
FastAges ==
  \A t \in At("end") : mode[t] = "Fast" =>
    /\ \A o \in Survivors : list[o] \in {start[o], start[o] + 1}
    /\ \A o, r \in Survivors : start[o] <= start[r] /\ list[r] # start[r] => list[o] # start[o]

\* After a Full collection all of them are permanent.
FullAges == \A t \in At("end") : mode[t] = "Full" => \A o \in Survivors : list[o] = Perm

\* A collection that singles out garbage only ends, whatever the other threads
\* create and drop meanwhile.  freeObjects puts an object that is in use back on
\* its list, and goes on until something else destroys it.
SingledOutInUse == {o \in Objects : stage[o] = "live" /\ list[o] \in Threads}

CollectionEnds == flag ~> ~flag \/ undefined \/ SingledOutInUse # {}

\* When nobody is inside of the collector and no object is tracked, shutdown
\* finds every counter at zero: "should have no tracked objects left at this
\* point", and "Object leak found" is thrown for a leak only.
ShutdownFindsNoLeak ==
  ~undefined /\ Tracked = {} /\ At("idle") = Threads => \A g \in Gens : used[g] = 0
=============================================================================
