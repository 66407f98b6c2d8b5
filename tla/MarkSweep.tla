------------------------------ MODULE MarkSweep ------------------------------
(***************************************************************************)
(* Generation::collect (src/engine/GarbageCollector.cpp): one collection of *)
(* one generation, step by step, over an arbitrary heap.                   *)
(*                                                                         *)
(* The heap is a set of Slots: a slot is one counted reference, held by an *)
(* object (an array item, a tuple item, a default value of a function) or  *)
(* by the Root, which stands for everything the collector does not         *)
(* traverse: the stacks, maps, untracked objects.  The number of a slot is *)
(* its place in the traversal of its owner.                                *)
(*                                                                         *)
(* A doubly linked GCNode list is the set of the objects that are on it,   *)
(* ordered by their rank: to append is to become the last of all.  The     *)
(* other generations appear as the objects that are "old".                 *)
(***************************************************************************)
EXTENDS Integers, FiniteSets

CONSTANTS N,    \* how many tracked objects there are
          K     \* how many references there are

ASSUME SizesAssumption == N \in Nat /\ K \in Nat

Objects == 1 .. N     \* in the order they were tracked
Slots   == 1 .. K

Root == -1    \* the owner of the references the collector does not traverse
Free == -2    \* the owner of a slot that holds nothing
Head == -3    \* the list's own node, where a traversal ends
None == -4    \* no object is retained

Untracked   == -1     \* GCNode::GC_UNTRACKED
Reachable   == -2     \* GCNode::GC_REACHABLE
Unreachable == -3     \* GCNode::GC_UNREACHABLE

VARIABLES owner,      \* who holds a slot
          target,     \* the object a slot refers to
          list,       \* the list an object is on: "head" (_head), "garbage"
                      \* (the local list of collect), "old", or "gone"
          rank,       \* how the objects are ordered on their lists
          ref,        \* GCNode::ref
          phase,      \* where collect is
          p,          \* the node the loop looks at next
          todo,       \* the slots referenceTraverse has still to visit
          held,       \* the object freeObjects retains
          sound       \* history: did markObjects single out garbage only?

heap  == <<owner, target>>
lists == <<list, rank>>
vars  == <<owner, target, list, rank, ref, phase, p, todo, held, sound>>

-----------------------------------------------------------------------------
Alive == {o \in Objects : list[o] # "gone"}
On(l) == {o \in Objects : list[o] = l}

HeldBy(o)     == {s \in Slots : owner[s] = o}
References(o) == {s \in Slots : owner[s] # Free /\ target[s] = o}

\* The objects being collected, and the references to an object that are not
\* held by one of them.
Tracked     == On("head") \cup On("garbage")
External(o) == {s \in References(o) : owner[s] \notin Tracked}

\* ReferenceCounted::refCount: the references and the one of freeObjects.
RefCount(o) == Cardinality(References(o)) + (IF held = o THEN 1 ELSE 0)

\* A set of objects nothing outside of it refers to; the largest such set is
\* what the program has lost, and the part of it this generation can know of.
Closed(G)    == \A o \in G : \A s \in References(o) : owner[s] \in G
Garbage      == UNION {G \in SUBSET Alive : Closed(G)}
YoungGarbage == UNION {G \in SUBSET Tracked : Closed(G)}

\* The node of list l that follows rank n, its own node if there is none:
\* _head.next and p->next.
After(l, n)    == {o \in On(l) : rank[o] > n}
NextAfter(l, n) == IF After(l, n) = {} THEN Head
                  ELSE CHOOSE o \in After(l, n) : \A r \in After(l, n) : rank[o] <= rank[r]
First(l)       == NextAfter(l, 0)
Following(o)   == NextAfter(list[o], rank[o])

\* append(remove(o), head): o becomes the last node of list l.
MoveTo(o, l) == /\ list' = [list EXCEPT ![o] = l]
                /\ rank' = [r \in Objects |-> IF r = o THEN N
                                             ELSE IF rank[r] > rank[o] THEN rank[r] - 1
                                             ELSE rank[r]]

\* The child referenceTraverse visits next.
IsNext(s) == s \in todo /\ \A r \in todo : s <= r

-----------------------------------------------------------------------------
Init == /\ owner \in [Slots -> Objects \cup {Root, Free}]
        /\ target \in [Slots -> Objects]
        /\ list \in [Objects -> {"head", "old"}]
        /\ rank = [o \in Objects |-> o]
        /\ ref = [o \in Objects |-> Reachable]
        /\ phase = "count"
        /\ p = Head
        /\ todo = {}
        /\ held = None
        /\ sound = FALSE
        /\ \A o \in Objects : References(o) # {}

\* markObjects, first loop: every ref becomes the reference count.
CountAll ==
  /\ phase = "count"
  /\ ref' = [o \in Objects |-> IF list[o] = "head" THEN RefCount(o) ELSE ref[o]]
  /\ phase' = "subtract"
  /\ p' = First("head")
  /\ UNCHANGED <<heap, lists, todo, held, sound>>

\* Second loop: the references the list's own objects hold are subtracted.
SubtractNode ==
  /\ phase = "subtract" /\ todo = {} /\ p # Head
  /\ todo' = HeldBy(p)
  /\ p' = Following(p)
  /\ UNCHANGED <<heap, lists, ref, phase, held, sound>>

SubtractAlways(s) ==      \* mutant: without the test of ref > 0
  /\ phase = "subtract" /\ IsNext(s)
  /\ ref' = [ref EXCEPT ![target[s]] = ref[target[s]] - 1]
  /\ todo' = todo \ {s}
  /\ UNCHANGED <<heap, lists, phase, p, held, sound>>

SubtractOnce(s) ==        \* mutant: one subtraction per object, not per reference
  /\ phase = "subtract" /\ IsNext(s)
  /\ ref' = IF \A r \in todo \ {s} : target[r] # target[s]
            THEN [ref EXCEPT ![target[s]] = IF ref[target[s]] > 0 THEN @ - 1 ELSE @]
            ELSE ref
  /\ todo' = todo \ {s}
  /\ UNCHANGED <<heap, lists, phase, p, held, sound>>

SubtractChild(s) ==
  /\ phase = "subtract" /\ IsNext(s)
  /\ ref' = IF ref[target[s]] > 0
            THEN [ref EXCEPT ![target[s]] = ref[target[s]] - 1]
            ELSE ref
  /\ todo' = todo \ {s}
  /\ UNCHANGED <<heap, lists, phase, p, held, sound>>

SubtractEnd ==
  /\ phase = "subtract" /\ todo = {} /\ p = Head
  /\ phase' = "move"
  /\ p' = First("head")
  /\ UNCHANGED <<heap, lists, ref, todo, held, sound>>

\* Third loop: p has moved on when q is looked at.  A q nothing refers to from
\* outside goes to the other list, any other q is traversed.
MoveNode ==
  LET q == p IN
  /\ phase = "move" /\ todo = {} /\ q # Head
  /\ p' = Following(q)
  /\ IF ref[q] = 0
     THEN /\ MoveTo(q, "garbage")
          /\ ref' = [ref EXCEPT ![q] = Unreachable]
          /\ UNCHANGED todo
     ELSE /\ ref' = [ref EXCEPT ![q] = Reachable]
          /\ todo' = HeldBy(q)
          /\ UNCHANGED lists
  /\ UNCHANGED <<heap, phase, held, sound>>

\* moveReachable: a child the loop has not come to gets a dummy reference, one
\* that was moved away is moved back.
MoveChildNoReturn(s) ==   \* mutant: a child that was moved away stays there
  /\ phase = "move" /\ IsNext(s)
  /\ ref' = IF ref[target[s]] = 0 THEN [ref EXCEPT ![target[s]] = 1] ELSE ref
  /\ UNCHANGED lists
  /\ todo' = todo \ {s}
  /\ UNCHANGED <<heap, phase, p, held, sound>>

MoveChildNoDummy(s) ==    \* mutant: no dummy reference
  /\ phase = "move" /\ IsNext(s)
  /\ IF ref[target[s]] = Unreachable THEN MoveTo(target[s], "head") ELSE UNCHANGED lists
  /\ todo' = todo \ {s}
  /\ UNCHANGED <<heap, ref, phase, p, held, sound>>

MoveChild(s) ==
  /\ phase = "move" /\ IsNext(s)
  /\ ref' = IF ref[target[s]] = 0 THEN [ref EXCEPT ![target[s]] = 1] ELSE ref
  /\ IF ref[target[s]] = Unreachable THEN MoveTo(target[s], "head") ELSE UNCHANGED lists
  /\ todo' = todo \ {s}
  /\ UNCHANGED <<heap, phase, p, held, sound>>

MoveEnd ==
  /\ phase = "move" /\ todo = {} /\ p = Head
  /\ phase' = "free"
  /\ sound' = (On("garbage") \subseteq Garbage)
  /\ UNCHANGED <<heap, lists, ref, p, todo, held>>

\* freeObjects: the first object of the list is retained, ...
Retain ==
  /\ phase = "free" /\ On("garbage") # {}
  /\ p' = First("garbage")
  /\ held' = p'
  /\ todo' = HeldBy(p')
  /\ phase' = "clear"
  /\ UNCHANGED <<heap, lists, ref, sound>>

\* The last reference of an object is dropped: it is destroyed.  ~GCObject
\* takes it off its list, its members drop what they refer to.  All of this
\* happens inside the call that dropped the reference.
UnreferencedEarly == {o \in Alive : RefCount(o) <= 1}   \* mutant: off by one

Unreferenced == {o \in Alive : RefCount(o) = 0}

Destroy(o) ==
  /\ phase \in {"clear", "check"} /\ o \in Unreferenced
  /\ list' = [list EXCEPT ![o] = "gone"]
  /\ ref' = [ref EXCEPT ![o] = Untracked]
  /\ owner' = [s \in Slots |-> IF owner[s] = o THEN Free ELSE owner[s]]
  /\ UNCHANGED <<target, rank, phase, p, todo, held, sound>>

\* ... cleared by referenceClear, one reference after the other, ...
ClearChild(s) ==
  /\ phase = "clear" /\ Unreferenced = {} /\ IsNext(s)
  /\ owner' = [owner EXCEPT ![s] = Free]
  /\ todo' = todo \ {s}
  /\ UNCHANGED <<target, lists, ref, phase, p, held, sound>>

\* ... and released, ...
Release ==
  /\ phase = "clear" /\ Unreferenced = {} /\ todo = {}
  /\ held' = None
  /\ phase' = "check"
  /\ UNCHANGED <<heap, lists, ref, p, todo, sound>>

\* ... which destroys it or leaves it to be moved to the end of the list.
CheckStay ==              \* mutant: a survivor stays the first of the list
  /\ phase = "check" /\ Unreferenced = {}
  /\ phase' = "free"
  /\ p' = Head
  /\ UNCHANGED <<heap, lists, ref, todo, held, sound>>

Check ==
  /\ phase = "check" /\ Unreferenced = {}
  /\ phase' = "free"
  /\ p' = Head
  /\ IF list[p] = "garbage" THEN MoveTo(p, "garbage") ELSE UNCHANGED lists
  /\ UNCHANGED <<heap, ref, todo, held, sound>>

Return ==
  /\ phase = "free" /\ On("garbage") = {}
  /\ phase' = "done"
  /\ UNCHANGED <<heap, lists, ref, p, todo, held, sound>>

Mark == \/ CountAll \/ SubtractNode \/ SubtractEnd \/ MoveNode \/ MoveEnd
        \/ \E s \in Slots : SubtractChild(s) \/ MoveChild(s)

FreeObjects == \/ Retain \/ Release \/ Check \/ Return
               \/ \E o \in Objects : Destroy(o)
               \/ \E s \in Slots : ClearChild(s)

Next == Mark \/ FreeObjects

\* The collector is one thread that runs until collect returns.
Spec == Init /\ [][Next]_vars /\ WF_vars(Next)

-----------------------------------------------------------------------------
Phases == {"count", "subtract", "move", "free", "clear", "check", "done"}

TypeOK == /\ owner \in [Slots -> Objects \cup {Root, Free}]
          /\ target \in [Slots -> Objects]
          /\ list \in [Objects -> {"head", "garbage", "old", "gone"}]
          /\ rank \in [Objects -> Objects]
          /\ ref \in [Objects -> Nat \cup {Untracked, Reachable, Unreachable}]
          /\ phase \in Phases
          /\ p \in Objects \cup {Head}
          /\ phase \in {"clear", "check"} => p \in Objects
          /\ todo \subseteq Slots
          /\ held \in Objects \cup {None}
          /\ sound \in BOOLEAN

Subtracted == phase = "subtract" /\ todo = {} /\ p = Head
Marked     == phase = "move" /\ todo = {} /\ p = Head

\* The subtraction leaves in every ref of the list exactly the references that
\* come from elsewhere; in particular it never stops at zero too early.
SubtractExact ==
  Subtracted => \A o \in On("head") : ref[o] = Cardinality(External(o))

\* Whatever is referred to from elsewhere is never singled out, and neither is
\* a child of an object that has been traversed.
ScannedKept ==
  phase = "move" =>
    \A s \in Slots :
      /\ owner[s] # Free /\ External(target[s]) # {} => list[target[s]] # "garbage"
      /\ owner[s] \in On("head") /\ ref[owner[s]] = Reachable /\ s \notin todo
         => list[target[s]] # "garbage"

\* The objects of the list that are reached from elsewhere along references
\* that lead down the list, as the objects were tracked.
ForwardReached ==
  LET Missed(G) == \A o \in G : /\ External(o) = {}
                                /\ \A s \in References(o) : owner[s] \in G \/ owner[s] > o
  IN Tracked \ UNION {G \in SUBSET Tracked : Missed(G)}

\* They survive, and so does what they refer to, in any direction.
ForwardKept ==
  Marked => \A s \in Slots :
              owner[s] \in ForwardReached => list[target[s]] # "garbage"

\* Everything the program has lost in this generation is singled out.
GarbageFound == Marked => YoungGarbage \subseteq On("garbage")

\* When only garbage has been singled out, all of it is destroyed and the
\* collection ends, whatever the objects refer to among each other.
SingledOutDies ==
  /\ \A o \in Objects : sound /\ list[o] = "garbage" ~> list[o] = "gone"
  /\ sound ~> phase = "done"

\* An object that is still alive after its references were cleared is referred
\* to by an object that is itself about to be collected: the comment of
\* freeObjects.
StillAliveIsDoomed ==
  phase = "check" /\ Unreferenced = {} /\ list[p] = "garbage" =>
    \E s \in References(p) : owner[s] \in On("garbage")

-----------------------------------------------------------------------------
Abstract == INSTANCE Collector WITH alive <- Alive

\* As long as marking singles out garbage only, a collection does nothing to
\* the heap but what a garbage collector may do.
OnlyGarbageReclaimed == [][sound => Abstract!Next]_(Abstract!heap)
=============================================================================
