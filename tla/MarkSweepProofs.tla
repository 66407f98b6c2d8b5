--------------------------- MODULE MarkSweepProofs ---------------------------
(***************************************************************************)
(* One collection on every heap, of any number of objects and references:  *)
(* the subtraction computes the external references exactly; nothing that  *)
(* is referred to from outside, by an object that has been traversed, or   *)
(* by references that lead down the list is singled out; everything that   *)
(* is lost is; and the steps of the collection, down to the destruction of *)
(* each object, are steps of the abstract Collector.                       *)
(***************************************************************************)
EXTENDS MarkSweep, FiniteSetTheorems, WellFoundedInduction, TLAPS

-----------------------------------------------------------------------------
(* The nodes of a list. *)

LEMMA RankTyped ==
  ASSUME TypeOK, NEW o \in Objects
  PROVE  rank[o] \in Objects /\ rank[o] \in Nat /\ 1 <= rank[o] /\ rank[o] <= N
<1>1. rank[o] \in Objects
  BY DEF TypeOK
<1> QED
  BY <1>1, SizesAssumption DEF Objects

\* A set of objects has one of least rank.
LEMMA LeastRank ==
  ASSUME TypeOK, NEW S \in SUBSET Objects, S # {}
  PROVE  \E o \in S : \A r \in S : rank[o] <= rank[r]
<1> DEFINE T == {rank[o] : o \in S}
<1>a. \A o \in S : rank[o] \in Nat
  BY RankTyped
<1>1. T \subseteq Nat /\ T # {}
  BY <1>a
<1>2. PICK x \in T : \A y \in T : ~ (<<y, x>> \in OpToRel(<, Nat))
  BY <1>1, NatLessThanWellFounded, WFMin, Zenon
<1>3. \A y \in T : ~(y < x)
  BY <1>1, <1>2 DEF OpToRel
<1>4. PICK o \in S : rank[o] = x
  OBVIOUS
<1>5. \A r \in S : ~(rank[r] < rank[o])
  BY <1>3, <1>4
<1> QED
  BY <1>a, <1>5

\* NextAfter finds the node that follows, and only ends the traversal when
\* there is none.
LEMMA NextAfterIsNext ==
  ASSUME TypeOK, NEW l, NEW n \in Int
  PROVE  /\ NextAfter(l, n) \in Objects \cup {Head}
         /\ NextAfter(l, n) = Head => After(l, n) = {}
         /\ NextAfter(l, n) # Head =>
              /\ NextAfter(l, n) \in After(l, n)
              /\ \A r \in After(l, n) : rank[NextAfter(l, n)] <= rank[r]
<1>1. After(l, n) \in SUBSET Objects
  BY DEF After, On
<1>2. CASE After(l, n) = {}
  BY <1>2 DEF NextAfter
<1>3. CASE After(l, n) # {}
  <2>1. \E o \in After(l, n) : \A r \in After(l, n) : rank[o] <= rank[r]
    BY <1>1, <1>3, LeastRank
  <2>2. NextAfter(l, n) \in After(l, n) /\ \A r \in After(l, n) : rank[NextAfter(l, n)] <= rank[r]
    BY <1>3, <2>1 DEF NextAfter
  <2>3. Head \notin Objects
    BY DEF Head, Objects
  <2> QED
    BY <1>1, <2>2, <2>3
<1> QED
  BY <1>2, <1>3

LEMMA MoveToTyped ==
  ASSUME TypeOK, NEW o \in Objects, NEW l \in {"head", "garbage"}, MoveTo(o, l)
  PROVE  /\ list' \in [Objects -> {"head", "garbage", "old", "gone"}]
         /\ rank' \in [Objects -> Objects]
<1>1. ASSUME NEW r \in Objects
      PROVE  (IF r = o THEN N ELSE IF rank[r] > rank[o] THEN rank[r] - 1 ELSE rank[r]) \in Objects
  <2>1. /\ rank[r] \in Nat /\ 1 <= rank[r] /\ rank[r] <= N
        /\ rank[o] \in Nat /\ 1 <= rank[o] /\ rank[o] <= N
    BY RankTyped
  <2> QED
    BY <2>1, SizesAssumption DEF Objects
<1> QED
  BY <1>1 DEF MoveTo, TypeOK

LEMMA HeldByTyped == \A o : HeldBy(o) \subseteq Slots
BY DEF HeldBy

LEMMA RefCountTyped ==
  ASSUME NEW o \in Objects
  PROVE  RefCount(o) \in Nat
<1>1. IsFiniteSet(Slots)
  BY FS_Interval, SizesAssumption DEF Slots
<1>2. References(o) \in SUBSET Slots
  BY DEF References
<1>3. Cardinality(References(o)) \in Nat
  BY <1>1, <1>2, FS_Subset, FS_CardinalityType
<1> QED
  BY <1>3 DEF RefCount

\* Type correctness, over the whole collection.
THEOREM TypeCorrect == Spec => []TypeOK
<1>1. Init => TypeOK
  <2> SUFFICES ASSUME Init PROVE TypeOK
    OBVIOUS
  <2>1. rank \in [Objects -> Objects]
    BY DEF Init
  <2>2. ref \in [Objects -> Nat \cup {Untracked, Reachable, Unreachable}]
    BY DEF Init
  <2> QED
    BY <2>1, <2>2 DEF Init, TypeOK, Phases
<1>2. TypeOK /\ [Next]_vars => TypeOK'
  <2> SUFFICES ASSUME TypeOK, [Next]_vars PROVE TypeOK'
    OBVIOUS
  <2> USE DEF Phases
  <2>1. CASE CountAll
    <3>1. ref' \in [Objects -> Nat \cup {Untracked, Reachable, Unreachable}]
      BY <2>1, RefCountTyped DEF CountAll, TypeOK
    <3>2. p' \in Objects \cup {Head}
      BY <2>1, NextAfterIsNext DEF CountAll, First
    <3> QED
      BY <2>1, <3>1, <3>2 DEF CountAll, TypeOK, heap, lists
  <2>2. CASE SubtractNode
    <3>1. p \in Objects /\ rank[p] \in Int
      BY <2>2 DEF SubtractNode, TypeOK, Objects
    <3>2. p' \in Objects \cup {Head}
      BY <2>2, <3>1, NextAfterIsNext DEF SubtractNode, Following
    <3> QED
      BY <2>2, <3>2, HeldByTyped DEF SubtractNode, TypeOK, heap, lists
  <2>3. CASE SubtractEnd
    <3>1. p' \in Objects \cup {Head}
      BY <2>3, NextAfterIsNext DEF SubtractEnd, First
    <3> QED
      BY <2>3, <3>1 DEF SubtractEnd, TypeOK, heap, lists
  <2>4. CASE MoveNode
    <3>1. p \in Objects /\ rank[p] \in Int
      BY <2>4 DEF MoveNode, TypeOK, Objects
    <3>2. p' \in Objects \cup {Head}
      BY <2>4, <3>1, NextAfterIsNext DEF MoveNode, Following
    <3>3. /\ list' \in [Objects -> {"head", "garbage", "old", "gone"}]
          /\ rank' \in [Objects -> Objects]
      BY <2>4, <3>1, MoveToTyped DEF MoveNode, TypeOK, lists
    <3>4. ref' \in [Objects -> Nat \cup {Untracked, Reachable, Unreachable}] /\ todo' \subseteq Slots
      BY <2>4, HeldByTyped DEF MoveNode, TypeOK
    <3> QED
      BY <2>4, <3>2, <3>3, <3>4 DEF MoveNode, TypeOK, heap
  <2>5. CASE MoveEnd
    BY <2>5 DEF MoveEnd, TypeOK, heap, lists
  <2>6. ASSUME NEW s \in Slots, SubtractChild(s) PROVE TypeOK'
    <3>1. ref' \in [Objects -> Nat \cup {Untracked, Reachable, Unreachable}]
      <4>1. target[s] \in Objects
        BY DEF TypeOK
      <4>2. ref[target[s]] > 0 => ref[target[s]] - 1 \in Nat
        BY <4>1 DEF TypeOK, Untracked, Reachable, Unreachable
      <4> QED
        BY <2>6, <4>1, <4>2 DEF SubtractChild, TypeOK
    <3> QED
      BY <2>6, <3>1 DEF SubtractChild, TypeOK, heap, lists
  <2>7. ASSUME NEW s \in Slots, MoveChild(s) PROVE TypeOK'
    <3>1. target[s] \in Objects
      BY DEF TypeOK
    <3>2. /\ list' \in [Objects -> {"head", "garbage", "old", "gone"}]
          /\ rank' \in [Objects -> Objects]
      BY <2>7, <3>1, MoveToTyped DEF MoveChild, TypeOK, lists
    <3> QED
      BY <2>7, <3>1, <3>2 DEF MoveChild, TypeOK, heap
  <2>8. CASE Retain
    <3>1. p' \in Objects
      <4>1. After("garbage", 0) # {}
        BY <2>8 DEF Retain, After, On, TypeOK, Objects
      <4> QED
        BY <2>8, <4>1, NextAfterIsNext DEF Retain, First
    <3> QED
      BY <2>8, <3>1, HeldByTyped DEF Retain, TypeOK, heap, lists
  <2>9. CASE Release
    BY <2>9 DEF Release, TypeOK, heap, lists
  <2>10. CASE Check
    <3>1. /\ list' \in [Objects -> {"head", "garbage", "old", "gone"}]
          /\ rank' \in [Objects -> Objects]
      BY <2>10, MoveToTyped DEF Check, TypeOK, lists
    <3> QED
      BY <2>10, <3>1 DEF Check, TypeOK, heap
  <2>11. CASE Return
    BY <2>11 DEF Return, TypeOK, heap, lists
  <2>12. ASSUME NEW o \in Objects, Destroy(o) PROVE TypeOK'
    BY <2>12 DEF Destroy, TypeOK
  <2>13. ASSUME NEW s \in Slots, ClearChild(s) PROVE TypeOK'
    BY <2>13 DEF ClearChild, TypeOK, lists
  <2>14. CASE UNCHANGED vars
    BY <2>14 DEF vars, TypeOK
  <2> QED
    BY <2>1, <2>2, <2>3, <2>4, <2>5, <2>6, <2>7, <2>8, <2>9, <2>10, <2>11, <2>12, <2>13, <2>14
    DEF Next, Mark, FreeObjects
<1> QED
  BY <1>1, <1>2, PTL DEF Spec

-----------------------------------------------------------------------------
(* The subtraction. *)

\* The nodes the second loop has gone past, and the references it has
\* subtracted.
Passed(o) == o \in On("head") /\ (p = Head \/ o < p)
Visited   == {s \in Slots : owner[s] \in Objects /\ Passed(owner[s]) /\ s \notin todo}

\* Until the objects are moved the lists are as they were, and every ref is
\* what is left of the reference count.
Unmoved == /\ \A o \in Objects : list[o] \in {"head", "old"}
           /\ \A o \in Objects : list[o] = "old" => ref[o] = Reachable
           /\ rank = [o \in Objects |-> o]
           /\ held = None

SubtractInv ==
  /\ phase = "count" => todo = {} /\ Unmoved
  /\ phase = "subtract" =>
       /\ Unmoved
       /\ p = Head \/ p \in On("head")
       /\ \A s \in todo : owner[s] \in Objects /\ Passed(owner[s])
       /\ \A o \in On("head") : ref[o] = Cardinality(References(o) \ Visited)

LEMMA SlotsFinite ==
  ASSUME NEW S \in SUBSET Slots
  PROVE  /\ IsFiniteSet(S)
         /\ Cardinality(S) \in Nat
         /\ Cardinality(S) = 0 <=> S = {}
<1>1. IsFiniteSet(Slots)
  BY FS_Interval, SizesAssumption DEF Slots
<1> QED
  BY <1>1, FS_Subset, FS_CardinalityType, FS_EmptySet

LEMMA SubtractInvStep == TypeOK /\ SubtractInv /\ [Next]_vars => SubtractInv'
<1> SUFFICES ASSUME TypeOK, SubtractInv, [Next]_vars PROVE SubtractInv'
  OBVIOUS
<1>h. Head \notin Objects
  BY DEF Head, Objects
<1>1. CASE CountAll
  <2>1. phase' = "subtract" /\ Unmoved /\ todo' = {} /\ UNCHANGED <<owner, target, list, rank, held>>
    BY <1>1 DEF CountAll, SubtractInv, heap, lists
  <2>2. Unmoved'
    BY <1>1, <2>1 DEF CountAll, Unmoved, TypeOK
  <2>3. p' = Head \/ p' \in On("head")'
    BY <1>1, <2>1, NextAfterIsNext DEF CountAll, First, After, On
  <2>4. ASSUME NEW o \in On("head")' PROVE ref'[o] = Cardinality(References(o) \ Visited)'
    <3>1. o \in Objects /\ list[o] = "head"
      BY <2>1 DEF On
    <3>2. ref'[o] = Cardinality(References(o))
      <4>1. held # o
        BY <2>1, <3>1 DEF Unmoved, None, Objects
      <4>2. RefCount(o) = Cardinality(References(o))
        BY <4>1, <3>1, SlotsFinite DEF RefCount, References
      <4> QED
        BY <1>1, <3>1, <4>2 DEF CountAll
    <3>3. Visited' = {}
      <4> SUFFICES ASSUME NEW s \in Slots, owner[s] \in Objects, Passed(owner[s])' PROVE FALSE
        BY <2>1 DEF Visited
      <4> DEFINE r == owner[s]
      <4>1. r \in Objects /\ list[r] = "head" /\ rank[r] = r /\ r > 0
        BY <2>1 DEF Passed, On, Unmoved, Objects
      <4>2. r \in After("head", 0)
        BY <4>1 DEF After, On
      <4>3. p' # Head /\ p' \in Objects /\ rank[p'] <= rank[r]
        BY <1>1, <4>2, NextAfterIsNext DEF CountAll, First, After, On
      <4>4. r < p' /\ rank[p'] = p'
        BY <4>3, <2>1 DEF Passed, Unmoved
      <4> QED
        BY <4>1, <4>3, <4>4 DEF Objects
    <3> QED
      BY <2>1, <3>2, <3>3 DEF References
  <2> QED
    BY <2>1, <2>2, <2>3, <2>4 DEF SubtractInv
<1>2. CASE SubtractNode
  <2>1. /\ phase = "subtract" /\ phase' = phase /\ todo = {} /\ todo' = HeldBy(p)
        /\ p \in Objects /\ list[p] = "head" /\ p' = NextAfter("head", p)
        /\ UNCHANGED <<owner, target, list, rank, held, ref>>
    BY <1>2 DEF SubtractNode, SubtractInv, On, Following, Unmoved, heap, lists, TypeOK
  <2>2. Unmoved /\ Unmoved'
    BY <2>1 DEF SubtractInv, Unmoved
  <2>3. p' = Head \/ p' \in On("head")'
    BY <2>1, NextAfterIsNext DEF After, On, Objects
  <2>4. \A o \in Objects : Passed(o)' <=> Passed(o) \/ o = p
    <3> SUFFICES ASSUME NEW o \in Objects, list[o] = "head"
                 PROVE  (p' = Head \/ o < p') <=> (p = Head \/ o < p \/ o = p)
      BY <2>1 DEF Passed, On
    <3>1. rank[o] = o /\ rank[p] = p /\ p \in Int /\ o \in Int
      BY <2>1, <2>2 DEF Unmoved, Objects
    <3>2. CASE o > p
      <4>1. o \in After("head", p)
        BY <3>1, <3>2 DEF After, On
      <4>2. p' # Head /\ p' \in Objects /\ rank[p'] <= o
        BY <2>1, <3>1, <4>1, NextAfterIsNext DEF After, On
      <4>3. rank[p'] = p' /\ p' \in Int
        BY <2>2, <4>2 DEF Unmoved, Objects
      <4> QED
        BY <2>1, <1>h, <3>1, <3>2, <4>2, <4>3
    <3>3. CASE o <= p
      <4>1. p' = Head \/ p' \in After("head", p)
        BY <2>1, <3>1, NextAfterIsNext
      <4>2. p' = Head \/ (p' > p /\ p' \in Int)
        BY <4>1, <2>2 DEF After, On, Unmoved, Objects
      <4> QED
        BY <3>1, <3>3, <4>2
    <3> QED
      BY <3>1, <3>2, <3>3
  <2>5. Visited' = Visited
    <3>1. ~Passed(p)
      BY <2>1, <1>h DEF Passed, Objects
    <3>2. \A s \in Slots : owner[s] \in Objects =>
            (Passed(owner[s])' /\ owner[s] # p <=> Passed(owner[s]))
      BY <2>1, <2>4, <3>1 DEF Passed
    <3> QED
      BY <2>1, <3>2 DEF Visited, HeldBy
  <2>6. \A s \in todo' : owner'[s] \in Objects /\ Passed(owner[s])'
    BY <2>1, <2>4 DEF HeldBy
  <2> QED
    BY <2>1, <2>2, <2>3, <2>5, <2>6 DEF SubtractInv, On, References
<1>3. ASSUME NEW s \in Slots, SubtractChild(s) PROVE SubtractInv'
  <2>1. /\ phase = "subtract" /\ phase' = phase /\ s \in todo /\ todo' = todo \ {s}
        /\ UNCHANGED <<owner, target, list, rank, held, p>>
    BY <1>3 DEF SubtractChild, IsNext, heap, lists
  <2>2. Unmoved /\ owner[s] \in Objects /\ Passed(owner[s]) /\ target[s] \in Objects
    BY <2>1 DEF SubtractInv, TypeOK
  <2>3. Visited' = Visited \cup {s} /\ s \notin Visited
    BY <2>1, <2>2 DEF Visited, Passed, On
  <2>4. \A o \in Objects : References(o)' = References(o)
    BY <2>1 DEF References
  <2>5. \A o \in On("head") : ref[o] = Cardinality(References(o) \ Visited)
    BY <2>1 DEF SubtractInv
  <2>6. ASSUME NEW o \in On("head") PROVE ref'[o] = Cardinality(References(o) \ Visited)'
    <3>0. o \in Objects /\ References(o) \in SUBSET Slots
      BY DEF On, References
    <3>1. CASE o = target[s]
      <4>1. s \in References(o) \ Visited
        BY <2>2, <2>3, <3>1 DEF References, Free, Objects
      <4>2. IsFiniteSet(References(o) \ Visited) /\ Cardinality(References(o) \ Visited) \in Nat
            /\ Cardinality(References(o) \ Visited) # 0
        BY <3>0, <4>1, SlotsFinite
      <4>3. (References(o) \ Visited)' = (References(o) \ Visited) \ {s}
        BY <2>3, <2>4, <3>0
      <4>4. Cardinality(References(o) \ Visited)' = Cardinality(References(o) \ Visited) - 1
        BY <4>1, <4>2, <4>3, FS_RemoveElement
      <4>5. ref[o] > 0 /\ ref[o] = Cardinality(References(o) \ Visited)
        BY <2>5, <4>2
      <4>6. ref'[o] = ref[o] - 1
        BY <1>3, <3>0, <3>1, <4>5 DEF SubtractChild, TypeOK
      <4> QED
        BY <4>4, <4>5, <4>6
    <3>2. CASE o # target[s]
      <4>1. (References(o) \ Visited)' = References(o) \ Visited
        BY <2>3, <2>4, <3>0, <3>2 DEF References
      <4>2. ref'[o] = ref[o]
        BY <1>3, <2>2, <3>0, <3>2 DEF SubtractChild, TypeOK
      <4> QED
        BY <4>1, <4>2, <2>5
    <3> QED
      BY <3>1, <3>2
  <2>7. Unmoved'
    <3>1. ASSUME NEW o \in Objects, list[o] = "old" PROVE ref'[o] = Reachable
      <4>1. ref[o] = Reachable /\ ~(ref[o] > 0)
        BY <2>2, <3>1 DEF Unmoved, Reachable
      <4> QED
        BY <1>3, <2>2, <4>1 DEF SubtractChild, TypeOK
    <3> QED
      BY <2>1, <2>2, <3>1 DEF Unmoved
  <2> QED
    BY <2>1, <2>6, <2>7 DEF SubtractInv, On, Passed
<1>4. CASE phase' \notin {"count", "subtract"}
  BY <1>4 DEF SubtractInv
<1>5. CASE UNCHANGED vars
  BY <1>5 DEF vars, SubtractInv, Unmoved, Passed, Visited, On, References
<1>6. ASSUME NEW o \in Objects, Destroy(o) PROVE SubtractInv'
  BY <1>4, <1>6 DEF Destroy
<1> QED
  BY <1>1, <1>2, <1>3, <1>4, <1>5, <1>6
  DEF Next, Mark, FreeObjects, SubtractEnd, MoveNode, MoveEnd, MoveChild,
      Retain, Release, Check, Return, ClearChild

LEMMA SubtractInvInit == Init => SubtractInv
BY DEF Init, SubtractInv, Unmoved

\* At the end of the second loop the references that are left are those of the
\* objects that are not collected.
LEMMA SubtractedIsExact == TypeOK /\ SubtractInv => SubtractExact
<1> SUFFICES ASSUME TypeOK, SubtractInv, Subtracted, NEW o \in On("head")
             PROVE  ref[o] = Cardinality(External(o))
  BY DEF SubtractExact
<1>1. Unmoved /\ p = Head /\ todo = {}
  BY DEF Subtracted, SubtractInv
<1>2. Tracked = On("head")
  BY <1>1 DEF Tracked, On, Unmoved
<1>3. References(o) \ Visited = External(o)
  BY <1>1, <1>2 DEF Visited, External, Passed, References, On
<1> QED
  BY <1>3 DEF Subtracted, SubtractInv

\* The subtraction is exact on every heap: no guard of it cuts a count short,
\* whatever the objects hold and how often they hold it.
THEOREM SubtractCorrect == Spec => []SubtractExact
<1>1. Spec => []SubtractInv
  BY SubtractInvInit, SubtractInvStep, TypeCorrect, PTL DEF Spec
<1> QED
  BY <1>1, SubtractedIsExact, TypeCorrect, PTL

-----------------------------------------------------------------------------
(* The third loop. *)

\* An object that is referred to from elsewhere keeps a reference count that is
\* not zero; whatever a traversed object refers to stays on the list with one;
\* what was moved away is marked so that a later traversal finds it.
MoveInv ==
  phase = "move" =>
    /\ \A o \in Objects : list[o] \in {"head", "garbage", "old"}
    /\ \A o \in Objects : list[o] = "old" => ref[o] = Reachable
    /\ p = Head \/ p \in On("head")
    /\ \A o \in On("garbage") : ref[o] = Unreachable
    /\ \A o \in Tracked : External(o) # {} => list[o] = "head" /\ ref[o] # 0
    /\ \A s \in Slots : owner[s] \in On("head") /\ ref[owner[s]] = Reachable /\ s \notin todo
         => list[target[s]] # "garbage" /\ ref[target[s]] # 0

LEMMA MoveInvStep == TypeOK /\ SubtractInv /\ MoveInv /\ [Next]_vars => MoveInv'
<1> SUFFICES ASSUME TypeOK, SubtractInv, MoveInv, [Next]_vars PROVE MoveInv'
  OBVIOUS
<1>h. Head \notin Objects
  BY DEF Head, Objects
<1>1. CASE SubtractEnd
  <2>1. /\ Unmoved /\ Subtracted /\ todo' = {}
        /\ UNCHANGED <<owner, target, list, rank, ref>>
    BY <1>1 DEF SubtractEnd, Subtracted, SubtractInv, heap, lists
  <2>2. \A o \in On("head") : ref[o] = Cardinality(External(o))
    BY <2>1, SubtractedIsExact DEF SubtractExact
  <2>3. \A o \in Objects : External(o) \in SUBSET Slots
    BY DEF External, References
  <2>4. \A o \in On("head") : ref[o] \in Nat /\ (ref[o] = 0 <=> External(o) = {})
    BY <2>2, <2>3, SlotsFinite DEF On
  <2>5. p' = Head \/ p' \in On("head")
    BY <1>1, NextAfterIsNext DEF SubtractEnd, First, After, On
  <2>6. Tracked = On("head") /\ On("garbage") = {}
    BY <2>1 DEF Tracked, On, Unmoved
  <2>7. \A o \in On("head") : ref[o] # Reachable
    BY <2>4 DEF Reachable
  <2>8. \A o : External(o)' = External(o) /\ On("head")' = On("head") /\ On("garbage")' = On("garbage")
    BY <2>1 DEF External, References, Tracked, On
  <2> QED
    BY <2>1, <2>4, <2>5, <2>6, <2>7, <2>8 DEF MoveInv, Unmoved, Tracked, On
<1>2. CASE MoveNode
  <2>1. /\ phase = "move" /\ phase' = "move" /\ todo = {} /\ p \in Objects /\ list[p] = "head"
        /\ UNCHANGED <<owner, target>>
    BY <1>2 DEF MoveNode, MoveInv, TypeOK, On, heap
  <2>2. p' = NextAfter("head", rank[p]) /\ rank[p] \in Int
    BY <1>2, <2>1, RankTyped DEF MoveNode, Following
  <2>3. p' = Head \/ (p' \in On("head") /\ p' # p)
    BY <2>1, <2>2, NextAfterIsNext DEF After, On
  <2>4. CASE ref[p] = 0
    <3>1. /\ list' = [list EXCEPT ![p] = "garbage"]
          /\ ref' = [ref EXCEPT ![p] = Unreachable] /\ todo' = {}
      BY <1>2, <2>1, <2>4 DEF MoveNode, MoveTo
    <3>2. Tracked' = Tracked /\ \A o : External(o)' = External(o)
      BY <2>1, <3>1 DEF Tracked, On, External, References, TypeOK
    <3>3. External(p) = {}
      BY <2>1, <2>4 DEF MoveInv, Tracked, On
    <3>4. \A s \in Slots : owner[s] \in On("head") /\ ref[owner[s]] = Reachable => target[s] # p
      BY <2>1, <2>4 DEF MoveInv
    <3>5. p' = Head \/ p' \in On("head")'
      BY <2>3, <3>1 DEF On, TypeOK
    <3>6. \A o \in On("garbage")' : ref'[o] = Unreachable
      BY <2>1, <3>1 DEF On, TypeOK, MoveInv
    <3>7. \A o \in Tracked : External(o) # {} => list'[o] = "head" /\ ref'[o] # 0
      BY <2>1, <3>1, <3>3 DEF MoveInv, TypeOK, Tracked, On
    <3>8. ASSUME NEW s \in Slots, owner[s] \in On("head")', ref'[owner[s]] = Reachable
          PROVE  list'[target[s]] # "garbage" /\ ref'[target[s]] # 0
      <4>1. owner[s] \in On("head") /\ owner[s] # p /\ ref[owner[s]] = Reachable
        BY <3>1, <3>8, <2>1 DEF On, TypeOK
      <4>2. target[s] # p /\ target[s] \in Objects
        BY <3>4, <4>1 DEF TypeOK
      <4> QED
        BY <2>1, <3>1, <4>1, <4>2 DEF MoveInv, TypeOK
    <3> QED
      BY <2>1, <3>1, <3>2, <3>5, <3>6, <3>7, <3>8 DEF MoveInv, TypeOK
  <2>5. CASE ref[p] # 0
    <3>1. /\ UNCHANGED list /\ todo' = HeldBy(p)
          /\ ref' = [ref EXCEPT ![p] = Reachable]
      BY <1>2, <2>1, <2>5 DEF MoveNode, lists
    <3>2. Tracked' = Tracked /\ On("head")' = On("head") /\ On("garbage")' = On("garbage")
          /\ \A o : External(o)' = External(o)
      BY <2>1, <3>1 DEF Tracked, On, External, References
    <3>3. Reachable # 0
      BY DEF Reachable
    <3>4. ASSUME NEW s \in Slots, owner[s] \in On("head"), ref'[owner[s]] = Reachable, s \notin todo'
          PROVE  list[target[s]] # "garbage" /\ ref'[target[s]] # 0
      <4>1. owner[s] # p /\ ref[owner[s]] = Reachable
        BY <3>1, <3>4 DEF HeldBy, On, TypeOK
      <4> QED
        BY <2>1, <3>1, <3>3, <3>4, <4>1 DEF MoveInv, TypeOK
    <3>5. \A o \in On("garbage") : ref'[o] = Unreachable
      BY <2>1, <3>1 DEF MoveInv, TypeOK, On
    <3>6. \A o \in Tracked : External(o) # {} => list[o] = "head" /\ ref'[o] # 0
      BY <2>1, <3>1, <3>3 DEF MoveInv, TypeOK, Tracked, On
    <3> QED
      BY <2>1, <2>3, <3>1, <3>2, <3>4, <3>5, <3>6 DEF MoveInv, TypeOK
  <2> QED
    BY <2>4, <2>5
<1>3. ASSUME NEW s \in Slots, MoveChild(s) PROVE MoveInv'
  <2> DEFINE c == target[s]
  <2>1. /\ phase = "move" /\ phase' = "move" /\ todo' = todo \ {s} /\ c \in Objects
        /\ UNCHANGED <<owner, target, p>>
    BY <1>3 DEF MoveChild, TypeOK, heap
  <2>2. ref' = IF ref[c] = 0 THEN [ref EXCEPT ![c] = 1] ELSE ref
    BY <1>3 DEF MoveChild
  <2>3. list' = IF ref[c] = Unreachable THEN [list EXCEPT ![c] = "head"] ELSE list
    BY <1>3 DEF MoveChild, MoveTo, lists
  <2>4. list[c] \in {"head", "garbage", "old"} /\ (list[c] = "old" => ref[c] # Unreachable)
        /\ (list[c] = "old" => ref[c] # 0)
    BY <2>1 DEF MoveInv, Reachable, Unreachable
  <2>5. list[c] = "garbage" => ref[c] = Unreachable
    BY <2>1 DEF MoveInv, On
  <2>6. list'[c] # "garbage" /\ ref'[c] # 0
    BY <2>1, <2>2, <2>3, <2>5 DEF TypeOK, Unreachable
  <2>7. \A o \in Objects : o # c => list'[o] = list[o] /\ ref'[o] = ref[o]
    BY <2>1, <2>2, <2>3 DEF TypeOK
  <2>8. Tracked' = Tracked
    BY <2>1, <2>3, <2>4 DEF Tracked, On, TypeOK
  <2>9. \A o : External(o)' = External(o)
    BY <2>1, <2>8 DEF External, References
  <2>10. \A o \in Objects : list[o] = "head" => list'[o] = "head"
    BY <2>1, <2>3 DEF TypeOK
  <2>11. \A o \in Objects : ref[o] # 0 => ref'[o] # 0 /\ (ref'[o] = Reachable => ref[o] = Reachable)
    BY <2>1, <2>2 DEF TypeOK
  <2>12. ref'[c] = Reachable => ref[c] = Reachable /\ list'[c] = list[c]
    BY <2>1, <2>2, <2>3 DEF TypeOK, Reachable, Unreachable
  <2>13. \A o \in Objects : list'[o] \in {"head", "garbage", "old"}
    BY <2>1, <2>3 DEF MoveInv, TypeOK
  <2>14. \A o \in Objects : list'[o] = "old" => ref'[o] = Reachable
    <3> SUFFICES ASSUME NEW o \in Objects, list'[o] = "old" PROVE ref'[o] = Reachable
      OBVIOUS
    <3>1. list[o] = "old"
      BY <2>1, <2>3 DEF TypeOK
    <3>2. ref[o] = Reachable
      BY <2>1, <3>1 DEF MoveInv
    <3> QED
      BY <2>1, <2>2, <3>2 DEF TypeOK, Reachable
  <2>15. p = Head \/ p \in On("head")'
    BY <2>1, <2>10 DEF MoveInv, On
  <2>16. \A o \in On("garbage")' : ref'[o] = Unreachable
    BY <2>1, <2>6, <2>7 DEF MoveInv, On
  <2>17. \A o \in Tracked : External(o) # {} => list'[o] = "head" /\ ref'[o] # 0
    BY <2>1, <2>10, <2>11 DEF MoveInv, Tracked, On
  <2>18. ASSUME NEW r \in Slots, owner[r] \in On("head")', ref'[owner[r]] = Reachable, r \notin todo'
         PROVE  list'[target[r]] # "garbage" /\ ref'[target[r]] # 0
    <3>1. CASE target[r] = c
      BY <2>6, <3>1
    <3>2. CASE target[r] # c
      <4>1. r # s /\ r \notin todo /\ target[r] \in Objects
        BY <2>1, <2>18, <3>2 DEF TypeOK
      <4>2. owner[r] \in Objects /\ ref[owner[r]] = Reachable /\ list[owner[r]] = "head"
        BY <2>7, <2>12, <2>18 DEF On
      <4>3. list[target[r]] # "garbage" /\ ref[target[r]] # 0
        BY <2>1, <4>1, <4>2 DEF MoveInv, On
      <4> QED
        BY <2>7, <3>2, <4>1, <4>3
    <3> QED
      BY <3>1, <3>2
  <2> QED
    BY <2>1, <2>8, <2>9, <2>13, <2>14, <2>15, <2>16, <2>17, <2>18 DEF MoveInv
<1>4. CASE phase' # "move"
  BY <1>4 DEF MoveInv
<1>5. CASE UNCHANGED vars
  BY <1>5 DEF vars, MoveInv, On, Tracked, External, References
<1> QED
  BY <1>1, <1>2, <1>3, <1>4, <1>5
  DEF Next, Mark, FreeObjects, CountAll, SubtractNode, SubtractChild, MoveEnd,
      Retain, Release, Check, Return, ClearChild, Destroy

LEMMA MoveInvKeeps == TypeOK /\ MoveInv => ScannedKept
<1> SUFFICES ASSUME TypeOK, MoveInv, phase = "move", NEW s \in Slots
             PROVE  /\ owner[s] # Free /\ External(target[s]) # {} => list[target[s]] # "garbage"
                    /\ owner[s] \in On("head") /\ ref[owner[s]] = Reachable /\ s \notin todo
                       => list[target[s]] # "garbage"
  BY DEF ScannedKept
<1>1. target[s] \in Objects
  BY DEF TypeOK
<1>2. list[target[s]] = "garbage" => target[s] \in Tracked
  BY <1>1 DEF Tracked, On
<1> QED
  BY <1>2 DEF MoveInv

\* On every heap, marking never singles out an object that is referred to from
\* elsewhere, nor a child of an object it has traversed.  It does not follow
\* that what is reachable survives: an object that was moved back need not be
\* traversed.
THEOREM ScannedStays == Spec => []ScannedKept
<1>1. Init => MoveInv
  BY DEF Init, MoveInv
<1>2. Spec => []SubtractInv
  BY SubtractInvInit, SubtractInvStep, TypeCorrect, PTL DEF Spec
<1>3. Spec => []MoveInv
  BY <1>1, <1>2, MoveInvStep, TypeCorrect, PTL DEF Spec
<1> QED
  BY <1>3, MoveInvKeeps, TypeCorrect, PTL

-----------------------------------------------------------------------------
(* Completeness: what is lost is found. *)

Distinct == \A o, r \in Objects : rank[o] = rank[r] => o = r

\* To append an object leaves the others in their order, in front of it.
LEMMA MoveToOrder ==
  ASSUME TypeOK, Distinct, NEW o \in Objects, NEW l, MoveTo(o, l)
  PROVE  /\ \A r \in Objects : r # o => rank'[r] < rank'[o]
         /\ \A r, t \in Objects : r # o /\ t # o /\ rank[r] < rank[t] => rank'[r] < rank'[t]
         /\ Distinct'
<1>1. /\ rank'[o] = N
      /\ \A r \in Objects : r # o =>
            rank'[r] = IF rank[r] > rank[o] THEN rank[r] - 1 ELSE rank[r]
  BY DEF MoveTo
<1>2. \A r \in Objects : rank[r] \in Nat /\ 1 <= rank[r] /\ rank[r] <= N
  BY RankTyped
<1>3. \A r \in Objects : r # o => rank[r] # rank[o]
  BY DEF Distinct
<1>4. ASSUME NEW r \in Objects, r # o PROVE rank'[r] < rank'[o]
  BY <1>1, <1>2, <1>3, <1>4, SizesAssumption
<1>5. ASSUME NEW r \in Objects, NEW t \in Objects, r # o, t # o, rank[r] < rank[t]
      PROVE  rank'[r] < rank'[t]
  BY <1>1, <1>2, <1>3, <1>5, SizesAssumption
<1>6. \A r \in Objects : rank'[r] \in Int
  BY <1>1, <1>2, SizesAssumption
<1>7. ASSUME NEW r \in Objects, NEW t \in Objects, r # t PROVE rank'[r] # rank'[t]
  <2>1. CASE r = o \/ t = o
    BY <1>4, <1>6, <1>7, <2>1
  <2>2. CASE r # o /\ t # o
    <3>1. rank[r] < rank[t] \/ rank[t] < rank[r]
      BY <1>2, <1>7 DEF Distinct
    <3> QED
      BY <1>5, <1>6, <2>2, <3>1
  <2> QED
    BY <2>1, <2>2
<1> QED
  BY <1>4, <1>5, <1>7 DEF Distinct

\* An object of a closed set is still ahead of the loop and has no reference
\* left, or has been singled out.
Lost(o) == \/ list[o] = "garbage" /\ ref[o] = Unreachable
           \/ list[o] = "head" /\ ref[o] = 0 /\ p # Head /\ rank[p] <= rank[o]

\* The loop cannot skip such an object, because an object that was moved back
\* comes after every object it has not looked at yet.
FindInv ==
  phase = "move" =>
    /\ Distinct
    /\ \A s \in todo : owner[s] \in On("head") /\ ref[owner[s]] = Reachable
    /\ \A c, o \in On("head") : ref[c] = Unreachable /\ ref[o] = 0 => rank[o] < rank[c]
    /\ \A G \in SUBSET Tracked : Closed(G) => \A o \in G : Lost(o)

\* No member of a closed set is a child of a traversed object.
LEMMA ClosedUntouched ==
  ASSUME TypeOK, phase = "move", FindInv, NEW G \in SUBSET Tracked, Closed(G), NEW s \in todo
  PROVE  target[s] \notin G
<1> SUFFICES ASSUME target[s] \in G PROVE FALSE
  OBVIOUS
<1>1. s \in Slots /\ owner[s] \in Objects /\ ref[owner[s]] = Reachable
  BY DEF FindInv, TypeOK, On
<1>2. s \in References(target[s])
  BY <1>1 DEF References, Free, Objects
<1>3. owner[s] \in G
  BY <1>2 DEF Closed
<1>4. Lost(owner[s])
  BY <1>3 DEF FindInv
<1> QED
  BY <1>1, <1>4 DEF Lost, Reachable, Unreachable

LEMMA FindInvStep ==
  TypeOK /\ SubtractInv /\ MoveInv /\ FindInv /\ [Next]_vars => FindInv'
<1> SUFFICES ASSUME TypeOK, SubtractInv, MoveInv, FindInv, [Next]_vars PROVE FindInv'
  OBVIOUS
<1>h. Head \notin Objects
  BY DEF Head, Objects
<1>1. CASE SubtractEnd
  <2>1. /\ Unmoved /\ Subtracted /\ todo' = {} /\ p' = NextAfter("head", 0)
        /\ UNCHANGED <<owner, target, list, rank, ref>>
    BY <1>1 DEF SubtractEnd, Subtracted, SubtractInv, First, heap, lists
  <2>2. \A o \in On("head") : ref[o] = Cardinality(External(o))
    BY <2>1, SubtractedIsExact DEF SubtractExact
  <2>3. \A o \in Objects : External(o) \in SUBSET Slots
    BY DEF External, References
  <2>4. \A o \in On("head") : ref[o] \in Nat /\ (ref[o] = 0 <=> External(o) = {})
    BY <2>2, <2>3, SlotsFinite DEF On
  <2>5. Tracked' = Tracked /\ Tracked = On("head") /\ On("head")' = On("head")
    BY <2>1 DEF Tracked, On, Unmoved
  <2>6. Distinct'
    BY <2>1 DEF Unmoved, Distinct
  <2>7. ASSUME NEW G \in SUBSET Tracked, Closed(G)', NEW o \in G PROVE Lost(o)'
    <3>1. o \in On("head") /\ o \in Objects /\ list[o] = "head"
      BY <2>5 DEF On
    <3>2. External(o) = {}
      BY <2>1, <2>7 DEF Closed, External, References
    <3>3. o \in After("head", 0)
      BY <2>1, <3>1 DEF After, On, Unmoved, Objects
    <3>4. p' # Head /\ rank[p'] <= rank[o]
      BY <2>1, <3>3, NextAfterIsNext
    <3> QED
      BY <2>1, <2>4, <3>1, <3>2, <3>4 DEF Lost
  <2>8. \A c \in On("head") : ref[c] # Unreachable
    BY <2>4 DEF Unreachable
  <2> QED
    BY <2>1, <2>5, <2>6, <2>7, <2>8 DEF FindInv
<1>2. CASE MoveNode
  <2>1. /\ phase = "move" /\ phase' = "move" /\ todo = {} /\ p \in Objects /\ list[p] = "head"
        /\ UNCHANGED <<owner, target>>
    BY <1>2 DEF MoveNode, MoveInv, TypeOK, On, heap
  <2>2. p' = NextAfter("head", rank[p]) /\ rank[p] \in Int /\ Distinct
    BY <1>2, <2>1, RankTyped DEF MoveNode, Following, FindInv
  <2>3. \A o \in Objects : rank[o] \in Int
    BY RankTyped
  \* Whoever is ahead of p and is not p is ahead of p'.
  <2>4. ASSUME NEW o \in Objects, list[o] = "head", rank[p] <= rank[o], o # p
        PROVE  p' # Head /\ p' \in Objects /\ rank[p'] <= rank[o] /\ rank[p] < rank[p'] /\ p' # p
    <3>1. o \in After("head", rank[p])
      BY <2>1, <2>2, <2>3, <2>4 DEF After, On, Distinct
    <3>2. p' # Head /\ p' \in After("head", rank[p]) /\ rank[p'] <= rank[o]
      BY <2>2, <3>1, NextAfterIsNext
    <3> QED
      BY <2>2, <2>3, <3>2 DEF After, On
  <2>5. CASE ref[p] = 0
    <3>1. /\ list' = [list EXCEPT ![p] = "garbage"] /\ MoveTo(p, "garbage")
          /\ ref' = [ref EXCEPT ![p] = Unreachable] /\ todo' = {}
      BY <1>2, <2>1, <2>5 DEF MoveNode, MoveTo
    <3>2. Tracked' = Tracked
      BY <2>1, <3>1 DEF Tracked, On, TypeOK
    <3>3. /\ \A r, t \in Objects : r # p /\ t # p /\ rank[r] < rank[t] => rank'[r] < rank'[t]
          /\ Distinct'
      BY <2>1, <2>2, <3>1, MoveToOrder
    <3>4. \A o \in Objects : rank'[o] \in Int
      <4>1. rank' \in [Objects -> Objects]
        BY <2>1, <3>1, MoveToTyped
      <4>2. \A o \in Objects : o \in Int
        BY SizesAssumption DEF Objects
      <4> QED
        BY <4>1, <4>2
    <3>5. ASSUME NEW G \in SUBSET Tracked, Closed(G)', NEW o \in G PROVE Lost(o)'
      <4>1. Closed(G) /\ o \in Objects /\ Lost(o)
        BY <2>1, <3>5 DEF Closed, References, FindInv, Tracked, On
      <4>2. CASE o = p
        BY <2>1, <3>1, <4>2 DEF Lost, TypeOK
      <4>3. CASE o # p /\ list[o] = "garbage"
        BY <2>1, <3>1, <4>1, <4>3 DEF Lost, TypeOK
      <4>4. CASE o # p /\ list[o] = "head"
        <5>1. ref[o] = 0 /\ rank[p] <= rank[o]
          BY <4>1, <4>4 DEF Lost
        <5>2. p' # Head /\ p' \in Objects /\ rank[p'] <= rank[o] /\ p' # p
          BY <2>4, <4>1, <4>4, <5>1
        <5>3. p' = o \/ rank[p'] < rank[o]
          BY <2>2, <2>3, <4>1, <5>2 DEF Distinct
        <5>4. rank'[p'] <= rank'[o]
          BY <3>3, <3>4, <4>1, <4>4, <5>2, <5>3
        <5> QED
          BY <2>1, <3>1, <4>1, <4>4, <5>1, <5>2, <5>4 DEF Lost, TypeOK
      <4> QED
        BY <4>1, <4>2, <4>3, <4>4 DEF Lost
    <3>6. ASSUME NEW c \in On("head")', NEW o \in On("head")', ref'[c] = Unreachable, ref'[o] = 0
          PROVE  rank'[o] < rank'[c]
      <4>1. /\ c \in On("head") /\ c # p /\ o \in On("head") /\ o # p
            /\ ref[c] = Unreachable /\ ref[o] = 0
        BY <2>1, <3>1, <3>6 DEF On, TypeOK
      <4>2. rank[o] < rank[c] /\ o \in Objects /\ c \in Objects
        BY <2>1, <4>1 DEF FindInv, On
      <4> QED
        BY <3>3, <4>1, <4>2
    <3> QED
      BY <3>1, <3>2, <3>3, <3>5, <3>6 DEF FindInv
  <2>6. CASE ref[p] # 0
    <3>1. /\ UNCHANGED <<list, rank>> /\ todo' = HeldBy(p)
          /\ ref' = [ref EXCEPT ![p] = Reachable]
      BY <1>2, <2>1, <2>6 DEF MoveNode, lists
    <3>2. Tracked' = Tracked /\ On("head")' = On("head")
      BY <3>1 DEF Tracked, On
    <3>3. ASSUME NEW G \in SUBSET Tracked, Closed(G)', NEW o \in G PROVE Lost(o)'
      <4>1. Closed(G) /\ o \in Objects /\ Lost(o)
        BY <2>1, <3>3 DEF Closed, References, FindInv, Tracked, On
      <4>2. o # p
        BY <2>1, <2>6, <4>1 DEF Lost
      <4>3. list[o] = "head" => p' # Head /\ p' \in Objects /\ rank[p'] <= rank[o]
        BY <2>4, <4>1, <4>2 DEF Lost
      <4> QED
        BY <2>1, <3>1, <4>1, <4>2, <4>3 DEF Lost, TypeOK
    <3>4. \A c, o \in On("head") : ref'[c] = Unreachable /\ ref'[o] = 0 => rank[o] < rank[c]
      BY <2>1, <3>1 DEF FindInv, TypeOK, On, Reachable, Unreachable
    <3>5. \A s \in todo' : owner[s] \in On("head") /\ ref'[owner[s]] = Reachable
      BY <2>1, <3>1 DEF HeldBy, On, TypeOK
    <3>6. Distinct'
      BY <2>2, <3>1 DEF Distinct
    <3> QED
      BY <2>1, <3>1, <3>2, <3>3, <3>4, <3>5, <3>6 DEF FindInv
  <2> QED
    BY <2>5, <2>6
<1>3. ASSUME NEW s \in Slots, MoveChild(s) PROVE FindInv'
  <2> DEFINE c == target[s]
  <2>1. /\ phase = "move" /\ phase' = "move" /\ todo' = todo \ {s} /\ c \in Objects
        /\ s \in todo /\ UNCHANGED <<owner, target, p>>
    BY <1>3 DEF MoveChild, IsNext, TypeOK, heap
  <2>2. \A G \in SUBSET Tracked : Closed(G) => c \notin G
    BY <2>1, ClosedUntouched
  <2>3. p = Head \/ (p \in Objects /\ list[p] = "head")
    BY <2>1 DEF MoveInv, On
  <2>4. Distinct /\ \A o \in Objects : rank[o] \in Int
    BY <2>1, RankTyped DEF FindInv
  <2>5. CASE ref[c] # Unreachable
    <3>1. UNCHANGED <<list, rank>> /\ ref' = IF ref[c] = 0 THEN [ref EXCEPT ![c] = 1] ELSE ref
      BY <1>3, <2>5 DEF MoveChild, lists
    <3>2. Tracked' = Tracked /\ On("head")' = On("head")
      BY <3>1 DEF Tracked, On
    <3>3. ASSUME NEW G \in SUBSET Tracked, Closed(G)', NEW o \in G PROVE Lost(o)'
      <4>1. Closed(G) /\ o \in Objects /\ Lost(o)
        BY <2>1, <3>3 DEF Closed, References, FindInv, Tracked, On
      <4>2. ref'[o] = ref[o]
        BY <2>2, <3>1, <4>1 DEF TypeOK
      <4> QED
        BY <2>1, <3>1, <4>1, <4>2 DEF Lost
    <3>4. \A a, o \in On("head") : ref'[a] = Unreachable /\ ref'[o] = 0 => rank[o] < rank[a]
      BY <2>1, <3>1 DEF FindInv, TypeOK, On, Unreachable
    <3>5. \A r \in todo' : owner[r] \in On("head") /\ ref'[owner[r]] = Reachable
      BY <2>1, <3>1 DEF FindInv, TypeOK, On, Reachable
    <3>6. Distinct'
      BY <2>4, <3>1 DEF Distinct
    <3> QED
      BY <2>1, <3>1, <3>2, <3>3, <3>4, <3>5, <3>6 DEF FindInv
  <2>6. CASE ref[c] = Unreachable
    <3>1. /\ list' = [list EXCEPT ![c] = "head"] /\ ref' = ref /\ MoveTo(c, "head")
      BY <1>3, <2>6 DEF MoveChild, MoveTo, Unreachable
    <3>2. list[c] \in {"head", "garbage"}
      BY <2>1, <2>6 DEF MoveInv, Reachable, Unreachable
    <3>3. Tracked' = Tracked /\ On("head")' = On("head") \cup {c}
      BY <2>1, <3>1, <3>2 DEF Tracked, On, TypeOK
    <3>4. /\ \A r \in Objects : r # c => rank'[r] < rank'[c]
          /\ \A r, t \in Objects : r # c /\ t # c /\ rank[r] < rank[t] => rank'[r] < rank'[t]
          /\ Distinct'
      BY <2>1, <2>4, <3>1, MoveToOrder
    <3>5. \A o \in Objects : rank'[o] \in Int
      <4>1. rank' \in [Objects -> Objects]
        BY <2>1, <3>1, MoveToTyped
      <4>2. \A o \in Objects : o \in Int
        BY SizesAssumption DEF Objects
      <4> QED
        BY <4>1, <4>2
    <3>6. ASSUME NEW G \in SUBSET Tracked, Closed(G)', NEW o \in G PROVE Lost(o)'
      <4>1. Closed(G) /\ o \in Objects /\ Lost(o)
        BY <2>1, <3>6 DEF Closed, References, FindInv, Tracked, On
      <4>2. o # c /\ list'[o] = list[o]
        BY <2>2, <3>1, <4>1 DEF TypeOK
      <4>3. CASE list[o] = "head"
        <5>1. ref[o] = 0 /\ p # Head /\ rank[p] <= rank[o] /\ p \in Objects
          BY <2>3, <4>1, <4>3 DEF Lost
        <5>2. p # c
          <6> SUFFICES ASSUME p = c PROVE FALSE
            OBVIOUS
          <6>1. p \in On("head") /\ o \in On("head")
            BY <2>3, <4>1, <4>3, <5>1 DEF On
          <6>2. rank[o] < rank[p]
            BY <2>1, <2>6, <5>1, <6>1 DEF FindInv
          <6> QED
            BY <2>4, <4>1, <5>1, <6>2
        <5>3. p = o \/ rank[p] < rank[o]
          BY <2>4, <4>1, <5>1 DEF Distinct
        <5>4. rank'[p] <= rank'[o]
          BY <3>4, <3>5, <4>1, <4>2, <5>1, <5>2, <5>3
        <5> QED
          BY <2>1, <3>1, <4>2, <4>3, <5>1, <5>4 DEF Lost
      <4>4. CASE list[o] = "garbage"
        BY <3>1, <4>1, <4>2, <4>4 DEF Lost
      <4> QED
        BY <4>1, <4>3, <4>4 DEF Lost
    <3>7. ASSUME NEW a \in On("head")', NEW o \in On("head")', ref'[a] = Unreachable, ref'[o] = 0
          PROVE  rank'[o] < rank'[a]
      <4>1. o # c /\ o \in Objects /\ a \in Objects /\ o \in On("head")
            /\ ref[a] = Unreachable /\ ref[o] = 0
        BY <2>1, <2>6, <3>1, <3>3, <3>7 DEF On, Unreachable
      <4>2. CASE a = c
        BY <3>4, <4>1, <4>2
      <4>3. CASE a # c
        <5>1. a \in On("head")
          BY <3>3, <3>7, <4>3
        <5>2. rank[o] < rank[a]
          BY <2>1, <4>1, <5>1 DEF FindInv
        <5> QED
          BY <3>4, <4>1, <4>3, <5>2
      <4> QED
        BY <4>2, <4>3
    <3>8. \A r \in todo' : owner[r] \in On("head")' /\ ref'[owner[r]] = Reachable
      BY <2>1, <3>1, <3>3 DEF FindInv
    <3> QED
      BY <2>1, <3>1, <3>3, <3>4, <3>6, <3>7, <3>8 DEF FindInv
  <2> QED
    BY <2>5, <2>6
<1>4. CASE phase' # "move"
  BY <1>4 DEF FindInv
<1>5. CASE UNCHANGED vars
  BY <1>5 DEF vars, FindInv, On, Tracked, Closed, Lost, References, Distinct
<1> QED
  BY <1>1, <1>2, <1>3, <1>4, <1>5
  DEF Next, Mark, FreeObjects, CountAll, SubtractNode, SubtractChild, MoveEnd,
      Retain, Release, Check, Return, ClearChild, Destroy

\* On every heap, everything the generation has lost is singled out, cycles
\* included: the third loop skips objects, but never one of those.
THEOREM GarbageIsFound == Spec => []GarbageFound
<1>1. Init => FindInv
  BY DEF Init, FindInv
<1>2. Init => MoveInv
  BY DEF Init, MoveInv
<1>3. Spec => []SubtractInv
  BY SubtractInvInit, SubtractInvStep, TypeCorrect, PTL DEF Spec
<1>4. Spec => []MoveInv
  BY <1>2, <1>3, MoveInvStep, TypeCorrect, PTL DEF Spec
<1>5. Spec => []FindInv
  BY <1>1, <1>3, <1>4, FindInvStep, TypeCorrect, PTL DEF Spec
<1>6. FindInv => GarbageFound
  <2> SUFFICES ASSUME FindInv, Marked, NEW G \in SUBSET Tracked, Closed(G), NEW o \in G
               PROVE  o \in On("garbage")
    BY DEF GarbageFound, YoungGarbage
  <2>1. Lost(o) /\ p = Head /\ o \in Objects
    BY DEF FindInv, Marked, Tracked, On
  <2> QED
    BY <2>1 DEF Lost, On
<1> QED
  BY <1>5, <1>6, PTL

-----------------------------------------------------------------------------
(* What is reached down the list is kept. *)

Missed(G) == \A o \in G : /\ External(o) = {}
                          /\ \A s \in References(o) : owner[s] \in G \/ owner[s] > o

\* Nothing that is reached down the list is ever moved away: when the loop
\* comes to it, it has a reference from elsewhere or the dummy one of an object
\* before it.  The order of these objects never changes, and whatever has been
\* moved back stands behind those the loop has not looked at.
ForwardInv ==
  phase = "move" =>
    /\ \A o, r \in ForwardReached : o < r => rank[o] < rank[r]
    /\ \A o \in ForwardReached : /\ list[o] = "head" /\ ref[o] # Unreachable
                                 /\ ref[o] # Reachable => p # Head /\ rank[p] <= rank[o]
    /\ \A c \in On("head"), o \in ForwardReached :
         ref[c] = Unreachable /\ ref[o] # Reachable => rank[o] < rank[c]

LEMMA ForwardTracked == ForwardReached \subseteq Tracked
BY DEF ForwardReached

\* Why an object is reached.
LEMMA ForwardReason ==
  ASSUME TypeOK, NEW o \in ForwardReached
  PROVE  \/ External(o) # {}
         \/ \E s \in References(o) : owner[s] \in ForwardReached /\ owner[s] < o
<1> DEFINE U == UNION {G \in SUBSET Tracked : Missed(G)}
<1>1. ForwardReached = Tracked \ U
  BY DEF ForwardReached, Missed
<1>2. Missed(U) /\ U \subseteq Tracked
  BY DEF Missed
<1>3. ASSUME External(o) = {},
             \A s \in References(o) : ~(owner[s] \in ForwardReached /\ owner[s] < o)
      PROVE  FALSE
  <2>1. o \in Tracked /\ o \in Int /\ \A r \in Tracked : r \in Int
    BY <1>1, SizesAssumption DEF Tracked, On, Objects
  <2>2. \A s \in References(o) : owner[s] \in Tracked
    BY <1>3 DEF External
  <2> HIDE DEF U
  <2>3. ASSUME NEW s \in References(o) PROVE owner[s] \in U \cup {o} \/ owner[s] > o
    <3>1. owner[s] \in Tracked /\ owner[s] \in Int
      BY <2>1, <2>2
    <3>2. owner[s] \in U \/ owner[s] \in ForwardReached
      BY <1>1, <3>1
    <3>3. owner[s] \in ForwardReached => ~(owner[s] < o)
      BY <1>3
    <3> QED
      BY <2>1, <3>1, <3>2, <3>3
  <2>4. Missed(U \cup {o})
    BY <1>2, <1>3, <2>3 DEF Missed
  <2>5. U \cup {o} \in SUBSET Tracked
    BY <1>2, <2>1
  <2>6. o \in U
    BY <2>4, <2>5 DEF U
  <2> QED
    BY <1>1, <2>6
<1> QED
  BY <1>3

\* The loop does not change who is reached.
LEMMA ForwardFixed ==
  ASSUME Tracked' = Tracked, UNCHANGED <<owner, target>>
  PROVE  ForwardReached' = ForwardReached
<1>1. \A o : External(o)' = External(o) /\ References(o)' = References(o)
  BY DEF External, References
<1> QED
  BY <1>1 DEF ForwardReached

\* When the loop comes to such an object, it does not move it away.
LEMMA ForwardCounted ==
  ASSUME TypeOK, MoveInv, ForwardInv, phase = "move", todo = {}, p \in ForwardReached
  PROVE  ref[p] # 0
<1>1. p \in Tracked /\ p \in Objects
  BY ForwardTracked DEF Tracked, On
<1>2. CASE External(p) # {}
  BY <1>1, <1>2 DEF MoveInv
<1>3. ASSUME NEW s \in References(p), owner[s] \in ForwardReached, owner[s] < p
      PROVE  ref[p] # 0
  <2>1. s \in Slots /\ target[s] = p /\ owner[s] \in Objects /\ list[owner[s]] = "head"
    BY <1>3, ForwardTracked DEF References, ForwardInv, Tracked, On
  <2>2. rank[owner[s]] < rank[p]
    BY <1>3 DEF ForwardInv
  <2>3. ref[owner[s]] = Reachable
    BY <1>1, <1>3, <2>1, <2>2, RankTyped DEF ForwardInv
  <2> QED
    BY <2>1, <2>3 DEF MoveInv, On
<1> QED
  BY <1>2, <1>3, ForwardReason

LEMMA ForwardInvStep ==
  TypeOK /\ SubtractInv /\ MoveInv /\ FindInv /\ ForwardInv /\ [Next]_vars => ForwardInv'
<1> SUFFICES ASSUME TypeOK, SubtractInv, MoveInv, FindInv, ForwardInv, [Next]_vars
             PROVE  ForwardInv'
  OBVIOUS
<1>h. Head \notin Objects
  BY DEF Head, Objects
<1>f. ForwardReached \subseteq Tracked /\ Tracked \subseteq Objects
  BY ForwardTracked DEF Tracked, On
<1>1. CASE SubtractEnd
  <2>1. /\ Unmoved /\ Subtracted /\ p' = NextAfter("head", 0)
        /\ UNCHANGED <<owner, target, list, rank, ref>>
    BY <1>1 DEF SubtractEnd, Subtracted, SubtractInv, First, heap, lists
  <2>2. \A o \in On("head") : ref[o] \in Nat
    <3>1. \A o \in On("head") : ref[o] = Cardinality(External(o))
      BY <2>1, SubtractedIsExact DEF SubtractExact
    <3>2. \A o \in Objects : External(o) \in SUBSET Slots
      BY DEF External, References
    <3> QED
      BY <3>1, <3>2, SlotsFinite DEF On
  <2>3. Tracked' = Tracked /\ Tracked = On("head") /\ On("head")' = On("head")
    BY <2>1 DEF Tracked, On, Unmoved
  <2>4. ForwardReached' = ForwardReached
    BY <2>1, <2>3, ForwardFixed
  <2>5. ASSUME NEW o \in ForwardReached
        PROVE  list[o] = "head" /\ ref[o] # Unreachable /\ p' # Head /\ rank[p'] <= rank[o]
    <3>1. o \in On("head") /\ o \in Objects
      BY <1>f, <2>3
    <3>2. o \in After("head", 0)
      BY <2>1, <3>1 DEF After, On, Unmoved, Objects
    <3> QED
      BY <2>1, <2>2, <3>1, <3>2, NextAfterIsNext DEF On, Unreachable
  <2>6. \A o, r \in ForwardReached : o < r => rank[o] < rank[r]
    BY <1>f, <2>1 DEF Unmoved
  <2>7. \A c \in On("head") : ref[c] # Unreachable
    BY <2>2 DEF Unreachable
  <2> QED
    BY <2>1, <2>3, <2>4, <2>5, <2>6, <2>7 DEF ForwardInv
<1>2. CASE MoveNode
  <2>1. /\ phase = "move" /\ phase' = "move" /\ todo = {} /\ p \in Objects /\ list[p] = "head"
        /\ UNCHANGED <<owner, target>>
    BY <1>2 DEF MoveNode, MoveInv, TypeOK, On, heap
  <2>2. p' = NextAfter("head", rank[p]) /\ rank[p] \in Int /\ Distinct
    BY <1>2, <2>1, RankTyped DEF MoveNode, Following, FindInv
  <2>3. \A o \in Objects : rank[o] \in Int
    BY RankTyped
  \* Whoever is ahead of p and is not p is ahead of p'.
  <2>4. ASSUME NEW o \in Objects, list[o] = "head", rank[p] <= rank[o], o # p
        PROVE  p' # Head /\ p' \in Objects /\ rank[p'] <= rank[o] /\ p' # p
    <3>1. o \in After("head", rank[p])
      BY <2>1, <2>2, <2>3, <2>4 DEF After, On, Distinct
    <3>2. p' # Head /\ p' \in After("head", rank[p]) /\ rank[p'] <= rank[o]
      BY <2>2, <3>1, NextAfterIsNext
    <3> QED
      BY <2>2, <2>3, <3>2 DEF After, On
  <2>5. CASE ref[p] = 0
    <3>1. /\ list' = [list EXCEPT ![p] = "garbage"] /\ MoveTo(p, "garbage")
          /\ ref' = [ref EXCEPT ![p] = Unreachable]
      BY <1>2, <2>1, <2>5 DEF MoveNode, MoveTo
    <3>2. Tracked' = Tracked /\ ForwardReached' = ForwardReached
      <4>1. Tracked' = Tracked
        BY <2>1, <3>1 DEF Tracked, On, TypeOK
      <4> QED
        BY <2>1, <4>1, ForwardFixed
    <3>3. p \notin ForwardReached
      BY <2>1, <2>5, ForwardCounted
    <3>4. /\ \A r, t \in Objects : r # p /\ t # p /\ rank[r] < rank[t] => rank'[r] < rank'[t]
          /\ \A o \in Objects : rank'[o] \in Int
      <4>1. rank' \in [Objects -> Objects]
        BY <2>1, <3>1, MoveToTyped
      <4>2. \A o \in Objects : o \in Int
        BY SizesAssumption DEF Objects
      <4> QED
        BY <2>1, <2>2, <3>1, <4>1, <4>2, MoveToOrder
    <3>5. ASSUME NEW o \in ForwardReached
          PROVE  /\ list'[o] = "head" /\ ref'[o] # Unreachable
                 /\ ref'[o] # Reachable => p' # Head /\ rank'[p'] <= rank'[o]
      <4>1. o \in Objects /\ o # p /\ list'[o] = list[o] /\ ref'[o] = ref[o] /\ list[o] = "head"
        BY <1>f, <2>1, <3>1, <3>3 DEF TypeOK, ForwardInv
      <4>2. ASSUME ref[o] # Reachable PROVE p' # Head /\ rank'[p'] <= rank'[o]
        <5>1. rank[p] <= rank[o]
          BY <2>1, <4>2 DEF ForwardInv
        <5>2. p' # Head /\ p' \in Objects /\ rank[p'] <= rank[o] /\ p' # p
          BY <2>4, <4>1, <5>1
        <5>3. p' = o \/ rank[p'] < rank[o]
          BY <2>2, <2>3, <4>1, <5>2 DEF Distinct
        <5> QED
          BY <3>4, <4>1, <5>2, <5>3
      <4> QED
        BY <2>1, <4>1, <4>2 DEF ForwardInv
    <3>6. ASSUME NEW o \in ForwardReached, NEW r \in ForwardReached, o < r
          PROVE  rank'[o] < rank'[r]
      BY <1>f, <2>1, <3>3, <3>4, <3>6 DEF ForwardInv
    <3>7. ASSUME NEW c \in On("head")', NEW o \in ForwardReached,
                 ref'[c] = Unreachable, ref'[o] # Reachable
          PROVE  rank'[o] < rank'[c]
      <4>1. c \in On("head") /\ c # p /\ ref[c] = Unreachable /\ c \in Objects
        BY <2>1, <3>1, <3>7 DEF On, TypeOK
      <4>2. o \in Objects /\ o # p /\ ref[o] # Reachable
        BY <1>f, <2>1, <3>1, <3>3, <3>7 DEF TypeOK
      <4>3. rank[o] < rank[c]
        BY <2>1, <4>1, <4>2 DEF ForwardInv
      <4> QED
        BY <3>4, <4>1, <4>2, <4>3
    <3> QED
      BY <3>2, <3>5, <3>6, <3>7 DEF ForwardInv
  <2>6. CASE ref[p] # 0
    <3>1. UNCHANGED <<list, rank>> /\ ref' = [ref EXCEPT ![p] = Reachable]
      BY <1>2, <2>1, <2>6 DEF MoveNode, lists
    <3>2. Tracked' = Tracked /\ On("head")' = On("head")
      BY <3>1 DEF Tracked, On
    <3>3. ForwardReached' = ForwardReached
      BY <2>1, <3>2, ForwardFixed
    <3>4. ASSUME NEW o \in ForwardReached
          PROVE  /\ list[o] = "head" /\ ref'[o] # Unreachable
                 /\ ref'[o] # Reachable => p' # Head /\ rank[p'] <= rank[o]
      <4>1. o \in Objects /\ list[o] = "head" /\ ref[o] # Unreachable
        BY <1>f, <2>1 DEF ForwardInv
      <4>2. CASE o = p
        BY <2>1, <3>1, <4>1, <4>2 DEF TypeOK, Reachable, Unreachable
      <4>3. CASE o # p
        <5>1. ref'[o] = ref[o]
          BY <2>1, <3>1, <4>1, <4>3 DEF TypeOK
        <5>2. ref[o] # Reachable => rank[p] <= rank[o]
          BY <2>1 DEF ForwardInv
        <5> QED
          BY <2>4, <4>1, <4>3, <5>1, <5>2
      <4> QED
        BY <4>2, <4>3
    <3>5. ASSUME NEW c \in On("head"), NEW o \in ForwardReached,
                 ref'[c] = Unreachable, ref'[o] # Reachable
          PROVE  rank[o] < rank[c]
      <4>1. ref[c] = Unreachable /\ ref[o] # Reachable
        BY <1>f, <2>1, <3>1, <3>5 DEF TypeOK, On, Reachable, Unreachable
      <4> QED
        BY <2>1, <4>1 DEF ForwardInv
    <3> QED
      BY <2>1, <3>1, <3>2, <3>3, <3>4, <3>5 DEF ForwardInv
  <2> QED
    BY <2>5, <2>6
<1>3. ASSUME NEW s \in Slots, MoveChild(s) PROVE ForwardInv'
  <2> DEFINE c == target[s]
  <2>1. /\ phase = "move" /\ phase' = "move" /\ c \in Objects
        /\ s \in todo /\ UNCHANGED <<owner, target, p>>
    BY <1>3 DEF MoveChild, IsNext, TypeOK, heap
  <2>2. p = Head \/ (p \in Objects /\ list[p] = "head")
    BY <2>1 DEF MoveInv, On
  <2>3. Distinct /\ \A o \in Objects : rank[o] \in Int
    BY <2>1, RankTyped DEF FindInv
  <2>4. CASE ref[c] # Unreachable
    <3>1. UNCHANGED <<list, rank>> /\ ref' = IF ref[c] = 0 THEN [ref EXCEPT ![c] = 1] ELSE ref
      BY <1>3, <2>4 DEF MoveChild, lists
    <3>2. Tracked' = Tracked /\ On("head")' = On("head")
      BY <3>1 DEF Tracked, On
    <3>3. ForwardReached' = ForwardReached
      BY <2>1, <3>2, ForwardFixed
    <3>4. \A o \in Objects : /\ ref'[o] = Unreachable <=> ref[o] = Unreachable
                             /\ ref'[o] = Reachable <=> ref[o] = Reachable
      BY <2>1, <3>1 DEF TypeOK, Reachable, Unreachable
    <3>5. \A o \in On("head") : o \in Objects
      BY DEF On
    <3> QED
      BY <1>f, <2>1, <3>1, <3>2, <3>3, <3>4, <3>5 DEF ForwardInv
  <2>5. CASE ref[c] = Unreachable
    <3>1. /\ list' = [list EXCEPT ![c] = "head"] /\ ref' = ref /\ MoveTo(c, "head")
      BY <1>3, <2>5 DEF MoveChild, MoveTo, Unreachable
    <3>2. list[c] \in {"head", "garbage"}
      BY <2>1, <2>5 DEF MoveInv, Reachable, Unreachable
    <3>3. Tracked' = Tracked /\ On("head")' = On("head") \cup {c}
      BY <2>1, <3>1, <3>2 DEF Tracked, On, TypeOK
    <3>4. ForwardReached' = ForwardReached
      BY <2>1, <3>3, ForwardFixed
    <3>5. c \notin ForwardReached
      BY <2>1, <2>5 DEF ForwardInv
    <3>6. /\ \A r \in Objects : r # c => rank'[r] < rank'[c]
          /\ \A r, t \in Objects : r # c /\ t # c /\ rank[r] < rank[t] => rank'[r] < rank'[t]
          /\ \A o \in Objects : rank'[o] \in Int
      <4>1. rank' \in [Objects -> Objects]
        BY <2>1, <3>1, MoveToTyped
      <4>2. \A o \in Objects : o \in Int
        BY SizesAssumption DEF Objects
      <4> QED
        BY <2>1, <2>3, <3>1, <4>1, <4>2, MoveToOrder
    <3>7. ASSUME NEW o \in ForwardReached
          PROVE  /\ list'[o] = "head" /\ ref[o] # Unreachable
                 /\ ref[o] # Reachable => p # Head /\ rank'[p] <= rank'[o]
      <4>1. o \in Objects /\ o # c /\ list'[o] = "head" /\ ref[o] # Unreachable
        BY <1>f, <2>1, <3>1, <3>5 DEF TypeOK, ForwardInv
      <4>2. ASSUME ref[o] # Reachable PROVE p # Head /\ rank'[p] <= rank'[o]
        <5>1. p # Head /\ p \in Objects /\ list[p] = "head" /\ rank[p] <= rank[o]
          BY <2>1, <2>2, <4>2 DEF ForwardInv
        <5>2. p # c
          <6> SUFFICES ASSUME p = c PROVE FALSE
            OBVIOUS
          <6>1. rank[o] < rank[p]
            BY <2>1, <2>5, <4>2, <5>1 DEF ForwardInv, On
          <6> QED
            BY <2>3, <4>1, <5>1, <6>1
        <5>3. p = o \/ rank[p] < rank[o]
          BY <2>3, <4>1, <5>1 DEF Distinct
        <5> QED
          BY <3>6, <4>1, <5>1, <5>2, <5>3
      <4> QED
        BY <4>1, <4>2
    <3>8. ASSUME NEW o \in ForwardReached, NEW r \in ForwardReached, o < r
          PROVE  rank'[o] < rank'[r]
      BY <1>f, <2>1, <3>5, <3>6, <3>8 DEF ForwardInv
    <3>9. ASSUME NEW a \in On("head")', NEW o \in ForwardReached,
                 ref[a] = Unreachable, ref[o] # Reachable
          PROVE  rank'[o] < rank'[a]
      <4>1. o \in Objects /\ o # c
        BY <1>f, <3>5
      <4>2. CASE a = c
        BY <3>6, <4>1, <4>2
      <4>3. CASE a # c
        <5>1. a \in On("head") /\ a \in Objects
          BY <3>3, <3>9, <4>3 DEF On
        <5>2. rank[o] < rank[a]
          BY <2>1, <3>9, <5>1 DEF ForwardInv
        <5> QED
          BY <3>6, <4>1, <4>3, <5>1, <5>2
      <4> QED
        BY <4>2, <4>3
    <3> QED
      BY <2>1, <3>1, <3>4, <3>7, <3>8, <3>9 DEF ForwardInv
  <2> QED
    BY <2>4, <2>5
<1>4. CASE phase' # "move"
  BY <1>4 DEF ForwardInv
<1>5. CASE UNCHANGED vars
  <2>1. ForwardReached' = ForwardReached
    BY <1>5, ForwardFixed DEF vars, Tracked, On
  <2> QED
    BY <1>5, <2>1 DEF vars, ForwardInv, On
<1> QED
  BY <1>1, <1>2, <1>3, <1>4, <1>5
  DEF Next, Mark, FreeObjects, CountAll, SubtractNode, SubtractChild, MoveEnd,
      Retain, Release, Check, Return, ClearChild, Destroy

\* On every heap, the children of whatever is reached from outside along
\* references that lead down the list survive, in whatever direction those
\* lead: the third loop loses something reachable only behind a reference that
\* leads up the list.
THEOREM ForwardIsKept == Spec => []ForwardKept
<1>1. Init => MoveInv /\ FindInv /\ ForwardInv
  BY DEF Init, MoveInv, FindInv, ForwardInv
<1>2. Spec => []SubtractInv
  BY SubtractInvInit, SubtractInvStep, TypeCorrect, PTL DEF Spec
<1>3. Spec => []MoveInv
  BY <1>1, <1>2, MoveInvStep, TypeCorrect, PTL DEF Spec
<1>4. Spec => []FindInv
  BY <1>1, <1>2, <1>3, FindInvStep, TypeCorrect, PTL DEF Spec
<1>5. Spec => []ForwardInv
  BY <1>1, <1>2, <1>3, <1>4, ForwardInvStep, TypeCorrect, PTL DEF Spec
<1>6. MoveInv /\ ForwardInv => ForwardKept
  <2> SUFFICES ASSUME MoveInv, ForwardInv, Marked, NEW s \in Slots, owner[s] \in ForwardReached
               PROVE  list[target[s]] # "garbage"
    BY DEF ForwardKept
  <2>1. owner[s] \in On("head") /\ ref[owner[s]] = Reachable /\ s \notin todo
    BY ForwardTracked DEF ForwardInv, Marked, Tracked, On
  <2> QED
    BY <2>1 DEF MoveInv, Marked
<1> QED
  BY <1>3, <1>5, <1>6, PTL

-----------------------------------------------------------------------------
(* What freeObjects does to the heap. *)

\* What was singled out stays garbage, and only the references of the object
\* that is retained are cleared.
ReclaimInv ==
  sound => /\ phase \in {"free", "clear", "check"} => On("garbage") \subseteq Garbage
           /\ phase = "clear" => /\ held = p /\ list[p] = "garbage"
                                 /\ \A s \in todo : owner[s] = p

\* To lose references does not bring anything back, nor does to destroy an
\* object without references.
LEMMA GarbageStays ==
  ASSUME NEW D \in SUBSET Alive, Alive' = Alive \ D, target' = target,
         \A s \in Slots : owner'[s] # Free => owner'[s] = owner[s] /\ owner[s] \notin D
  PROVE  Garbage \ D \subseteq Garbage'
<1> SUFFICES ASSUME NEW G \in SUBSET Alive, Closed(G), NEW o \in G, o \notin D
             PROVE  o \in Garbage'
  BY DEF Garbage
<1>1. G \ D \in SUBSET Alive'
  OBVIOUS
<1>2. Closed(G \ D)'
  <2> SUFFICES ASSUME NEW r \in G \ D, NEW s \in References(r)' PROVE owner'[s] \in G \ D
    BY DEF Closed
  <2>1. s \in References(r) /\ owner'[s] = owner[s] /\ owner[s] \notin D
    BY DEF References
  <2> QED
    BY <2>1 DEF Closed
<1> QED
  BY <1>1, <1>2 DEF Garbage

LEMMA Owners ==
  ASSUME TypeOK
  PROVE  /\ \A s \in Slots : owner[s] \in Objects \cup {Root, Free}
         /\ \A o \in Objects : o # Free /\ o # None
  BY SizesAssumption DEF TypeOK, Objects, Free, None

LEMMA DestroyKeeps ==
  ASSUME TypeOK, NEW o \in Objects, Destroy(o)
  PROVE  /\ Alive' = Alive \ {o} /\ o \in Alive /\ References(o) = {} /\ held # o
         /\ \A r \in Objects \ {o} : list'[r] = list[r]
         /\ Garbage \ {o} \subseteq Garbage'
<1>1. /\ o \in Alive /\ RefCount(o) = 0 /\ target' = target
      /\ list' = [list EXCEPT ![o] = "gone"]
      /\ owner' = [s \in Slots |-> IF owner[s] = o THEN Free ELSE owner[s]]
  BY DEF Destroy, Unreferenced
<1>2. Alive' = Alive \ {o} /\ \A r \in Objects \ {o} : list'[r] = list[r]
  BY <1>1 DEF Alive, TypeOK
<1>3. References(o) \in SUBSET Slots
  BY DEF References
<1>4. References(o) = {} /\ held # o
  BY <1>1, <1>3, SlotsFinite DEF RefCount
<1>5. {o} \in SUBSET Alive
  BY <1>1
<1>6. \A s \in Slots : owner'[s] # Free => owner'[s] = owner[s] /\ owner[s] \notin {o}
  BY <1>1
<1>7. Garbage \ {o} \subseteq Garbage'
  BY <1>1, <1>2, <1>5, <1>6, GarbageStays
<1> QED
  BY <1>1, <1>2, <1>4, <1>7

LEMMA ClearKeeps ==
  ASSUME TypeOK, NEW s \in Slots, ClearChild(s)
  PROVE  Garbage \subseteq Garbage'
<1>1. /\ Alive' = Alive \ {} /\ target' = target
      /\ \A r \in Slots : owner'[r] # Free => owner'[r] = owner[r] /\ owner[r] \notin {}
  BY DEF ClearChild, Alive, lists, TypeOK
<1>2. {} \in SUBSET Alive
  OBVIOUS
<1>3. Garbage \ {} \subseteq Garbage'
  BY <1>1, <1>2, GarbageStays
<1> QED
  BY <1>3

LEMMA ReclaimInvStep == TypeOK /\ ReclaimInv /\ [Next]_vars => ReclaimInv'
<1> SUFFICES ASSUME TypeOK, ReclaimInv, [Next]_vars, sound' PROVE ReclaimInv'
  BY DEF ReclaimInv
<1>g. ASSUME UNCHANGED <<owner, target>>, Alive' = Alive PROVE Garbage' = Garbage
  BY <1>g DEF Garbage, Closed, References
<1>1. CASE phase' \notin {"free", "clear", "check"}
  BY <1>1 DEF ReclaimInv
<1>2. CASE MoveEnd
  <2>1. On("garbage") \subseteq Garbage /\ phase' = "free" /\ UNCHANGED <<owner, target, list>>
    BY <1>2 DEF MoveEnd, heap, lists
  <2>2. Garbage' = Garbage /\ On("garbage")' = On("garbage")
    BY <1>g, <2>1 DEF Alive, On
  <2> QED
    BY <2>1, <2>2 DEF ReclaimInv
<1>3. CASE Retain
  <2>1. /\ sound /\ phase = "free" /\ phase' = "clear" /\ On("garbage") # {}
        /\ UNCHANGED <<owner, target, list>>
        /\ held' = p' /\ todo' = HeldBy(p') /\ p' = NextAfter("garbage", 0)
    BY <1>3 DEF Retain, heap, lists, First
  <2>2. Garbage' = Garbage /\ On("garbage")' = On("garbage")
    BY <1>g, <2>1 DEF Alive, On
  <2>3. p' \in After("garbage", 0)
    <3>1. After("garbage", 0) # {}
      BY <2>1, RankTyped DEF After, On
    <3> QED
      BY <2>1, <3>1, NextAfterIsNext
  <2> QED
    BY <2>1, <2>2, <2>3 DEF ReclaimInv, After, On, HeldBy
<1>4. CASE Release
  <2>1. /\ sound /\ phase = "clear" /\ phase' = "check" /\ UNCHANGED <<owner, target, list>>
    BY <1>4 DEF Release, heap, lists
  <2>2. Garbage' = Garbage /\ On("garbage")' = On("garbage")
    BY <1>g, <2>1 DEF Alive, On
  <2> QED
    BY <2>1, <2>2 DEF ReclaimInv
<1>5. CASE Check
  <2>1. /\ sound /\ phase = "check" /\ phase' = "free" /\ UNCHANGED <<owner, target>>
        /\ p \in Objects
    BY <1>5 DEF Check, heap, TypeOK
  <2>2. list' = list
    BY <1>5, <2>1 DEF Check, MoveTo, lists, TypeOK
  <2>3. Garbage' = Garbage /\ On("garbage")' = On("garbage")
    BY <1>g, <2>1, <2>2 DEF Alive, On
  <2> QED
    BY <2>1, <2>3 DEF ReclaimInv
<1>6. ASSUME NEW o \in Objects, Destroy(o) PROVE ReclaimInv'
  <2>1. /\ sound /\ phase' = phase /\ phase \in {"clear", "check"} /\ UNCHANGED <<p, todo, held>>
        /\ owner' = [s \in Slots |-> IF owner[s] = o THEN Free ELSE owner[s]]
        /\ list'[o] = "gone"
    BY <1>6 DEF Destroy, TypeOK
  <2>2. /\ held # o /\ Garbage \ {o} \subseteq Garbage'
        /\ \A r \in Objects \ {o} : list'[r] = list[r]
    BY <1>6, DestroyKeeps
  <2>3. On("garbage")' = On("garbage") \ {o}
    BY <2>1, <2>2 DEF On
  <2>4. phase = "clear" => list'[p] = "garbage" /\ \A s \in todo : owner'[s] = p
    BY <2>1, <2>2 DEF ReclaimInv, TypeOK
  <2> QED
    BY <2>1, <2>2, <2>3, <2>4 DEF ReclaimInv
<1>7. ASSUME NEW s \in Slots, ClearChild(s) PROVE ReclaimInv'
  <2>1. /\ sound /\ phase' = phase /\ phase = "clear" /\ UNCHANGED <<p, held, list>>
        /\ owner' = [owner EXCEPT ![s] = Free] /\ todo' = todo \ {s}
    BY <1>7 DEF ClearChild, lists
  <2>2. Garbage \subseteq Garbage' /\ On("garbage")' = On("garbage")
    BY <1>7, <2>1, ClearKeeps DEF On
  <2>3. \A r \in todo' : owner'[r] = p
    BY <2>1 DEF ReclaimInv, TypeOK
  <2> QED
    BY <2>1, <2>2, <2>3 DEF ReclaimInv
<1>8. CASE UNCHANGED vars
  <2>1. Garbage' = Garbage /\ On("garbage")' = On("garbage")
    BY <1>8, <1>g DEF Alive, On, vars
  <2> QED
    BY <1>8, <2>1 DEF ReclaimInv, vars
<1> QED
  BY <1>1, <1>2, <1>3, <1>4, <1>5, <1>6, <1>7, <1>8
  DEF Next, Mark, FreeObjects, CountAll, SubtractNode, SubtractChild, SubtractEnd,
      MoveNode, MoveChild, Return

\* What a step of the collection is to the abstract collector.
LEMMA ReclaimStep ==
  TypeOK /\ MoveInv /\ ReclaimInv /\ [Next]_vars => [sound => Abstract!Next]_(Abstract!heap)
<1> SUFFICES ASSUME TypeOK, MoveInv, ReclaimInv, [Next]_vars
             PROVE  [sound => Abstract!Next]_(Abstract!heap)
  OBVIOUS
<1>1. ASSUME NEW o \in Objects, Destroy(o) PROVE Abstract!Next
  <2>1. Alive' = Alive \ {o} /\ o \in Alive /\ References(o) = {}
    BY <1>1, DestroyKeeps
  <2>2. target' = target /\ owner' = [s \in Slots |-> IF owner[s] = o THEN Free ELSE owner[s]]
    BY <1>1 DEF Destroy
  <2>3. Abstract!References(o) = {}
    BY <2>1 DEF References, Abstract!References
  <2> QED
    BY <2>1, <2>2, <2>3 DEF Abstract!Next, Abstract!Destroy
<1>2. ASSUME NEW s \in Slots, ClearChild(s), sound PROVE Abstract!Next
  <2>1. /\ phase = "clear" /\ s \in todo /\ owner' = [owner EXCEPT ![s] = Free]
        /\ UNCHANGED <<target, list>>
    BY <1>2 DEF ClearChild, IsNext, lists
  <2>2. owner[s] \in Garbage
    BY <1>2, <2>1 DEF ReclaimInv, On, TypeOK
  <2>3. Abstract!Unreachable = Garbage
    BY DEF Abstract!Unreachable, Abstract!References, Garbage, Closed, References
  <2>4. Alive' = Alive
    BY <2>1 DEF Alive
  <2> QED
    BY <2>1, <2>2, <2>3, <2>4 DEF Abstract!Next, Abstract!Drop
<1>3. ASSUME UNCHANGED <<owner, target, list>> PROVE UNCHANGED Abstract!heap
  BY <1>3 DEF Abstract!heap, Alive
<1>4. CASE MoveNode
  <2>1. UNCHANGED <<owner, target>> /\ (UNCHANGED list \/ list' = [list EXCEPT ![p] = "garbage"])
    BY <1>4 DEF MoveNode, MoveTo, heap, lists
  <2>2. Alive' = Alive
    BY <1>4, <2>1 DEF Alive, MoveNode, MoveInv, On, TypeOK
  <2> QED
    BY <2>1, <2>2 DEF Abstract!heap
<1>5. ASSUME NEW s \in Slots, MoveChild(s) PROVE UNCHANGED Abstract!heap
  <2>1. /\ UNCHANGED <<owner, target>> /\ target[s] \in Objects /\ phase = "move"
        /\ UNCHANGED list \/ (list' = [list EXCEPT ![target[s]] = "head"] /\ ref[target[s]] = Unreachable)
    BY <1>5 DEF MoveChild, MoveTo, heap, lists, TypeOK
  <2>2. Alive' = Alive
    BY <2>1 DEF Alive, MoveInv, TypeOK
  <2> QED
    BY <2>1, <2>2 DEF Abstract!heap
<1>6. CASE Check
  <2>1. UNCHANGED <<owner, target, list>>
    BY <1>6 DEF Check, MoveTo, heap, lists, TypeOK
  <2> QED
    BY <2>1, <1>3
<1>7. CASE \/ CountAll \/ SubtractNode \/ SubtractEnd \/ MoveEnd \/ Retain \/ Release \/ Return
           \/ UNCHANGED vars \/ \E s \in Slots : SubtractChild(s)
  <2>1. UNCHANGED <<owner, target, list>>
    BY <1>7 DEF CountAll, SubtractNode, SubtractEnd, MoveEnd, Retain, Release, Return,
                SubtractChild, vars, heap, lists
  <2> QED
    BY <2>1, <1>3
<1> QED
  BY <1>1, <1>2, <1>4, <1>5, <1>6, <1>7 DEF Next, Mark, FreeObjects

\* freeObjects on every heap: as long as only garbage was singled out, all it
\* does is to drop references of garbage and to destroy objects nothing refers
\* to, whatever is destroyed along the way.
THEOREM ReclaimsGarbage == Spec => OnlyGarbageReclaimed
<1>1. Init => MoveInv /\ ReclaimInv
  BY DEF Init, MoveInv, ReclaimInv
<1>2. Spec => []SubtractInv
  BY SubtractInvInit, SubtractInvStep, TypeCorrect, PTL DEF Spec
<1>3. Spec => [](MoveInv /\ ReclaimInv)
  BY <1>1, <1>2, MoveInvStep, ReclaimInvStep, TypeCorrect, PTL DEF Spec
<1> QED
  BY <1>3, ReclaimStep, TypeCorrect, PTL DEF Spec, OnlyGarbageReclaimed
=============================================================================
