-------------------------- MODULE GenerationsProofs --------------------------
(***************************************************************************)
(* The generations of the garbage collector for any number of threads and  *)
(* objects, any sizes and any width of the counters.                       *)
(***************************************************************************)
EXTENDS Generations, FiniteSetTheorems, TLAPS

\* Only a generation that has an older one is moved.
MovesUp == \A t \in Threads : pc[t] \in {"move", "exchange", "add"} => i[t] # Perm

TypeInv == TypeOK /\ MovesUp /\ GenAgrees

LEMMA WordsClosed ==
  /\ 0 \in Words
  /\ \A x, n \in Int : Plus(x, n) \in Words /\ Minus(x, n) \in Words
BY WordAssumption DEF Words, Plus, Minus

LEMMA TypeStep == TypeInv /\ [Next]_vars => TypeOK' /\ MovesUp'
<1> SUFFICES ASSUME TypeInv, [Next]_vars
             PROVE  TypeOK' /\ MovesUp'
  OBVIOUS
<1> USE DEF TypeInv, TypeOK, MovesUp, Goto, objects, locals
<1>g. /\ Gens = {0, 1, 2} /\ Young = 0 /\ Old = 1 /\ Perm = 2 /\ None = -1
  BY DEF Gens, Young, Old, Perm, None
<1>1. ASSUME NEW t \in Threads, NEW o \in Objects, New(t, o) PROVE TypeOK' /\ MovesUp'
  BY <1>1 DEF New, Collecting
<1>2. ASSUME NEW t \in Threads, Check(t) PROVE TypeOK' /\ MovesUp'
  <2>1. CASE Full(Young) /\ ~flag
    <3>1. pc' \in [Threads -> Collecting \cup {"idle", "check", "attach", "count", "uncount", "detach"}]
      BY <1>2, <2>1 DEF Check, Call, Collecting
    <3>2. i' \in [Threads -> Gens] /\ MovesUp'
      BY <1>2, <2>1, <1>g DEF Check, Call, Collecting
    <3>3. /\ flag' \in BOOLEAN /\ mode' \in [Threads -> {"Fast", "Full"}]
          /\ due' \in [Threads -> BOOLEAN]
      BY <1>2, <2>1 DEF Check, Call
    <3>4. back' \in [Threads -> {"idle", "attach"}] /\ start' \in [Objects -> Gens \cup {None}]
      BY <1>2, <2>1 DEF Check, Call
    <3> QED
      BY <1>2, <3>1, <3>2, <3>3, <3>4 DEF Check
  <2>2. CASE ~Full(Young) \/ flag
    BY <1>2, <2>2, <1>g DEF Check, Call, Collecting
  <2> QED
    BY <2>1, <2>2
<1>3. ASSUME NEW t \in Threads, Attach(t) PROVE TypeOK' /\ MovesUp'
  BY <1>3, <1>g DEF Attach, Collecting
<1>4. ASSUME NEW t \in Threads, Count(t) PROVE TypeOK' /\ MovesUp'
  <2>1. Plus(used[Young], 1) \in Words
    BY WordsClosed, <1>g DEF Words
  <2> QED
    BY <1>4, <2>1, <1>g DEF Count, Collecting
<1>5. ASSUME NEW t \in Threads, CallFull(t) PROVE TypeOK' /\ MovesUp'
  <2>1. CASE ~flag
    <3>1. pc' \in [Threads -> Collecting \cup {"idle", "check", "attach", "count", "uncount", "detach"}]
      BY <1>5, <2>1 DEF CallFull, Call, Collecting
    <3>2. i' \in [Threads -> Gens] /\ MovesUp'
      BY <1>5, <2>1, <1>g DEF CallFull, Call, Collecting
    <3>3. flag' \in BOOLEAN /\ mode' \in [Threads -> {"Fast", "Full"}]
      BY <1>5, <2>1 DEF CallFull, Call
    <3>4. due' \in [Threads -> BOOLEAN]
      BY <1>5, <2>1 DEF CallFull, Call
    <3>5. back' \in [Threads -> {"idle", "attach"}] /\ start' \in [Objects -> Gens \cup {None}]
      BY <1>5, <2>1 DEF CallFull, Call
    <3> QED
      BY <1>5, <3>1, <3>2, <3>3, <3>4, <3>5 DEF CallFull
  <2>2. CASE flag
    BY <1>5, <2>2, <1>g DEF CallFull, Call, Collecting
  <2> QED
    BY <2>1, <2>2
<1>6. ASSUME NEW t \in Threads, NEW o \in Objects, Drop(t, o) PROVE TypeOK' /\ MovesUp'
  BY <1>6, <1>g, GenerationsAssumption DEF Drop, Collecting, GenAgrees
<1>7. ASSUME NEW t \in Threads, Uncount(t) PROVE TypeOK' /\ MovesUp'
  <2>1. Minus(used[from[t]], 1) \in Words
    <3>1. used[from[t]] \in Int
      BY DEF Words
    <3> QED
      BY <3>1, WordsClosed
  <2> QED
    BY <1>7, <2>1, <1>g DEF Uncount, Collecting
<1>8. ASSUME NEW t \in Threads, Detach(t) PROVE TypeOK' /\ MovesUp'
  BY <1>8, <1>g DEF Detach, Collecting
<1>9. ASSUME NEW t \in Threads, Test(t) PROVE TypeOK' /\ MovesUp'
  <2>1. /\ due' \in [Threads -> BOOLEAN]
        /\ UNCHANGED <<objects, used, flag, resident, obj, dead, from, mode, size, back,
                       resume, start, raced, undefined>>
    BY <1>9 DEF Test
  <2>2. /\ i' \in [Threads -> Gens]
        /\ \E l \in {"test", "end", "mark"} : Goto(t, l) /\ \A s \in Threads \ {t} : i'[s] = i[s]
    BY <1>9, <1>g DEF Test, NextRound
  <2> QED
    BY <2>1, <2>2, <1>g DEF Collecting
<1>10. ASSUME NEW t \in Threads, Mark(t) PROVE TypeOK' /\ MovesUp'
  BY <1>10, <1>g DEF Mark, Collecting
<1>11. ASSUME NEW t \in Threads, DestroyAgain(t) PROVE TypeOK' /\ MovesUp'
  BY <1>11, <1>g DEF DestroyAgain
<1>12. ASSUME NEW t \in Threads, FreeEnd(t) PROVE TypeOK' /\ MovesUp'
  BY <1>12, <1>g, WordsClosed DEF FreeEnd, NextRound, Collecting
<1>13. ASSUME NEW t \in Threads, Move(t) PROVE TypeOK' /\ MovesUp'
  <2>1. Plus(resident, 0) \in Words
    BY WordsClosed DEF Words
  <2>2. i[t] + 1 \in Gens
    BY <1>13, <1>g DEF Move
  <2> QED
    BY <1>13, <1>g, <2>1, <2>2 DEF Move, AfterMove, NextRound, Collecting
<1>14. ASSUME NEW t \in Threads, Exchange(t) PROVE TypeOK' /\ MovesUp'
  BY <1>14, <1>g, WordsClosed DEF Exchange, Collecting
<1>15. ASSUME NEW t \in Threads, Add(t) PROVE TypeOK' /\ MovesUp'
  <2>1. Plus(resident, size[t]) \in Words
    BY WordsClosed DEF Words
  <2>2. i[t] + 1 \in Gens
    BY <1>15, <1>g DEF Add
  <2>3. Plus(used[i[t] + 1], size[t]) \in Words /\ 0 \in Words
    BY WordsClosed, <2>2 DEF Words
  <2> QED
    BY <1>15, <1>g, <2>1, <2>2, <2>3 DEF Add, AfterMove, NextRound, Collecting
<1>16. ASSUME NEW t \in Threads, End(t) PROVE TypeOK' /\ MovesUp'
  BY <1>16, <1>g DEF End, Return, Collecting
<1>17. CASE UNCHANGED vars
  BY <1>17 DEF vars
<1> QED
  BY <1>1, <1>2, <1>3, <1>4, <1>5, <1>6, <1>7, <1>8, <1>9, <1>10, <1>11, <1>12, <1>13, <1>14,
     <1>15, <1>16, <1>17 DEF Next, Track, Untrack, Collect

LEMMA AgreeStep == TypeInv /\ [Next]_vars => GenAgrees'
<1> SUFFICES ASSUME TypeInv, [Next]_vars
             PROVE  GenAgrees'
  OBVIOUS
<1> USE GenerationsAssumption DEF TypeInv, TypeOK, GenAgrees
<1>g. /\ Gens = {0, 1, 2} /\ Young = 0 /\ Perm = 2 /\ None = -1
  BY DEF Gens, Young, Old, Perm, None
<1>1. CASE UNCHANGED <<list, gen>>
  BY <1>1
<1>2. ASSUME NEW t \in Threads, Attach(t) PROVE GenAgrees'
  BY <1>2, <1>g DEF Attach
<1>3. ASSUME NEW t \in Threads, Detach(t) PROVE GenAgrees'
  BY <1>3, <1>g DEF Detach
<1>4. ASSUME NEW t \in Threads, Mark(t) PROVE GenAgrees'
  <2>1. gen' = gen /\ \A o \in Objects : list'[o] = list[o] \/ (list'[o] = t /\ list[o] = i[t])
    <3>1. PICK S \in SUBSET {o \in On(i[t]) : stage[o] = "live"} :
            list' = [o \in Objects |-> IF o \in S \/ (list[o] = i[t] /\ stage[o] = "dying")
                                      THEN t ELSE list[o]]
      BY <1>4 DEF Mark
    <3>2. \A o \in S : list[o] = i[t]
      BY DEF On
    <3>3. gen' = gen
      BY <1>4 DEF Mark
    <3> QED
      BY <3>1, <3>2, <3>3
  <2>2. t \notin Gens /\ t # None /\ i[t] \in Gens /\ i[t] # None
    BY <1>g
  <2> QED
    BY <2>1, <2>2
<1>5. ASSUME NEW t \in Threads, Move(t) PROVE GenAgrees'
  <2>1. i[t] \in Gens /\ i[t] + 1 \in Gens
    BY <1>5, <1>g DEF Move, MovesUp
  <2> QED
    BY <1>5, <2>1, <1>g DEF Move
<1> QED
  BY <1>1, <1>2, <1>3, <1>4, <1>5 DEF Next, Track, Untrack, Collect, New, Check, Count, CallFull, Drop,
     Uncount, Test, DestroyAgain, FreeEnd, Exchange, Add, End, objects, vars

LEMMA InitTyped == Init => TypeInv
<1> SUFFICES ASSUME Init PROVE TypeOK /\ MovesUp /\ GenAgrees
  BY DEF TypeInv
<1>1. /\ used \in [Gens -> Words] /\ size \in [Threads -> Words]
      /\ resident \in Words
  BY WordsClosed DEF Init
<1>2. from \in [Threads -> Gens] /\ i \in [Threads -> Gens]
  BY DEF Init, Gens
<1>3. TypeOK
  <2>1. /\ pc \in [Threads -> Collecting \cup {"idle", "check", "attach", "count", "uncount", "detach"}]
        /\ due \in [Threads -> BOOLEAN]
    BY DEF Init
  <2> QED
    BY <1>1, <1>2, <2>1 DEF Init, TypeOK
<1>4. MovesUp /\ GenAgrees
  BY DEF Init, MovesUp, GenAgrees, Gens, Young, Old, Perm, None
<1> QED
  BY <1>3, <1>4

\* Type correctness: the counters keep to their width, nobody moves the oldest
\* generation.
THEOREM TypeCorrect == Spec => []TypeOK
BY InitTyped, TypeStep, AgreeStep, PTL DEF Spec, TypeInv

\* untrack finds the lock and the counter of an object by its gen, which is the
\* generation of the list it is on.
THEOREM ListsAgree == Spec => []GenAgrees
BY InitTyped, TypeStep, AgreeStep, PTL DEF Spec, TypeInv

-----------------------------------------------------------------------------
\* Where a thread is, with the destruction of an object that freeObjects began
\* counted as part of freeObjects.
Phase(t)  == IF pc[t] \in {"uncount", "detach"} THEN resume[t] ELSE pc[t]
Inside(t) == Phase(t) \in Collecting

\* The flag keeps all threads but one out of collect, and only that one has
\* singled out objects.
OneInside == /\ \A t \in Threads : Inside(t) => flag
             /\ \A s, t \in Threads : Inside(s) /\ Inside(t) => s = t
             /\ \A t \in Threads : On(t) # {} => Phase(t) = "free"

LEMMA OneInsideStep == TypeInv /\ OneInside /\ [Next]_vars => OneInside'
<1> SUFFICES ASSUME TypeInv, OneInside, [Next]_vars
             PROVE  OneInside'
  OBVIOUS
<1>t. /\ pc \in [Threads -> Collecting \cup {"idle", "check", "attach", "count", "uncount", "detach"}]
      /\ list \in [Objects -> Gens \cup Threads \cup {None}]
      /\ back \in [Threads -> {"idle", "attach"}] /\ resume \in [Threads -> {"idle", "free"}]
      /\ i \in [Threads -> Gens] /\ Threads \cap Gens = {} /\ None \notin Threads
  BY GenerationsAssumption DEF TypeInv, TypeOK
<1> USE DEF Inside, Phase, On, Goto, Collecting
\* Steps outside of collect, and those of freeObjects that destroy an object.
<1>1. ASSUME UNCHANGED flag,
             \A s \in Threads : /\ Inside(s)' => Inside(s)
                                /\ Phase(s) = "free" => Phase(s)' = "free"
                                /\ On(s)' \subseteq On(s)
      PROVE  OneInside'
  BY <1>1 DEF OneInside
\* The call that finds the flag clear.
<1>2. ASSUME NEW t \in Threads, UNCHANGED list, ~flag, flag',
             \A s \in Threads \ {t} : Phase(s)' = Phase(s)
      PROVE  OneInside'
  BY <1>2 DEF OneInside
\* The steps of the thread that collects.
<1>3. ASSUME NEW t \in Threads, Inside(t), UNCHANGED flag,
             On(t)' = {} \/ Phase(t)' = "free",
             \A s \in Threads \ {t} : Phase(s)' = Phase(s) /\ On(s)' = On(s)
      PROVE  OneInside'
  BY <1>3 DEF OneInside
<1>4. ASSUME NEW t \in Threads, NEW o \in Objects, New(t, o) PROVE OneInside'
  BY <1>1, <1>4, <1>t DEF New
<1>5. ASSUME NEW t \in Threads, NEW m, NEW ret \in {"idle", "attach"}, Call(t, m, ret),
             pc[t] \in {"idle", "check"}, UNCHANGED <<list, resume>>
      PROVE  OneInside'
  <2>1. CASE flag
    BY <1>1, <1>5, <2>1, <1>t DEF Call
  <2>2. CASE ~flag
    BY <1>2, <1>5, <2>2, <1>t DEF Call
  <2> QED
    BY <2>1, <2>2
<1>6. ASSUME NEW t \in Threads, Check(t) PROVE OneInside'
  <2>1. CASE Full(Young)
    BY <1>5, <1>6, <2>1 DEF Check, objects
  <2>2. CASE ~Full(Young)
    BY <1>1, <1>6, <2>2, <1>t DEF Check, objects
  <2> QED
    BY <2>1, <2>2
<1>7. ASSUME NEW t \in Threads, Attach(t) PROVE OneInside'
  BY <1>1, <1>7, <1>t DEF Attach, locals, Gens
<1>8. ASSUME NEW t \in Threads, Count(t) PROVE OneInside'
  BY <1>1, <1>8, <1>t DEF Count
<1>9. ASSUME NEW t \in Threads, CallFull(t) PROVE OneInside'
  BY <1>5, <1>9 DEF CallFull, objects
<1>10. ASSUME NEW t \in Threads, NEW o \in Objects, Drop(t, o) PROVE OneInside'
  BY <1>1, <1>10, <1>t DEF Drop
<1>11. ASSUME NEW t \in Threads, Uncount(t) PROVE OneInside'
  BY <1>1, <1>11, <1>t DEF Uncount, objects, locals
<1>12. ASSUME NEW t \in Threads, Detach(t) PROVE OneInside'
  BY <1>1, <1>12, <1>t DEF Detach
<1>13. ASSUME NEW t \in Threads, Test(t) PROVE OneInside'
  BY <1>3, <1>13, <1>t DEF Test, NextRound, objects, OneInside
<1>14. ASSUME NEW t \in Threads, Mark(t) PROVE OneInside'
  <2>1. PICK S \in SUBSET {o \in On(i[t]) : stage[o] = "live"} :
          list' = [o \in Objects |-> IF o \in S \/ (list[o] = i[t] /\ stage[o] = "dying")
                                    THEN t ELSE list[o]]
    BY <1>14 DEF Mark
  <2>2. \A o \in S : list[o] = i[t]
    OBVIOUS
  <2>3. i[t] \notin Threads
    BY <1>t
  <2>4. \A s \in Threads \ {t} : On(s)' = On(s)
    BY <2>1, <2>2, <2>3
  <2> QED
    BY <1>3, <1>14, <2>4, <1>t DEF Mark, locals
<1>15. ASSUME NEW t \in Threads, DestroyAgain(t) PROVE OneInside'
  BY <1>1, <1>15 DEF DestroyAgain, objects, locals
<1>16. ASSUME NEW t \in Threads, FreeEnd(t) PROVE OneInside'
  BY <1>3, <1>16, <1>t DEF FreeEnd, NextRound, objects
<1>17. ASSUME NEW t \in Threads, Move(t) PROVE OneInside'
  <2>1. On(t) = {}
    BY <1>17 DEF Move, OneInside
  <2>2. i[t] \notin Threads /\ i[t] + 1 \notin Threads
    BY <1>17, <1>t DEF Move, TypeInv, MovesUp, Gens, Young, Old, Perm
  <2>3. \A s \in Threads : On(s)' = On(s)
    BY <1>17, <2>2, <1>t DEF Move
  <2> QED
    BY <1>3, <1>17, <2>1, <2>3, <1>t DEF Move, AfterMove, NextRound
<1>18. ASSUME NEW t \in Threads, Exchange(t) PROVE OneInside'
  BY <1>3, <1>18, <1>t DEF Exchange, objects, OneInside
<1>19. ASSUME NEW t \in Threads, Add(t) PROVE OneInside'
  BY <1>3, <1>19, <1>t DEF Add, AfterMove, NextRound, objects, OneInside
<1>20. ASSUME NEW t \in Threads, End(t) PROVE OneInside'
  BY <1>20, <1>t DEF End, Return, objects, OneInside
<1>21. CASE UNCHANGED vars
  BY <1>21 DEF vars, objects, locals, OneInside
<1> QED
  BY <1>4, <1>6, <1>7, <1>8, <1>9, <1>10, <1>11, <1>12, <1>13, <1>14, <1>15, <1>16, <1>17, <1>18,
     <1>19, <1>20, <1>21 DEF Next, Track, Untrack, Collect

-----------------------------------------------------------------------------
\* The object a thread is creating or destroying is its own, from the step that
\* takes it to the one that lets go.
Tracks(t)   == pc[t] \in {"check", "attach", "count"} \/ (Inside(t) /\ back[t] = "attach")
Untracks(t) == pc[t] \in {"uncount", "detach"}

Owned == /\ \A t \in Threads : Tracks(t) => /\ obj[t] \in Objects
                                            /\ stage[obj[t]] = "new"
                                            /\ (pc[t] = "count" <=> list[obj[t]] # None)
         /\ \A t \in Threads : Untracks(t) => /\ dead[t] \in Objects
                                              /\ stage[dead[t]] = "dying"
                                              /\ list[dead[t]] # None
         /\ \A s, t \in Threads : Tracks(s) /\ Tracks(t) /\ obj[s] = obj[t] => s = t
         /\ \A s, t \in Threads : Untracks(s) /\ Untracks(t) /\ dead[s] = dead[t] => s = t
         /\ \A o \in Objects : stage[o] = "free" => list[o] = None

LEMMA OwnedStep == TypeInv /\ OneInside /\ Owned /\ [Next]_vars => Owned'
<1> SUFFICES ASSUME TypeInv, OneInside, Owned, [Next]_vars
             PROVE  Owned'
  OBVIOUS
<1>t. /\ pc \in [Threads -> Collecting \cup {"idle", "check", "attach", "count", "uncount", "detach"}]
      /\ list \in [Objects -> Gens \cup Threads \cup {None}]
      /\ stage \in [Objects -> {"free", "new", "live", "garbage", "dying"}]
      /\ obj \in [Threads -> Objects \cup {None}] /\ dead \in [Threads -> Objects \cup {None}]
      /\ back \in [Threads -> {"idle", "attach"}] /\ resume \in [Threads -> {"idle", "free"}]
      /\ i \in [Threads -> Gens] /\ Threads \cap Gens = {} /\ None \notin Threads
  BY GenerationsAssumption DEF TypeInv, TypeOK
<1>n. None \notin Gens
  BY DEF None, Gens, Young, Old, Perm
\* Steps that neither take nor let go of an object.
<1>1. ASSUME UNCHANGED <<stage, obj, dead>>,
             \A o \in Objects : list'[o] = None <=> list[o] = None,
             \A t \in Threads : Tracks(t)' => Tracks(t) /\ (pc'[t] = "count" <=> pc[t] = "count"),
             \A t \in Threads : Untracks(t)' => Untracks(t)
      PROVE  Owned'
  BY <1>1 DEF Owned
<1> USE DEF Inside, Phase, Goto, Collecting, Tracks, Untracks
<1>4. ASSUME NEW t \in Threads, NEW o \in Objects, New(t, o) PROVE Owned'
  BY <1>4, <1>t DEF New, Owned
<1>5. ASSUME NEW t \in Threads, NEW m, NEW ret \in {"idle", "attach"}, Call(t, m, ret),
             pc[t] = (IF ret = "idle" THEN "idle" ELSE "check"), UNCHANGED <<list, resume, stage, obj, dead>>
      PROVE  Owned'
  <2>1. CASE flag
    BY <1>1, <1>5, <2>1, <1>t DEF Call
  <2>2. CASE ~flag
    BY <1>1, <1>5, <2>2, <1>t DEF Call
  <2> QED
    BY <2>1, <2>2
<1>6. ASSUME NEW t \in Threads, Check(t) PROVE Owned'
  <2>1. CASE Full(Young)
    BY <1>5, <1>6, <2>1 DEF Check, objects
  <2>2. CASE ~Full(Young)
    BY <1>1, <1>6, <2>2, <1>t DEF Check, objects
  <2> QED
    BY <2>1, <2>2
<1>7. ASSUME NEW t \in Threads, Attach(t) PROVE Owned'
  BY <1>7, <1>t, <1>n DEF Attach, locals, Gens, Owned
<1>8. ASSUME NEW t \in Threads, Count(t) PROVE Owned'
  BY <1>8, <1>t DEF Count, Owned
<1>9. ASSUME NEW t \in Threads, CallFull(t) PROVE Owned'
  BY <1>5, <1>9 DEF CallFull, objects
<1>10. ASSUME NEW t \in Threads, NEW o \in Objects, Drop(t, o) PROVE Owned'
  BY <1>10, <1>t, <1>n DEF Drop, Owned
<1>11. ASSUME NEW t \in Threads, Uncount(t) PROVE Owned'
  BY <1>1, <1>11, <1>t DEF Uncount, objects, locals
<1>12. ASSUME NEW t \in Threads, Detach(t) PROVE Owned'
  BY <1>12, <1>t DEF Detach, Owned
<1>13. ASSUME NEW t \in Threads, Test(t) PROVE Owned'
  BY <1>1, <1>13, <1>t DEF Test, NextRound, objects
<1>14. ASSUME NEW t \in Threads, Mark(t) PROVE Owned'
  <2>1. PICK S \in SUBSET {o \in On(i[t]) : stage[o] = "live"} : \E G \in SUBSET S :
          /\ list' = [o \in Objects |-> IF o \in S \/ (list[o] = i[t] /\ stage[o] = "dying")
                                        THEN t ELSE list[o]]
          /\ stage' = [o \in Objects |-> IF o \in G THEN "garbage" ELSE stage[o]]
    BY <1>14 DEF Mark
  <2>2. \A o \in S : list[o] = i[t] /\ stage[o] = "live"
    BY DEF On
  <2>3. i[t] # None /\ t # None
    BY <1>t, <1>n
  <2>4. \A o \in Objects : list'[o] = None <=> list[o] = None
    BY <2>1, <2>2, <2>3
  <2>5. \A o \in Objects : stage'[o] = stage[o] \/ (stage[o] = "live" /\ stage'[o] = "garbage")
    BY <2>1, <2>2
  <2>6. /\ UNCHANGED <<obj, dead, back, resume>>
        /\ pc[t] = "mark" /\ pc' = [pc EXCEPT ![t] = "free"]
    BY <1>14 DEF Mark, locals
  <2>7. \A s \in Threads : /\ Tracks(s)' => Tracks(s) /\ (pc'[s] = "count" <=> pc[s] = "count")
                           /\ Untracks(s)' => Untracks(s)
    BY <1>t, <2>6
  <2> QED
    BY <2>4, <2>5, <2>6, <2>7 DEF Owned
<1>15. ASSUME NEW t \in Threads, DestroyAgain(t) PROVE Owned'
  BY <1>1, <1>15 DEF DestroyAgain, objects, locals
<1>16. ASSUME NEW t \in Threads, FreeEnd(t) PROVE Owned'
  BY <1>1, <1>16, <1>t DEF FreeEnd, NextRound, objects
<1>17. ASSUME NEW t \in Threads, Move(t) PROVE Owned'
  <2>1. i[t] # None /\ i[t] + 1 # None
    BY <1>17, <1>t DEF Move, TypeInv, MovesUp, Gens, Young, Old, Perm, None
  <2>2. \A o \in Objects : list'[o] = None <=> list[o] = None
    BY <1>17, <2>1, <1>t DEF Move
  <2> QED
    BY <1>1, <1>17, <2>2, <1>t DEF Move, AfterMove, NextRound
<1>18. ASSUME NEW t \in Threads, Exchange(t) PROVE Owned'
  BY <1>1, <1>18, <1>t DEF Exchange, objects
<1>19. ASSUME NEW t \in Threads, Add(t) PROVE Owned'
  BY <1>1, <1>19, <1>t DEF Add, AfterMove, NextRound, objects
<1>20. ASSUME NEW t \in Threads, End(t) PROVE Owned'
  BY <1>1, <1>20, <1>t DEF End, Return, objects
<1>21. CASE UNCHANGED vars
  BY <1>1, <1>21 DEF vars, objects, locals
<1> QED
  BY <1>4, <1>6, <1>7, <1>8, <1>9, <1>10, <1>11, <1>12, <1>13, <1>14, <1>15, <1>16, <1>17, <1>18,
     <1>19, <1>20, <1>21 DEF Next, Track, Untrack, Collect

-----------------------------------------------------------------------------
\* Arithmetic modulo the width of a counter.
LEMMA Remainder ==
  ASSUME NEW a \in Int
  PROVE  (a % Word) \in Words /\ \E k \in Int : a - (a % Word) = k * Word
<1>1. \A W \in Nat \ {0} : \E k \in Int : a - (a % W) = k * W
  <2> SUFFICES ASSUME NEW W \in Nat, W > 0 PROVE \E k \in Int : a - (a % W) = k * W
    OBVIOUS
  <2>1. a = W * (a \div W) + (a % W)
    OBVIOUS
  <2>2. a - (a % W) = (a \div W) * W /\ a \div W \in Int
    BY <2>1
  <2> QED
    BY <2>2
<1>2. (a % Word) \in Words
  BY WordAssumption DEF Words
<1> QED
  BY <1>1, <1>2, WordAssumption

\* No two counter values differ by a multiple of the width.
LEMMA SmallMultiple ==
  ASSUME NEW x \in Words, NEW y \in Words, NEW k \in Int, x - y = k * Word
  PROVE  x = y
<1>1. CASE k >= 1
  <2>1. k * Word >= Word
    BY <1>1, WordAssumption
  <2> QED
    BY <2>1, WordAssumption DEF Words
<1>2. CASE k <= -1
  <2>1. k * Word <= -Word
    BY <1>2, WordAssumption
  <2> QED
    BY <2>1, WordAssumption DEF Words
<1>3. CASE k = 0
  BY <1>3, WordAssumption DEF Words
<1> QED
  BY <1>1, <1>2, <1>3

\* Numbers that differ by a multiple of it are the same counter value.
LEMMA SameRemainder ==
  ASSUME NEW a \in Int, NEW b \in Int, NEW k \in Int, a - b = k * Word
  PROVE  a % Word = b % Word
<1>1. PICK p \in Int : a - (a % Word) = p * Word
  BY Remainder
<1>2. PICK q \in Int : b - (b % Word) = q * Word
  BY Remainder
<1>3. (a % Word) \in Words /\ (b % Word) \in Words
  BY Remainder
<1>4. (k - p + q) * Word = k * Word - p * Word + q * Word
  <2>1. ASSUME NEW W \in Int PROVE (k - p + q) * W = k * W - p * W + q * W
    OBVIOUS
  <2> QED
    BY <2>1, WordAssumption
<1>5. (a % Word) - (b % Word) = (k - p + q) * Word
  BY <1>1, <1>2, <1>3, <1>4, WordAssumption DEF Words
<1> QED
  BY <1>3, <1>5, SmallMultiple

\* A sum may wrap early or late.
LEMMA WrapAdd == \A a, b \in Int : ((a % Word) + b) % Word = (a + b) % Word
<1> SUFFICES ASSUME NEW a \in Int, NEW b \in Int PROVE ((a % Word) + b) % Word = (a + b) % Word
  OBVIOUS
<1>1. PICK k \in Int : a - (a % Word) = k * Word
  BY Remainder
<1>2. (a % Word) \in Int
  BY Remainder, WordAssumption DEF Words
<1>3. (a + b) - ((a % Word) + b) = k * Word
  BY <1>1, <1>2
<1> QED
  BY <1>2, <1>3, SameRemainder

\* A change of one counter is one of their sum.
Sum == used[Young] + used[Old] + used[Perm]

Changes(g, n) == used' = [used EXCEPT ![g] = (@ + n) % Word]

LEMMA SumChanges ==
  \A g \in Gens, n, x \in Int :
    used \in [Gens -> Words] /\ Changes(g, n) => (Sum' + x) % Word = (Sum + n + x) % Word
<1> SUFFICES ASSUME used \in [Gens -> Words], NEW g \in Gens, NEW n \in Int, NEW x \in Int, Changes(g, n)
             PROVE  (Sum' + x) % Word = (Sum + n + x) % Word
  OBVIOUS
<1> USE DEF Changes
<1>w. /\ used[Young] \in Int /\ used[Old] \in Int /\ used[Perm] \in Int
      /\ Young # Old /\ Young # Perm /\ Old # Perm
  BY WordAssumption DEF Words, Gens, Young, Old, Perm
<1>r. ((used[g] + n) % Word) \in Int
  <2>1. used[g] + n \in Int
    BY <1>w DEF Gens
  <2> QED
    BY <2>1, Remainder, WordAssumption DEF Words
<1>1. CASE g = Young
  <2> DEFINE a == used[Young] + n
             b == used[Old] + used[Perm] + x
  <2>1. a \in Int /\ b \in Int /\ Sum + n + x = a + b
    BY <1>w DEF Sum
  <2>2. Sum' + x = (a % Word) + b
    BY <1>1, <1>w, <1>r DEF Sum, Gens
  <2> HIDE DEF a, b
  <2>3. ((a % Word) + b) % Word = (a + b) % Word
    BY <2>1, WrapAdd
  <2> QED
    BY <2>1, <2>2, <2>3
<1>2. CASE g = Old
  <2> DEFINE a == used[Old] + n
             b == used[Young] + used[Perm] + x
  <2>1. a \in Int /\ b \in Int /\ Sum + n + x = a + b
    BY <1>w DEF Sum
  <2>2. Sum' + x = (a % Word) + b
    BY <1>2, <1>w, <1>r DEF Sum, Gens
  <2> HIDE DEF a, b
  <2>3. ((a % Word) + b) % Word = (a + b) % Word
    BY <2>1, WrapAdd
  <2> QED
    BY <2>1, <2>2, <2>3
<1>3. CASE g = Perm
  <2> DEFINE a == used[Perm] + n
             b == used[Young] + used[Old] + x
  <2>1. a \in Int /\ b \in Int /\ Sum + n + x = a + b
    BY <1>w DEF Sum
  <2>2. Sum' + x = (a % Word) + b
    BY <1>3, <1>w, <1>r DEF Sum, Gens
  <2> HIDE DEF a, b
  <2>3. ((a % Word) + b) % Word = (a + b) % Word
    BY <2>1, WrapAdd
  <2> QED
    BY <2>1, <2>2, <2>3
<1> QED
  BY <1>1, <1>2, <1>3 DEF Gens

LEMMA ChooseOne == \A x : (CHOOSE y \in {x} : TRUE) = x
OBVIOUS

\* What the thread that moves has taken.
LEMMA TransitOf ==
  ASSUME NEW t \in Threads, At("add") = {t}
  PROVE  InTransit = size[t]
BY ChooseOne DEF InTransit

LEMMA TransitKept ==
  ASSUME At("add")' = At("add"), UNCHANGED size
  PROVE  InTransit' = InTransit
<1>1. \A S, T : S = T => (CHOOSE t \in S : TRUE) = (CHOOSE t \in T : TRUE)
  OBVIOUS
<1>2. (CHOOSE t \in At("add") : TRUE)' = (CHOOSE t \in At("add") : TRUE)
  BY <1>1
<1> QED
  BY <1>2 DEF InTransit

\* Sets of threads and of objects can be counted.
LEMMA Countable ==
  \A S : S \subseteq Threads \/ S \subseteq Objects => IsFiniteSet(S) /\ Cardinality(S) \in Nat
BY GenerationsAssumption, FS_Subset, FS_CardinalityType

LEMMA OneMore ==
  \A S, x : (S \subseteq Threads \/ S \subseteq Objects) /\ x \notin S =>
    Cardinality(S \cup {x}) = Cardinality(S) + 1
BY Countable, FS_AddElement

LEMMA OneLess ==
  \A S, x : (S \subseteq Threads \/ S \subseteq Objects) /\ x \in S =>
    Cardinality(S \ {x}) = Cardinality(S) - 1
BY Countable, FS_RemoveElement

LEMMA SameAfter ==
  \A a, b, n \in Int : a % Word = b % Word => (a + n) % Word = (b + n) % Word
<1> SUFFICES ASSUME NEW a \in Int, NEW b \in Int, NEW n \in Int, a % Word = b % Word
             PROVE  (a + n) % Word = (b + n) % Word
  OBVIOUS
<1> QED
  BY WrapAdd

-----------------------------------------------------------------------------
\* What is counted and what there is to count, which every step keeps in step.
Balance   == Cardinality(Tracked) - Cardinality(At("count")) - Cardinality(At("detach"))
Conserved == (Sum + InTransit) % Word = Balance % Word

LEMMA Integral ==
  ASSUME TypeInv
  PROVE  Sum \in Int /\ InTransit \in Int /\ Balance \in Int
<1>1. Sum \in Int
  BY WordAssumption DEF TypeInv, TypeOK, Sum, Words, Gens
<1>2. InTransit \in Int
  <2>1. CASE At("add") = {}
    BY <2>1 DEF InTransit
  <2>2. CASE At("add") # {}
    <3>1. (CHOOSE t \in At("add") : TRUE) \in Threads
      BY <2>2 DEF At
    <3>2. size \in [Threads -> Words]
      BY DEF TypeInv, TypeOK
    <3> QED
      BY <2>2, <3>1, <3>2, WordAssumption DEF InTransit, Words
  <2> QED
    BY <2>1, <2>2
<1>3. Balance \in Int
  BY Countable DEF Balance, Tracked, At
<1> QED
  BY <1>1, <1>2, <1>3

LEMMA ConservedStep ==
  TypeInv /\ OneInside /\ Owned /\ Conserved /\ [Next]_vars => Conserved'
<1> SUFFICES ASSUME TypeInv, OneInside, Owned, Conserved, [Next]_vars
             PROVE  Conserved'
  OBVIOUS
<1>t. /\ pc \in [Threads -> Collecting \cup {"idle", "check", "attach", "count", "uncount", "detach"}]
      /\ list \in [Objects -> Gens \cup Threads \cup {None}]
      /\ used \in [Gens -> Words] /\ size \in [Threads -> Words]
      /\ from \in [Threads -> Gens] /\ i \in [Threads -> Gens]
      /\ back \in [Threads -> {"idle", "attach"}] /\ resume \in [Threads -> {"idle", "free"}]
      /\ None \notin Threads
  BY GenerationsAssumption DEF TypeInv, TypeOK
<1>i. Sum \in Int /\ InTransit \in Int /\ Balance \in Int
  BY Integral
<1>n. None \notin Gens /\ Young \in Gens
  BY DEF None, Gens, Young, Old, Perm
\* Steps that count nothing.
<1>1. ASSUME UNCHANGED <<used, size>>, Tracked' = Tracked,
             At("count")' = At("count"), At("detach")' = At("detach"), At("add")' = At("add")
      PROVE  Conserved'
  BY <1>1 DEF Conserved, Sum, InTransit, Balance
<1>2. ASSUME NEW t \in Threads, NEW o \in Objects, New(t, o) PROVE Conserved'
  BY <1>1, <1>2, <1>t DEF New, Goto, At, Tracked
<1>3. ASSUME NEW t \in Threads, Check(t) PROVE Conserved'
  BY <1>1, <1>3, <1>t DEF Check, Call, Goto, At, Tracked, objects
<1>4. ASSUME NEW t \in Threads, Attach(t) PROVE Conserved'
  <2>1. obj[t] \in Objects /\ list[obj[t]] = None
    BY <1>4 DEF Attach, Owned, Tracks
  <2>2. /\ At("count")' = At("count") \cup {t} /\ t \notin At("count")
        /\ At("detach")' = At("detach") /\ At("add")' = At("add")
    BY <1>4, <1>t DEF Attach, Goto, At
  <2>3. Tracked' = Tracked \cup {obj[t]} /\ obj[t] \notin Tracked
    BY <1>4, <1>t, <1>n, <2>1 DEF Attach, Tracked
  <2>4. /\ Cardinality(Tracked)' = Cardinality(Tracked) + 1
        /\ Cardinality(At("count"))' = Cardinality(At("count")) + 1
    BY <2>2, <2>3, OneMore DEF At, Tracked
  <2>5. UNCHANGED <<used, size>>
    BY <1>4 DEF Attach, locals
  <2>6. Cardinality(Tracked) \in Nat /\ Cardinality(At("count")) \in Nat /\ Cardinality(At("detach")) \in Nat
    BY Countable DEF At, Tracked
  <2>7. Balance' = Balance
    BY <2>2, <2>4, <2>6 DEF Balance
  <2> QED
    BY <2>2, <2>5, <2>7 DEF Conserved, Sum, InTransit
<1>5. ASSUME NEW t \in Threads, Count(t) PROVE Conserved'
  <2>1. /\ At("count")' = At("count") \ {t} /\ t \in At("count")
        /\ At("detach")' = At("detach") /\ At("add")' = At("add")
    BY <1>5, <1>t DEF Count, Goto, At
  <2>2. Tracked' = Tracked /\ UNCHANGED size
    BY <1>5 DEF Count, Tracked
  <2>3. Cardinality(At("count"))' = Cardinality(At("count")) - 1
    BY <2>1, OneLess DEF At
  <2>4. Cardinality(Tracked) \in Nat /\ Cardinality(At("count")) \in Nat /\ Cardinality(At("detach")) \in Nat
    BY Countable DEF At, Tracked
  <2>5. Balance' = Balance + 1
    BY <2>1, <2>2, <2>3, <2>4 DEF Balance
  <2>6. InTransit' = InTransit
    BY <2>1, <2>2, TransitKept
  <2>7. Changes(Young, 1)
    BY <1>5 DEF Count, Plus, Changes
  <2>8. (Sum' + InTransit) % Word = (Sum + 1 + InTransit) % Word
    BY <1>t, <1>n, <1>i, <2>7, SumChanges
  <2>9. (Sum + InTransit + 1) % Word = (Balance + 1) % Word
    BY <1>i, SameAfter DEF Conserved
  <2> QED
    BY <1>i, <2>5, <2>6, <2>8, <2>9 DEF Conserved
<1>6. ASSUME NEW t \in Threads, CallFull(t) PROVE Conserved'
  BY <1>1, <1>6, <1>t DEF CallFull, Call, Goto, At, Tracked, objects
<1>7. ASSUME NEW t \in Threads, NEW o \in Objects, Drop(t, o) PROVE Conserved'
  BY <1>1, <1>7, <1>t DEF Drop, Goto, At, Tracked
<1>8. ASSUME NEW t \in Threads, Uncount(t) PROVE Conserved'
  <2>1. /\ At("detach")' = At("detach") \cup {t} /\ t \notin At("detach")
        /\ At("count")' = At("count") /\ At("add")' = At("add")
    BY <1>8, <1>t DEF Uncount, Goto, At
  <2>2. Tracked' = Tracked /\ UNCHANGED size
    BY <1>8 DEF Uncount, Tracked, objects, locals
  <2>3. Cardinality(At("detach"))' = Cardinality(At("detach")) + 1
    BY <2>1, OneMore DEF At
  <2>4. Cardinality(Tracked) \in Nat /\ Cardinality(At("count")) \in Nat /\ Cardinality(At("detach")) \in Nat
    BY Countable DEF At, Tracked
  <2>5. Balance' = Balance + (-1)
    BY <2>1, <2>2, <2>3, <2>4 DEF Balance
  <2>0. InTransit' = InTransit
    BY <2>1, <2>2, TransitKept
  <2>6. Changes(from[t], -1) /\ from[t] \in Gens
    <3>1. used[from[t]] - 1 = used[from[t]] + (-1)
      BY <1>t, WordAssumption DEF Words
    <3> QED
      BY <1>8, <1>t, <3>1 DEF Uncount, Minus, Changes
  <2>7. (Sum' + InTransit) % Word = (Sum + (-1) + InTransit) % Word
    BY <1>t, <1>i, <2>6, SumChanges
  <2>8. (Sum + InTransit + (-1)) % Word = (Balance + (-1)) % Word
    BY <1>i, SameAfter DEF Conserved
  <2> QED
    BY <1>i, <2>0, <2>5, <2>7, <2>8 DEF Conserved
<1>9. ASSUME NEW t \in Threads, Detach(t) PROVE Conserved'
  <2>1. dead[t] \in Objects /\ list[dead[t]] # None
    BY <1>9 DEF Detach, Owned, Untracks
  <2>2. /\ At("detach")' = At("detach") \ {t} /\ t \in At("detach")
        /\ At("count")' = At("count") /\ At("add")' = At("add")
    BY <1>9, <1>t DEF Detach, Goto, At
  <2>3. Tracked' = Tracked \ {dead[t]} /\ dead[t] \in Tracked
    BY <1>9, <1>t, <2>1 DEF Detach, Tracked
  <2>4. /\ Cardinality(Tracked)' = Cardinality(Tracked) - 1
        /\ Cardinality(At("detach"))' = Cardinality(At("detach")) - 1
    BY <2>2, <2>3, OneLess DEF At, Tracked
  <2>5. UNCHANGED <<used, size>>
    BY <1>9 DEF Detach
  <2>6. Cardinality(Tracked) \in Nat /\ Cardinality(At("count")) \in Nat /\ Cardinality(At("detach")) \in Nat
    BY Countable DEF At, Tracked
  <2>7. Balance' = Balance
    BY <2>2, <2>4, <2>6 DEF Balance
  <2> QED
    BY <2>2, <2>5, <2>7 DEF Conserved, Sum, InTransit
<1>10. ASSUME NEW t \in Threads, Test(t) PROVE Conserved'
  BY <1>1, <1>10, <1>t DEF Test, NextRound, Goto, At, Tracked, objects
<1>11. ASSUME NEW t \in Threads, Mark(t) PROVE Conserved'
  <2>1. PICK S \in SUBSET {o \in On(i[t]) : stage[o] = "live"} :
          list' = [o \in Objects |-> IF o \in S \/ (list[o] = i[t] /\ stage[o] = "dying")
                                    THEN t ELSE list[o]]
    BY <1>11 DEF Mark
  <2>2. \A o \in S : list[o] = i[t]
    BY DEF On
  <2>3. i[t] # None /\ t # None
    BY <1>t, <1>n
  <2>4. Tracked' = Tracked
    BY <2>1, <2>2, <2>3 DEF Tracked
  <2> QED
    BY <1>1, <1>11, <2>4, <1>t DEF Mark, Goto, At, locals
<1>12. ASSUME NEW t \in Threads, DestroyAgain(t) PROVE Conserved'
  BY <1>1, <1>12 DEF DestroyAgain, objects, locals, At, Tracked
<1>13. ASSUME NEW t \in Threads, FreeEnd(t) PROVE Conserved'
  BY <1>1, <1>13, <1>t DEF FreeEnd, NextRound, Goto, At, Tracked, objects
<1>14. ASSUME NEW t \in Threads, Move(t) PROVE Conserved'
  <2>1. i[t] # None /\ i[t] + 1 # None
    BY <1>14, <1>t DEF Move, TypeInv, MovesUp, Gens, Young, Old, Perm, None
  <2>2. Tracked' = Tracked
    BY <1>14, <2>1, <1>t DEF Move, Tracked
  <2> QED
    BY <1>1, <1>14, <2>2, <1>t DEF Move, AfterMove, NextRound, Goto, At
<1>15. ASSUME NEW t \in Threads, Exchange(t) PROVE Conserved'
  <2>1. /\ At("count")' = At("count") /\ At("detach")' = At("detach") /\ Tracked' = Tracked
        /\ At("add") = {} /\ At("add")' = {t}
    BY <1>15, <1>t DEF Exchange, Goto, At, Tracked, objects, OneInside, Inside, Phase, Collecting
  <2>2. InTransit = 0 /\ InTransit' = used[i[t]]
    <3>1. size'[t] = used[i[t]]
      BY <1>15, <1>t DEF Exchange
    <3>2. (CHOOSE s \in At("add") : TRUE)' = t
      BY <2>1, ChooseOne
    <3> QED
      BY <2>1, <3>1, <3>2 DEF InTransit
  <2>3. Sum' + used[i[t]] = Sum
    <3>1. used' = [used EXCEPT ![i[t]] = 0] /\ i[t] \in Gens
      BY <1>15, <1>t DEF Exchange
    <3>2. \A g \in Gens : used[g] \in Int
      BY <1>t, WordAssumption DEF Words
    <3> QED
      BY <1>t, <3>1, <3>2 DEF Sum, Gens, Young, Old, Perm
  <2>4. Sum' + InTransit' = Sum + InTransit
    BY <1>i, <2>2, <2>3
  <2> QED
    BY <2>1, <2>4 DEF Conserved, Balance
<1>16. ASSUME NEW t \in Threads, Add(t) PROVE Conserved'
  <2>1. /\ At("count")' = At("count") /\ At("detach")' = At("detach") /\ Tracked' = Tracked
        /\ At("add") = {t} /\ At("add")' = {}
    BY <1>16, <1>t DEF Add, AfterMove, NextRound, Goto, At, Tracked, objects, OneInside, Inside,
       Phase, Collecting
  <2>2. InTransit = size[t] /\ InTransit' = 0 /\ size[t] \in Int
    BY <1>t, <2>1, TransitOf, WordAssumption DEF InTransit, Words
  <2>3. i[t] + 1 \in Gens
    BY <1>16, <1>t DEF Add, TypeInv, MovesUp, Gens, Young, Old, Perm
  <2>4. Changes(i[t] + 1, size[t])
    BY <1>16 DEF Add, Plus, Changes
  <2>6. (Sum' + 0) % Word = (Sum + size[t] + 0) % Word
    BY <1>t, <2>2, <2>3, <2>4, SumChanges
  <2> QED
    BY <1>i, <2>1, <2>2, <2>6 DEF Conserved, Balance
<1>17. ASSUME NEW t \in Threads, End(t) PROVE Conserved'
  BY <1>1, <1>17, <1>t DEF End, Return, Goto, At, Tracked, objects
<1>18. CASE UNCHANGED vars
  BY <1>1, <1>18 DEF vars, objects, locals, At, Tracked
<1> QED
  BY <1>2, <1>3, <1>4, <1>5, <1>6, <1>7, <1>8, <1>9, <1>10, <1>11, <1>12, <1>13, <1>14, <1>15,
     <1>16, <1>17, <1>18 DEF Next, Track, Untrack, Collect

\* The invariants so far, for the theorems that follow.
Basics == TypeInv /\ OneInside /\ Owned

LEMMA BasicsHold == Init /\ [][Next]_vars => []Basics
<1>1. Init => OneInside
  BY GenerationsAssumption DEF Init, OneInside, Inside, Phase, On, Collecting
<1>2. Init => Owned
  BY DEF Init, Owned, Inside, Phase, Collecting, Tracks, Untracks
<1> QED
  BY <1>1, <1>2, InitTyped, TypeStep, AgreeStep, OneInsideStep, OwnedStep, PTL DEF TypeInv, Basics

\* One collection at a time, whoever calls collect in the middle of it, and
\* whatever is destroyed by it.
THEOREM Collectors == Spec => []OneCollector
<1>1. Basics => OneCollector
  BY DEF Basics, OneInside, OneCollector, Inside, Phase, Collecting
<1> QED
  BY <1>1, BasicsHold, PTL DEF Spec

\* move, which exchanges one counter and adds to another while other threads
\* count their objects in and out, neither loses an object nor invents one.
THEOREM CountersConserved == Spec => []CountsConserved
<1>1. Init => Conserved
  <2> SUFFICES ASSUME Init PROVE Conserved
    OBVIOUS
  <2>1. Tracked = {} /\ At("count") = {} /\ At("detach") = {} /\ At("add") = {}
    BY DEF Init, Tracked, At
  <2>2. Sum = 0 /\ InTransit = 0
    BY <2>1 DEF Init, Sum, InTransit, Gens
  <2>3. Balance = 0
    BY <2>1, FS_EmptySet DEF Balance
  <2> QED
    BY <2>2, <2>3 DEF Conserved
<1>2. Basics /\ Conserved => CountsConserved
  <2> SUFFICES ASSUME Basics, Conserved PROVE CountsConserved
    OBVIOUS
  <2>1. Cardinality(Tracked) \in Nat /\ Cardinality(At("count")) \in Nat /\ Cardinality(At("detach")) \in Nat
    BY Countable DEF At, Tracked
  <2>2. Balance = Cardinality(Tracked) - (Cardinality(At("count")) + Cardinality(At("detach")))
    BY <2>1 DEF Balance
  <2> QED
    BY <2>2 DEF Conserved, CountsConserved, Sum, Plus, Minus
<1> QED
  BY <1>1, <1>2, BasicsHold, ConservedStep, PTL DEF Spec, Basics

-----------------------------------------------------------------------------
\* The objects of a generation that have been counted in and not yet out.
Counted == [g \in Gens |-> {o \in Objects : /\ gen[o] = g
                                            /\ \A t \in At("count") : obj[t] # o
                                            /\ \A t \in At("detach") : dead[t] # o}]
Amount  == [g \in Gens |-> Cardinality(Counted[g])]

Moving(t) == pc[t] \in {"exchange", "add"}
Quiet(g)  == \A t \in Threads : Moving(t) => i[t] # g /\ i[t] + 1 # g

\* Between its list operation and its exchange a move has taken the objects of
\* g to the older generation h and left the counter behind.
Shifted(g, h) == h = g + 1 /\ \E t \in At("exchange") : i[t] = g

\* A thread that is about to change a counter changes the one of its object.
Aimed == /\ \A t \in At("count") : gen[obj[t]] = Young \/ Shifted(Young, gen[obj[t]])
         /\ \A t \in At("uncount") : gen[dead[t]] = from[t] \/ Shifted(from[t], gen[dead[t]])

\* Every counter is that of its generation; those of the two generations of a
\* move are together that of the older one.
Matches == /\ \A t \in Threads : Moving(t) => \A o \in Objects : gen[o] # i[t]
           /\ \A g \in Gens : Quiet(g) => used[g] = Amount[g]
           /\ \A t \in At("exchange") : (used[i[t]] + used[i[t] + 1]) % Word = Amount[i[t] + 1]
           /\ \A t \in At("add") : /\ used[i[t]] = 0
                                   /\ (used[i[t] + 1] + size[t]) % Word = Amount[i[t] + 1]

Exact == ~raced => Aimed /\ Matches

LEMMA SmallAmount ==
  \A S \in SUBSET Objects :
    IsFiniteSet(S) /\ Cardinality(S) \in Words /\ Cardinality(S) % Word = Cardinality(S)
<1> SUFFICES ASSUME NEW S \in SUBSET Objects
             PROVE  /\ IsFiniteSet(S) /\ Cardinality(S) \in Words
                    /\ Cardinality(S) % Word = Cardinality(S)
  OBVIOUS
<1>1. IsFiniteSet(S) /\ Cardinality(S) \in Nat /\ Cardinality(S) <= Cardinality(Objects)
  BY GenerationsAssumption, FS_Subset, FS_CardinalityType
<1>2. Cardinality(Objects) \in Nat /\ Cardinality(Objects) < Word
  BY GenerationsAssumption, FS_CardinalityType
<1>3. \A x, W \in Nat : x < W => x % W = x
  OBVIOUS
<1> QED
  BY <1>1, <1>2, <1>3, WordAssumption DEF Words

LEMMA AmountSmall ==
  /\ \A g \in Gens : Amount[g] \in Words /\ Amount[g] % Word = Amount[g]
  /\ \A g \in Gens : Amount'[g] \in Words /\ Amount'[g] % Word = Amount'[g]
<1>1. /\ \A g \in Gens : Counted[g] \in SUBSET Objects
      /\ \A g \in Gens : Counted'[g] \in SUBSET Objects
  BY DEF Counted
<1> QED
  BY <1>1, SmallAmount DEF Amount

\* Steps that neither count nor move anything.
LEMMA MatchesKept ==
  ASSUME Matches, UNCHANGED <<used, size>>,
         \A s \in Threads : /\ (pc'[s] = "exchange" <=> pc[s] = "exchange")
                            /\ (pc'[s] = "add" <=> pc[s] = "add")
                            /\ (Moving(s) => i'[s] = i[s]),
         \A g \in Gens : Counted'[g] = Counted[g],
         \A t \in Threads : Moving(t) => i[t] \in Gens /\ i[t] + 1 \in Gens,
         \A t \in Threads : Moving(t) => \A o \in Objects : gen'[o] # i[t]
  PROVE  Matches'
<1>1. \A g \in Gens : Amount'[g] = Amount[g]
  BY DEF Amount
<1>2. \A s \in Threads : Moving(s)' <=> Moving(s)
  BY DEF Moving
<1>3. At("exchange")' = At("exchange") /\ At("add")' = At("add")
  BY DEF At
<1>4. \A t \in At("exchange") \cup At("add") : t \in Threads /\ Moving(t)
  BY DEF At, Moving
<1>5. \A g \in Gens : Quiet(g)' => Quiet(g)
  BY <1>2 DEF Quiet
<1>6. (\A t \in Threads : Moving(t) => \A o \in Objects : gen[o] # i[t])'
  BY <1>2
<1>7. (\A g \in Gens : Quiet(g) => used[g] = Amount[g])'
  BY <1>1, <1>5 DEF Matches
<1>8. (\A t \in At("exchange") : (used[i[t]] + used[i[t] + 1]) % Word = Amount[i[t] + 1])'
  <2> SUFFICES ASSUME NEW t \in At("exchange")
               PROVE  (used'[i'[t]] + used'[i'[t] + 1]) % Word = Amount'[i'[t] + 1]
    BY <1>3
  <2>1. i'[t] = i[t] /\ i[t] + 1 \in Gens
    BY <1>4
  <2>2. Amount'[i[t] + 1] = Amount[i[t] + 1]
    BY <2>1, <1>1
  <2> QED
    BY <2>1, <2>2 DEF Matches
<1>9. (\A t \in At("add") : /\ used[i[t]] = 0
                            /\ (used[i[t] + 1] + size[t]) % Word = Amount[i[t] + 1])'
  <2> SUFFICES ASSUME NEW t \in At("add")
               PROVE  used'[i'[t]] = 0 /\ (used'[i'[t] + 1] + size'[t]) % Word = Amount'[i'[t] + 1]
    BY <1>3
  <2>1. i'[t] = i[t] /\ i[t] + 1 \in Gens
    BY <1>4
  <2> QED
    BY <2>1, <1>1 DEF Matches
<1> QED
  BY <1>6, <1>7, <1>8, <1>9 DEF Matches

\* One of two counters that are c together is changed by n.
Counts(a, b, c, n, a1) == (a + b) % Word = c % Word /\ a1 = (a + n) % Word

LEMMA CountType == \A a, n \in Int : ((a + n) % Word) \in Int
BY Remainder, WordAssumption DEF Words

LEMMA CountsTogether ==
  \A a, b, c, n, a1 \in Int : Counts(a, b, c, n, a1) => /\ (a1 + b) % Word = (c + n) % Word
                                                        /\ (b + a1) % Word = (c + n) % Word
<1> SUFFICES ASSUME NEW a \in Int, NEW b \in Int, NEW c \in Int, NEW n \in Int, NEW a1 \in Int,
                    Counts(a, b, c, n, a1)
             PROVE  (a1 + b) % Word = (c + n) % Word
  OBVIOUS
<1>1. (((a + n) % Word) + b) % Word = (a + n + b) % Word
  BY WrapAdd
<1>2. a + n + b = a + b + n
  OBVIOUS
<1>3. (a + b + n) % Word = (c + n) % Word
  <2>1. PICK p \in Int : p = a + b
    OBVIOUS
  <2>2. p % Word = c % Word
    BY <2>1 DEF Counts
  <2>3. (p + n) % Word = (c + n) % Word
    BY <2>2, SameAfter
  <2> QED
    BY <2>1, <2>3
<1> QED
  BY <1>1, <1>2, <1>3 DEF Counts

\* An object is counted in or out: by n in the counter of f, and it is one of g.
LEMMA MatchesCounted ==
  ASSUME Matches, Basics, NEW f \in Gens, NEW n \in Int, Changes(f, n),
         NEW g \in Gens, g = f \/ Shifted(f, g), \E o \in Objects : gen[o] = g,
         Amount'[g] = Amount[g] + n, \A h \in Gens \ {g} : Amount'[h] = Amount[h],
         UNCHANGED <<i, size, gen>>,
         At("exchange")' = At("exchange"), At("add")' = At("add")
  PROVE  Matches'
<1>t. /\ used \in [Gens -> Words] /\ size \in [Threads -> Words] /\ i \in [Threads -> Gens]
      /\ Words \subseteq Int
  BY WordAssumption DEF Basics, TypeInv, TypeOK, Words
<1>m. /\ \A t \in Threads : Moving(t) <=> t \in At("exchange") \cup At("add")
      /\ \A t \in Threads : Moving(t)' <=> Moving(t)
      /\ At("exchange") \cup At("add") \subseteq Threads
  BY DEF Moving, At
<1>o. /\ \A s, t \in Threads : Moving(s) /\ Moving(t) => s = t
      /\ \A t \in Threads : Moving(t) => i[t] + 1 \in Gens /\ i[t] # i[t] + 1
      /\ \A t \in At("exchange") : t \notin At("add")
  BY <1>t DEF Moving, Basics, OneInside, Inside, Phase, Collecting, TypeInv, MovesUp, Gens,
     Young, Old, Perm, At
<1>a. \A h \in Gens : Amount[h] \in Words /\ Amount[h] % Word = Amount[h]
  BY AmountSmall
<1>b. Amount'[g] \in Words /\ Amount'[g] % Word = Amount'[g]
  BY AmountSmall
\* No object is left on the generation that is moved, so that g is not it.
<1>g. \A t \in Threads : Moving(t) => g # i[t]
  BY DEF Matches
<1>u. used' = [used EXCEPT ![f] = (used[f] + n) % Word]
  BY DEF Changes
<1>1. (\A t \in Threads : Moving(t) => \A o \in Objects : gen[o] # i[t])'
  BY <1>m DEF Matches
<1>2. (\A h \in Gens : Quiet(h) => used[h] = Amount[h])'
  <2> SUFFICES ASSUME NEW h \in Gens, Quiet(h) PROVE used'[h] = Amount'[h]
    BY <1>m DEF Quiet
  <2>1. used[h] = Amount[h]
    BY DEF Matches
  <2>2. CASE h = f
    <3>1. g = f
      <4>1. ~ Shifted(f, g)
        BY <1>m, <2>2 DEF Shifted, Quiet, At
      <4> QED
        BY <4>1
    <3>2. used'[h] = (Amount[g] + n) % Word
      BY <1>t, <1>u, <2>1, <2>2, <3>1
    <3> QED
      BY <3>1, <3>2, <2>2, <1>b
  <2>3. CASE h # f
    <3>1. h # g
      BY <1>m, <2>3 DEF Shifted, Quiet, At
    <3> QED
      BY <1>t, <1>u, <2>1, <2>3, <3>1
  <2> QED
    BY <2>2, <2>3
<1>3. ASSUME NEW t \in At("exchange")
      PROVE  (used'[i[t]] + used'[i[t] + 1]) % Word = Amount'[i[t] + 1]
  <2>1. t \in Threads /\ Moving(t) /\ i[t] \in Gens /\ i[t] + 1 \in Gens /\ g # i[t] /\ i[t] # i[t] + 1
    BY <1>m, <1>o, <1>t, <1>g
  <2>2. (used[i[t]] + used[i[t] + 1]) % Word = Amount[i[t] + 1]
    BY DEF Matches
  <2>3. used[i[t]] \in Int /\ used[i[t] + 1] \in Int
    BY <1>t, <2>1
  <2>4. CASE g = i[t] + 1
    <3>1. f \in {i[t], i[t] + 1}
      <4>1. Shifted(f, g) => f = i[t]
        BY <1>m, <1>o, <2>1 DEF Shifted
      <4> QED
        BY <4>1, <2>4
    <3>2. Amount[g] \in Int /\ (used[i[t]] + used[i[t] + 1]) % Word = Amount[g] % Word
      BY <1>a, <1>t, <2>2, <2>4
    <3>3. ((used[f] + n) % Word) \in Int
      BY <1>t, CountType
    <3>4. CASE f = i[t]
      <4>1. used'[i[t]] = (used[i[t]] + n) % Word /\ used'[i[t] + 1] = used[i[t] + 1]
        BY <1>t, <1>u, <2>1, <3>4
      <4>2. Counts(used[i[t]], used[i[t] + 1], Amount[g], n, used'[i[t]])
        BY <3>2, <4>1 DEF Counts
      <4>3. used'[i[t]] \in Int
        BY <3>3, <3>4, <4>1
      <4>4. (used'[i[t]] + used[i[t] + 1]) % Word = (Amount[g] + n) % Word
        BY <2>3, <3>2, <4>2, <4>3, CountsTogether
      <4> QED
        BY <4>1, <4>4, <2>4, <1>b
    <3>5. CASE f = i[t] + 1
      <4>1. used'[i[t] + 1] = (used[i[t] + 1] + n) % Word /\ used'[i[t]] = used[i[t]]
        BY <1>t, <1>u, <2>1, <3>5
      <4>2. Counts(used[i[t] + 1], used[i[t]], Amount[g], n, used'[i[t] + 1])
        <5>1. used[i[t] + 1] + used[i[t]] = used[i[t]] + used[i[t] + 1]
          BY <2>3
        <5> QED
          BY <3>2, <4>1, <5>1 DEF Counts
      <4>3. used'[i[t] + 1] \in Int
        BY <3>3, <3>5, <4>1
      <4>4. (used[i[t]] + used'[i[t] + 1]) % Word = (Amount[g] + n) % Word
        BY <2>3, <3>2, <4>2, <4>3, CountsTogether
      <4> QED
        BY <4>1, <4>4, <2>4, <1>b
    <3> QED
      BY <3>1, <3>4, <3>5
  <2>5. CASE g # i[t] + 1
    <3>1. f \notin {i[t], i[t] + 1}
      <4>1. f # i[t] + 1
        BY <1>m, <1>o, <2>1, <2>5 DEF Shifted
      <4>2. f # i[t]
        BY <1>m, <1>o, <2>1, <2>5 DEF Shifted
      <4> QED
        BY <4>1, <4>2
    <3> QED
      BY <1>t, <1>u, <2>1, <2>2, <2>5, <3>1
  <2> QED
    BY <2>4, <2>5
<1>4. ASSUME NEW t \in At("add")
      PROVE  used'[i[t]] = 0 /\ (used'[i[t] + 1] + size[t]) % Word = Amount'[i[t] + 1]
  <2>1. t \in Threads /\ Moving(t) /\ i[t] \in Gens /\ i[t] + 1 \in Gens /\ g # i[t] /\ i[t] # i[t] + 1
    BY <1>m, <1>o, <1>t, <1>g
  <2>2. used[i[t]] = 0 /\ (used[i[t] + 1] + size[t]) % Word = Amount[i[t] + 1]
    BY DEF Matches
  <2>3. g = f
    BY <1>m, <1>o, <2>1 DEF Shifted
  <2>4. used'[i[t]] = 0
    BY <1>t, <1>u, <2>1, <2>2, <2>3
  <2>5. used[i[t] + 1] \in Int /\ size[t] \in Int
    BY <1>t, <2>1
  <2>6. CASE g = i[t] + 1
    <3>1. used'[i[t] + 1] = (used[i[t] + 1] + n) % Word
      BY <1>t, <1>u, <2>1, <2>3, <2>6
    <3>2. Counts(used[i[t] + 1], size[t], Amount[g], n, used'[i[t] + 1])
      BY <1>a, <2>2, <2>6, <3>1 DEF Counts
    <3>3. used'[i[t] + 1] \in Int /\ Amount[g] \in Int
      BY <3>1, <2>5, <1>a, <1>t, CountType
    <3>4. (used'[i[t] + 1] + size[t]) % Word = (Amount[g] + n) % Word
      BY <2>5, <3>2, <3>3, CountsTogether
    <3> QED
      BY <2>4, <2>6, <3>4, <1>b
  <2>7. CASE g # i[t] + 1
    BY <1>t, <1>u, <2>1, <2>2, <2>3, <2>4, <2>7
  <2> QED
    BY <2>6, <2>7
<1>5. (\A t \in At("exchange") : (used[i[t]] + used[i[t] + 1]) % Word = Amount[i[t] + 1])'
  BY <1>3
<1>6. (\A t \in At("add") : /\ used[i[t]] = 0
                            /\ (used[i[t] + 1] + size[t]) % Word = Amount[i[t] + 1])'
  BY <1>4
<1> QED
  BY <1>1, <1>2, <1>5, <1>6 DEF Matches

LEMMA AimedStep == Basics /\ Aimed /\ [Next]_vars /\ ~raced' => Aimed'
<1> SUFFICES ASSUME Basics, Aimed, [Next]_vars, ~raced'
             PROVE  Aimed'
  OBVIOUS
<1>t. /\ pc \in [Threads -> Collecting \cup {"idle", "check", "attach", "count", "uncount", "detach"}]
      /\ list \in [Objects -> Gens \cup Threads \cup {None}] /\ gen \in [Objects -> Gens \cup {None}]
      /\ obj \in [Threads -> Objects \cup {None}] /\ dead \in [Threads -> Objects \cup {None}]
      /\ from \in [Threads -> Gens] /\ i \in [Threads -> Gens]
      /\ back \in [Threads -> {"idle", "attach"}] /\ resume \in [Threads -> {"idle", "free"}]
      /\ stage \in [Objects -> {"free", "new", "live", "garbage", "dying"}]
  BY DEF Basics, TypeInv, TypeOK
<1>o. /\ \A t \in At("count") : t \in Threads /\ obj[t] \in Objects /\ stage[obj[t]] = "new"
      /\ \A t \in At("uncount") : t \in Threads /\ dead[t] \in Objects /\ stage[dead[t]] = "dying"
  BY DEF At, Basics, Owned, Tracks, Untracks
<1>e. \A s, t \in Threads : Moving(s) /\ Moving(t) => s = t
  BY DEF Moving, Basics, OneInside, Inside, Phase, Collecting
\* Steps by which nobody comes closer to a counter and no move goes on.
<1>k. ASSUME \A t \in Threads : /\ pc'[t] = "count" => pc[t] = "count"
                                /\ pc'[t] = "uncount" => pc[t] = "uncount" /\ from'[t] = from[t]
                                /\ pc[t] = "exchange" => pc'[t] = "exchange" /\ i'[t] = i[t],
             \A t \in At("count") : pc'[t] = "count" => obj'[t] = obj[t] /\ gen'[obj[t]] = gen[obj[t]],
             \A t \in At("uncount") : pc'[t] = "uncount" => dead'[t] = dead[t] /\ gen'[dead[t]] = gen[dead[t]]
      PROVE  Aimed'
  <2>1. \A g, h : Shifted(g, h) => h = g + 1 /\ \E t \in At("exchange")' : i'[t] = g
    BY <1>k DEF Shifted, At
  <2>2. /\ \A t \in At("count")' : t \in At("count") /\ obj'[t] = obj[t] /\ gen'[obj[t]] = gen[obj[t]]
        /\ \A t \in At("uncount")' : /\ t \in At("uncount") /\ dead'[t] = dead[t]
                                     /\ gen'[dead[t]] = gen[dead[t]] /\ from'[t] = from[t]
    BY <1>k DEF At
  <2> QED
    BY <2>1, <2>2 DEF Aimed, Shifted
\* Steps that leave the moves alone and bring one thread to a counter.
<1>1. ASSUME NEW t \in Threads, NEW o \in Objects, New(t, o) PROVE Aimed'
  BY <1>1, <1>k, <1>t, <1>o DEF New, Goto, At
<1>2. ASSUME NEW t \in Threads, Check(t) PROVE Aimed'
  BY <1>2, <1>k, <1>t, <1>o DEF Check, Call, Goto, At, objects, Collecting
<1>3. ASSUME NEW t \in Threads, Attach(t) PROVE Aimed'
  <2>1. obj[t] \in Objects /\ stage[obj[t]] = "new" /\ list[obj[t]] = None
    BY <1>3 DEF Attach, Basics, Owned, Tracks
  <2>2. /\ \A s \in At("count") : obj[s] # obj[t]
        /\ \A s \in At("uncount") : dead[s] # obj[t]
    BY <1>o, <2>1 DEF At, Basics, Owned, Tracks
  <2>3. gen' = [gen EXCEPT ![obj[t]] = Young] /\ pc' = [pc EXCEPT ![t] = "count"]
        /\ UNCHANGED <<obj, dead, from, i>> /\ pc[t] = "attach"
    BY <1>3 DEF Attach, Goto, locals
  <2> QED
    BY <1>t, <1>o, <2>1, <2>2, <2>3 DEF Aimed, Shifted, At
<1>4. ASSUME NEW t \in Threads, Count(t) PROVE Aimed'
  BY <1>4, <1>k, <1>t, <1>o DEF Count, Goto, At
<1>5. ASSUME NEW t \in Threads, CallFull(t) PROVE Aimed'
  BY <1>5, <1>k, <1>t, <1>o DEF CallFull, Call, Goto, At, objects, Collecting
<1>6. ASSUME NEW t \in Threads, NEW o \in Objects, Drop(t, o) PROVE Aimed'
  <2>1. /\ pc' = [pc EXCEPT ![t] = "uncount"] /\ pc[t] \in {"idle", "free"}
        /\ dead' = [dead EXCEPT ![t] = o] /\ from' = [from EXCEPT ![t] = gen[o]]
        /\ UNCHANGED <<gen, obj, i>>
    BY <1>6 DEF Drop, Goto
  <2> QED
    BY <1>t, <1>o, <2>1 DEF Aimed, Shifted, At
<1>7. ASSUME NEW t \in Threads, Uncount(t) PROVE Aimed'
  BY <1>7, <1>k, <1>t, <1>o DEF Uncount, Goto, At, objects, locals
<1>8. ASSUME NEW t \in Threads, Detach(t) PROVE Aimed'
  <2>1. dead[t] \in Objects /\ stage[dead[t]] = "dying"
    BY <1>8 DEF Detach, Basics, Owned, Untracks
  <2>2. /\ \A s \in At("count") : obj[s] # dead[t]
        /\ \A s \in At("uncount") : dead[s] # dead[t]
    BY <1>8, <1>o, <2>1 DEF At, Basics, Owned, Untracks, Detach
  <2> QED
    BY <1>8, <1>k, <1>t, <1>o, <2>2 DEF Detach, Goto, At
<1>9. ASSUME NEW t \in Threads, Test(t) PROVE Aimed'
  BY <1>9, <1>k, <1>t, <1>o DEF Test, NextRound, Goto, At, objects
<1>10. ASSUME NEW t \in Threads, Mark(t) PROVE Aimed'
  BY <1>10, <1>k, <1>t, <1>o DEF Mark, Goto, At, locals
<1>11. ASSUME NEW t \in Threads, DestroyAgain(t) PROVE Aimed'
  BY <1>11, <1>k DEF DestroyAgain, objects, locals
<1>12. ASSUME NEW t \in Threads, FreeEnd(t) PROVE Aimed'
  BY <1>12, <1>k, <1>t, <1>o DEF FreeEnd, NextRound, Goto, At, objects
\* A move shifts the objects that are to be counted with the others.
<1>13. ASSUME NEW t \in Threads, Move(t) PROVE Aimed'
  <2>1. \A s \in Threads : ~Moving(s)
    BY <1>13 DEF Move, Moving, Basics, OneInside, Inside, Phase, Collecting
  <2>2. /\ \A s \in At("count") : gen[obj[s]] = Young
        /\ \A s \in At("uncount") : gen[dead[s]] = from[s]
    BY <2>1 DEF Aimed, Shifted, At, Moving
  <2>3. UNCHANGED <<obj, dead, from>>
    BY <1>13 DEF Move
  <2>4. CASE On(i[t]) = {}
    <3>1. gen' = gen
      BY <1>13, <1>t, <2>4 DEF Move, On
    <3>2. \A s \in Threads : /\ pc'[s] = "count" => pc[s] = "count"
                             /\ pc'[s] = "uncount" => pc[s] = "uncount"
                             /\ pc[s] = "exchange" => pc'[s] = "exchange" /\ i'[s] = i[s]
      BY <1>13, <1>t, <2>4 DEF Move, AfterMove, NextRound, Goto
    <3> QED
      BY <1>k, <2>3, <3>1, <3>2
  <2>5. CASE On(i[t]) # {}
    <3>1. /\ pc' = [pc EXCEPT ![t] = "exchange"] /\ pc[t] = "move" /\ i' = i
          /\ \A o \in Objects : gen'[o] = gen[o] \/ (gen'[o] = i[t] + 1 /\ list[o] = i[t])
      BY <1>13, <1>t, <2>5 DEF Move, Goto
    <3>2. \A o \in Objects : gen'[o] = gen[o] \/ (gen[o] = i[t] /\ gen'[o] = i[t] + 1)
      BY <1>t, <3>1 DEF Basics, TypeInv, GenAgrees
    <3>3. At("count")' = At("count") /\ At("uncount")' = At("uncount") /\ t \in At("exchange")'
      BY <1>t, <3>1 DEF At
    <3> QED
      BY <1>o, <2>2, <2>3, <3>1, <3>2, <3>3 DEF Aimed, Shifted
  <2> QED
    BY <2>4, <2>5
\* When a move takes the counter nobody is to change it for a shifted object.
<1>14. ASSUME NEW t \in Threads, Exchange(t) PROVE Aimed'
  <2>1. Pending(i[t]) = {}
    BY <1>14 DEF Exchange
  <2>2. \A s \in Threads : Moving(s) => s = t
    BY <1>14, <1>e DEF Exchange, Moving
  <2>3. /\ \A s \in At("count") : gen[obj[s]] = Young
    <3> SUFFICES ASSUME NEW s \in At("count"), gen[obj[s]] # Young PROVE FALSE
      OBVIOUS
    <3>1. Shifted(Young, gen[obj[s]])
      BY DEF Aimed
    <3>2. i[t] = Young
      BY <2>2, <3>1 DEF Shifted, At, Moving
    <3>3. list[obj[s]] # Young
      BY <1>o DEF Basics, TypeInv, GenAgrees, Gens
    <3> QED
      BY <2>1, <3>2, <3>3 DEF Pending, At
  <2>4. \A s \in At("uncount") : gen[dead[s]] = from[s]
    <3> SUFFICES ASSUME NEW s \in At("uncount"), gen[dead[s]] # from[s] PROVE FALSE
      OBVIOUS
    <3>1. Shifted(from[s], gen[dead[s]])
      BY DEF Aimed
    <3>2. i[t] = from[s]
      BY <2>2, <3>1 DEF Shifted, At, Moving
    <3>3. list[dead[s]] # from[s]
      BY <1>o, <1>t DEF Basics, TypeInv, GenAgrees
    <3> QED
      BY <2>1, <3>2, <3>3 DEF Pending, At
  <2>5. /\ UNCHANGED <<gen, obj, dead, from>> /\ At("count")' = At("count")
        /\ At("uncount")' = At("uncount")
    BY <1>14, <1>t DEF Exchange, Goto, At, objects
  <2> QED
    BY <2>3, <2>4, <2>5 DEF Aimed
<1>15. ASSUME NEW t \in Threads, Add(t) PROVE Aimed'
  <2>1. At("exchange") = {}
    BY <1>15, <1>e DEF Add, Moving, At
  <2>2. /\ \A s \in At("count") : gen[obj[s]] = Young
        /\ \A s \in At("uncount") : gen[dead[s]] = from[s]
    BY <2>1 DEF Aimed, Shifted
  <2>3. /\ UNCHANGED <<gen, obj, dead, from>> /\ At("count")' = At("count")
        /\ At("uncount")' = At("uncount")
    BY <1>15, <1>t DEF Add, AfterMove, NextRound, Goto, At, objects
  <2> QED
    BY <2>2, <2>3 DEF Aimed
<1>16. ASSUME NEW t \in Threads, End(t) PROVE Aimed'
  BY <1>16, <1>k, <1>t, <1>o DEF End, Return, Goto, At, objects
<1>17. CASE UNCHANGED vars
  BY <1>17, <1>k DEF vars, objects, locals
<1> QED
  BY <1>1, <1>2, <1>3, <1>4, <1>5, <1>6, <1>7, <1>8, <1>9, <1>10, <1>11, <1>12, <1>13, <1>14,
     <1>15, <1>16, <1>17 DEF Next, Track, Untrack, Collect

LEMMA MatchesStep == Basics /\ Aimed /\ Matches /\ [Next]_vars => Matches'
<1> SUFFICES ASSUME Basics, Aimed, Matches, [Next]_vars
             PROVE  Matches'
  OBVIOUS
<1>t. /\ pc \in [Threads -> Collecting \cup {"idle", "check", "attach", "count", "uncount", "detach"}]
      /\ list \in [Objects -> Gens \cup Threads \cup {None}] /\ gen \in [Objects -> Gens \cup {None}]
      /\ obj \in [Threads -> Objects \cup {None}] /\ dead \in [Threads -> Objects \cup {None}]
      /\ from \in [Threads -> Gens] /\ i \in [Threads -> Gens]
      /\ used \in [Gens -> Words] /\ size \in [Threads -> Words]
      /\ back \in [Threads -> {"idle", "attach"}] /\ resume \in [Threads -> {"idle", "free"}]
      /\ stage \in [Objects -> {"free", "new", "live", "garbage", "dying"}]
  BY DEF Basics, TypeInv, TypeOK
<1>n. None \notin Gens /\ Young \in Gens /\ None \notin Objects /\ Words \subseteq Int
  BY GenerationsAssumption, WordAssumption DEF None, Gens, Young, Old, Perm, Words
<1>m. \A t \in Threads : Moving(t) => i[t] \in Gens /\ i[t] + 1 \in Gens /\ i[t] # i[t] + 1
  BY <1>t DEF Moving, Basics, TypeInv, MovesUp, Gens, Young, Old, Perm
<1>e. \A s, t \in Threads : Moving(s) /\ Inside(t) => s = t
  BY DEF Moving, Basics, OneInside, Inside, Phase, Collecting
<1>g. \A t \in Threads : Moving(t) => \A o \in Objects : gen[o] # i[t]
  BY DEF Matches
\* Steps without a part in any of it.
<1>k. ASSUME UNCHANGED <<used, size, gen>>,
             \A s \in Threads : /\ pc'[s] = "exchange" <=> pc[s] = "exchange"
                                /\ pc'[s] = "add" <=> pc[s] = "add"
                                /\ pc'[s] = "count" <=> pc[s] = "count"
                                /\ pc'[s] = "detach" <=> pc[s] = "detach"
                                /\ Moving(s) => i'[s] = i[s]
                                /\ pc[s] = "count" => obj'[s] = obj[s]
                                /\ pc[s] = "detach" => dead'[s] = dead[s]
      PROVE  Matches'
  <2>1. \A g \in Gens : Counted'[g] = Counted[g]
    BY <1>k DEF Counted, At
  <2> QED
    BY <1>k, <1>m, <1>g, <2>1, MatchesKept
<1>1. ASSUME NEW t \in Threads, NEW o \in Objects, New(t, o) PROVE Matches'
  BY <1>1, <1>k, <1>t DEF New, Goto
<1>2. ASSUME NEW t \in Threads, Check(t) PROVE Matches'
  BY <1>2, <1>k, <1>t DEF Check, Call, Goto, objects, Moving
<1>3. ASSUME NEW t \in Threads, Attach(t) PROVE Matches'
  <2>1. obj[t] \in Objects /\ gen[obj[t]] = None
    BY <1>3 DEF Attach, Basics, Owned, Tracks, TypeInv, GenAgrees
  <2>2. /\ gen' = [gen EXCEPT ![obj[t]] = Young] /\ pc' = [pc EXCEPT ![t] = "count"]
        /\ UNCHANGED <<used, size, obj, dead, i>> /\ pc[t] = "attach" /\ Young \notin Locked
    BY <1>3 DEF Attach, Goto, locals
  <2>3. \A s \in Threads : Moving(s) => i[s] # Young
    BY <2>2 DEF Locked, Moving
  <2>4. At("count")' = At("count") \cup {t} /\ At("detach")' = At("detach")
    BY <1>t, <2>2 DEF At
  <2>5. \A g \in Gens : Counted'[g] = Counted[g]
    BY <1>t, <1>n, <2>1, <2>2, <2>4 DEF Counted
  <2>6. \A s \in Threads : Moving(s) => \A o \in Objects : gen'[o] # i[s]
    BY <1>t, <1>g, <2>1, <2>2, <2>3
  <2> QED
    BY <1>t, <1>m, <2>2, <2>5, <2>6, MatchesKept
<1>4. ASSUME NEW t \in Threads, Count(t) PROVE Matches'
  <2>1. t \in At("count") /\ obj[t] \in Objects /\ stage[obj[t]] = "new" /\ gen[obj[t]] \in Gens
    <3>1. t \in At("count") /\ obj[t] \in Objects /\ stage[obj[t]] = "new" /\ list[obj[t]] # None
      BY <1>4 DEF Count, At, Basics, Owned, Tracks
    <3> QED
      BY <1>t, <3>1 DEF Basics, TypeInv, GenAgrees
  <2>2. gen[obj[t]] = Young \/ Shifted(Young, gen[obj[t]])
    BY <2>1 DEF Aimed
  <2>3. /\ pc' = [pc EXCEPT ![t] = "idle"] /\ pc[t] = "count"
        /\ obj' = [obj EXCEPT ![t] = None] /\ UNCHANGED <<gen, dead, i, size>>
        /\ Changes(Young, 1)
    BY <1>4 DEF Count, Goto, Plus, Changes
  <2>4. /\ At("count")' = At("count") \ {t} /\ At("detach")' = At("detach")
        /\ At("exchange")' = At("exchange") /\ At("add")' = At("add")
    BY <1>t, <2>3 DEF At
  <2>5. /\ \A s \in At("count") \ {t} : obj[s] # obj[t] /\ obj'[s] = obj[s]
        /\ \A s \in At("detach") : dead[s] # obj[t]
    BY <1>t, <2>1, <2>3 DEF At, Basics, Owned, Tracks, Untracks
  <2>6. /\ Counted'[gen[obj[t]]] = Counted[gen[obj[t]]] \cup {obj[t]}
        /\ obj[t] \notin Counted[gen[obj[t]]]
        /\ \A h \in Gens \ {gen[obj[t]]} : Counted'[h] = Counted[h]
    BY <1>t, <2>1, <2>3, <2>4, <2>5 DEF Counted
  <2>7. /\ Amount'[gen[obj[t]]] = Amount[gen[obj[t]]] + 1
        /\ \A h \in Gens \ {gen[obj[t]]} : Amount'[h] = Amount[h]
    <3>1. Counted[gen[obj[t]]] \subseteq Objects
      BY <2>1 DEF Counted
    <3>2. Cardinality(Counted[gen[obj[t]]] \cup {obj[t]}) = Cardinality(Counted[gen[obj[t]]]) + 1
      BY <2>6, <3>1, OneMore
    <3> QED
      BY <2>1, <2>6, <3>2 DEF Amount
  <2> QED
    BY <1>n, <2>1, <2>2, <2>3, <2>4, <2>7, MatchesCounted
<1>5. ASSUME NEW t \in Threads, CallFull(t) PROVE Matches'
  BY <1>5, <1>k, <1>t DEF CallFull, Call, Goto, objects, Moving
<1>6. ASSUME NEW t \in Threads, NEW o \in Objects, Drop(t, o) PROVE Matches'
  BY <1>6, <1>k, <1>t DEF Drop, Goto
<1>7. ASSUME NEW t \in Threads, Uncount(t) PROVE Matches'
  <2>1. t \in At("uncount") /\ dead[t] \in Objects /\ stage[dead[t]] = "dying" /\ gen[dead[t]] \in Gens
    <3>1. t \in At("uncount") /\ dead[t] \in Objects /\ stage[dead[t]] = "dying" /\ list[dead[t]] # None
      BY <1>7 DEF Uncount, At, Basics, Owned, Untracks
    <3> QED
      BY <1>t, <3>1 DEF Basics, TypeInv, GenAgrees
  <2>2. gen[dead[t]] = from[t] \/ Shifted(from[t], gen[dead[t]])
    BY <2>1 DEF Aimed
  <2>3. /\ pc' = [pc EXCEPT ![t] = "detach"] /\ pc[t] = "uncount"
        /\ UNCHANGED <<gen, obj, dead, i, size>> /\ from[t] \in Gens
    BY <1>7, <1>t DEF Uncount, Goto, locals, objects
  <2>c. Changes(from[t], -1)
    <3>1. used[from[t]] - 1 = used[from[t]] + (-1)
      BY <1>t, <1>n
    <3> QED
      BY <1>7, <3>1 DEF Uncount, Minus, Changes
  <2>4. /\ At("detach")' = At("detach") \cup {t} /\ At("count")' = At("count")
        /\ At("exchange")' = At("exchange") /\ At("add")' = At("add")
    BY <1>t, <2>3 DEF At
  <2>5. /\ \A s \in At("count") : obj[s] # dead[t]
        /\ \A s \in At("detach") : dead[s] # dead[t]
    BY <1>t, <2>1, <2>3 DEF At, Basics, Owned, Tracks, Untracks
  <2>6. /\ Counted'[gen[dead[t]]] = Counted[gen[dead[t]]] \ {dead[t]}
        /\ dead[t] \in Counted[gen[dead[t]]]
        /\ \A h \in Gens \ {gen[dead[t]]} : Counted'[h] = Counted[h]
    BY <1>t, <2>1, <2>3, <2>4, <2>5 DEF Counted
  <2>7. /\ Amount'[gen[dead[t]]] = Amount[gen[dead[t]]] + (-1)
        /\ \A h \in Gens \ {gen[dead[t]]} : Amount'[h] = Amount[h]
    <3>1. Counted[gen[dead[t]]] \subseteq Objects
      BY <2>1 DEF Counted
    <3>2. Cardinality(Counted[gen[dead[t]]] \ {dead[t]}) = Cardinality(Counted[gen[dead[t]]]) - 1
      BY <2>6, <3>1, OneLess
    <3>3. Cardinality(Counted[gen[dead[t]]]) \in Nat
      BY <3>1, Countable
    <3> QED
      BY <2>1, <2>6, <3>2, <3>3 DEF Amount
  <2>8. -1 \in Int
    OBVIOUS
  <2> QED
    BY <2>1, <2>2, <2>3, <2>c, <2>4, <2>7, <2>8, MatchesCounted
<1>8. ASSUME NEW t \in Threads, Detach(t) PROVE Matches'
  <2>1. dead[t] \in Objects /\ stage[dead[t]] = "dying"
    BY <1>8 DEF Detach, Basics, Owned, Untracks
  <2>2. /\ pc[t] = "detach" /\ gen' = [gen EXCEPT ![dead[t]] = None]
        /\ pc' = [pc EXCEPT ![t] = resume[t]] /\ dead' = [dead EXCEPT ![t] = None]
        /\ UNCHANGED <<used, size, obj, i>>
    BY <1>8 DEF Detach, Goto
  <2>3. At("count")' = At("count") /\ At("detach")' = At("detach") \ {t} /\ t \in At("detach")
    BY <1>t, <2>2 DEF At
  <2>4. /\ \A s \in At("detach") \ {t} : dead'[s] = dead[s] /\ dead[s] # dead[t]
        /\ \A s \in At("count") : obj[s] # dead[t]
    BY <1>t, <2>1, <2>2 DEF At, Basics, Owned, Tracks, Untracks
  <2>5. \A g \in Gens : Counted'[g] = Counted[g]
    BY <1>t, <1>n, <2>1, <2>2, <2>3, <2>4 DEF Counted
  <2>6. \A s \in Threads : Moving(s) => \A o \in Objects : gen'[o] # i[s]
    BY <1>t, <1>n, <1>g, <1>m, <2>1, <2>2
  <2> QED
    BY <1>t, <1>m, <2>2, <2>5, <2>6, MatchesKept
<1>9. ASSUME NEW t \in Threads, Test(t) PROVE Matches'
  BY <1>9, <1>k, <1>t DEF Test, NextRound, Goto, objects, Moving
<1>10. ASSUME NEW t \in Threads, Mark(t) PROVE Matches'
  BY <1>10, <1>k, <1>t DEF Mark, Goto, locals
<1>11. ASSUME NEW t \in Threads, DestroyAgain(t) PROVE Matches'
  BY <1>11, <1>k DEF DestroyAgain, objects, locals
<1>12. ASSUME NEW t \in Threads, FreeEnd(t) PROVE Matches'
  BY <1>12, <1>k, <1>t DEF FreeEnd, NextRound, Goto, objects, Moving
<1>13. ASSUME NEW t \in Threads, Move(t) PROVE Matches'
  <2>0. pc[t] = "move" /\ Inside(t)
    BY <1>13 DEF Move, Inside, Phase, Collecting
  <2>1. CASE On(i[t]) = {}
    <3>1. gen' = gen
      BY <1>13, <1>t, <2>1 DEF Move, On
    <3> QED
      BY <1>13, <1>k, <1>t, <2>1, <3>1 DEF Move, AfterMove, NextRound, Goto, Moving
  <2>2. CASE On(i[t]) # {}
    <3>1. \A s \in Threads : ~Moving(s)
      BY <2>0, <1>e DEF Moving
    <3>2. /\ pc' = [pc EXCEPT ![t] = "exchange"] /\ UNCHANGED <<i, obj, dead, used, size>>
          /\ gen' = [o \in Objects |-> IF list[o] = i[t] THEN i[t] + 1 ELSE gen[o]]
      BY <1>13, <2>2 DEF Move, Goto
    <3>3. \A s \in Threads : On(s) = {}
      BY <2>0 DEF Basics, OneInside, Inside, Phase, Collecting
    <3>4. \A o \in Objects : list[o] = i[t] <=> gen[o] = i[t]
      BY <1>t, <3>3 DEF Basics, TypeInv, GenAgrees, On
    <3>5. i[t] \in Gens /\ i[t] + 1 \in Gens /\ i[t] # i[t] + 1
      BY <1>t, <2>0 DEF Basics, TypeInv, MovesUp, Gens, Young, Old, Perm
    <3>6. /\ At("count")' = At("count") /\ At("detach")' = At("detach")
          /\ At("exchange")' = {t} /\ At("add")' = {}
          /\ \A s \in Threads : Moving(s)' <=> s = t
      BY <1>t, <2>0, <3>1, <3>2 DEF At, Moving
    <3>7. /\ Counted'[i[t] + 1] = Counted[i[t]] \cup Counted[i[t] + 1]
          /\ Counted[i[t]] \cap Counted[i[t] + 1] = {}
          /\ \A g \in Gens \ {i[t], i[t] + 1} : Counted'[g] = Counted[g]
      BY <1>t, <3>2, <3>4, <3>5, <3>6 DEF Counted
    <3>8. Amount'[i[t] + 1] = Amount[i[t]] + Amount[i[t] + 1]
      <4>1. Counted[i[t]] \in SUBSET Objects /\ Counted[i[t] + 1] \in SUBSET Objects
        BY <3>5 DEF Counted
      <4>2. IsFiniteSet(Counted[i[t]]) /\ IsFiniteSet(Counted[i[t] + 1])
        BY <4>1, SmallAmount
      <4>3. Cardinality(Counted[i[t]] \cup Counted[i[t] + 1])
              = Cardinality(Counted[i[t]]) + Cardinality(Counted[i[t] + 1])
                - Cardinality(Counted[i[t]] \cap Counted[i[t] + 1])
        BY <4>2, FS_Union
      <4>4. Cardinality(Counted[i[t]]) \in Int /\ Cardinality(Counted[i[t] + 1]) \in Int
        BY <4>1, SmallAmount, <1>n
      <4>5. Cardinality(Counted[i[t]] \cap Counted[i[t] + 1]) = 0
        BY <3>7, FS_EmptySet
      <4>6. Cardinality(Counted'[i[t] + 1]) = Cardinality(Counted[i[t]]) + Cardinality(Counted[i[t] + 1])
        BY <3>7, <4>3, <4>4, <4>5
      <4> QED
        BY <3>5, <4>6 DEF Amount
    <3>9. /\ used[i[t]] = Amount[i[t]] /\ used[i[t] + 1] = Amount[i[t] + 1]
          /\ \A g \in Gens \ {i[t], i[t] + 1} : used[g] = Amount'[g]
      BY <3>1, <3>5, <3>7 DEF Matches, Quiet, Amount
    <3>10. (used'[i[t]] + used'[i[t] + 1]) % Word = Amount'[i[t] + 1]
      BY <3>2, <3>5, <3>8, <3>9, AmountSmall
    <3>11. \A o \in Objects : gen'[o] # i[t]
      BY <3>2, <3>4, <3>5
    <3> QED
      BY <3>2, <3>6, <3>9, <3>10, <3>11 DEF Matches, Quiet
  <2> QED
    BY <2>1, <2>2
<1>14. ASSUME NEW t \in Threads, Exchange(t) PROVE Matches'
  <2>1. /\ pc[t] = "exchange" /\ pc' = [pc EXCEPT ![t] = "add"]
        /\ size' = [size EXCEPT ![t] = used[i[t]]] /\ used' = [used EXCEPT ![i[t]] = 0]
        /\ UNCHANGED <<gen, i, obj, dead>>
    BY <1>14 DEF Exchange, Goto, objects
  <2>2. Moving(t) /\ Inside(t) /\ i[t] \in Gens /\ i[t] + 1 \in Gens /\ i[t] # i[t] + 1
    BY <2>1, <1>m DEF Moving, Inside, Phase, Collecting
  <2>3. /\ At("count")' = At("count") /\ At("detach")' = At("detach")
        /\ At("exchange")' = {} /\ At("add")' = {t}
        /\ \A s \in Threads : Moving(s)' <=> Moving(s)
    BY <1>t, <1>e, <2>1, <2>2 DEF At, Moving
  <2>4. Counted' = Counted /\ Amount' = Amount
    BY <2>1, <2>3 DEF Counted, Amount
  <2>5. (used[i[t]] + used[i[t] + 1]) % Word = Amount[i[t] + 1]
    BY <2>1 DEF Matches, At
  <2>6. /\ used'[i[t]] = 0 /\ used'[i[t] + 1] = used[i[t] + 1] /\ size'[t] = used[i[t]]
        /\ used[i[t] + 1] + used[i[t]] = used[i[t]] + used[i[t] + 1]
    <3>1. used[i[t]] \in Int /\ used[i[t] + 1] \in Int
      BY <1>t, <1>n, <2>2
    <3>2. used'[i[t]] = 0 /\ used'[i[t] + 1] = used[i[t] + 1] /\ size'[t] = used[i[t]]
      BY <1>t, <2>1, <2>2
    <3> QED
      BY <3>1, <3>2
  <2>7. \A g \in Gens : Quiet(g)' => used'[g] = Amount'[g]
    BY <1>t, <2>1, <2>2, <2>3, <2>4 DEF Matches, Quiet
  <2> QED
    BY <1>g, <2>1, <2>3, <2>4, <2>5, <2>6, <2>7 DEF Matches
<1>15. ASSUME NEW t \in Threads, Add(t) PROVE Matches'
  <2>1. /\ pc[t] = "add" /\ size' = [size EXCEPT ![t] = 0]
        /\ used' = [used EXCEPT ![i[t] + 1] = Plus(@, size[t])]
        /\ UNCHANGED <<gen, obj, dead>>
        /\ \E l \in {"test", "end", "mark"} : pc' = [pc EXCEPT ![t] = l]
    BY <1>15 DEF Add, AfterMove, NextRound, Goto, objects
  <2>2. Moving(t) /\ Inside(t) /\ i[t] \in Gens /\ i[t] + 1 \in Gens /\ i[t] # i[t] + 1
    BY <2>1, <1>m DEF Moving, Inside, Phase, Collecting
  <2>3. /\ At("count")' = At("count") /\ At("detach")' = At("detach")
        /\ At("exchange")' = {} /\ At("add")' = {}
        /\ \A s \in Threads : ~Moving(s)'
    BY <1>t, <1>e, <2>1, <2>2 DEF At, Moving
  <2>4. Counted' = Counted /\ Amount' = Amount
    BY <2>1, <2>3 DEF Counted, Amount
  <2>5. used[i[t]] = 0 /\ (used[i[t] + 1] + size[t]) % Word = Amount[i[t] + 1]
    BY <2>1 DEF Matches, At
  <2>6. used'[i[t]] = 0 /\ used'[i[t] + 1] = Amount[i[t] + 1]
    BY <1>t, <2>1, <2>2, <2>5 DEF Plus
  <2>7. Amount[i[t]] = 0
    <3>1. Counted[i[t]] = {}
      BY <1>g, <2>2 DEF Counted
    <3> QED
      BY <2>2, <3>1, FS_EmptySet DEF Amount
  <2>8. \A g \in Gens \ {i[t], i[t] + 1} : used'[g] = Amount[g]
    <3>1. \A g \in Gens \ {i[t], i[t] + 1} : Quiet(g)
      BY <1>e, <2>2 DEF Quiet
    <3> QED
      BY <1>t, <2>1, <3>1 DEF Matches
  <2> QED
    BY <2>3, <2>4, <2>6, <2>7, <2>8 DEF Matches
<1>16. ASSUME NEW t \in Threads, End(t) PROVE Matches'
  BY <1>16, <1>k, <1>t DEF End, Return, Goto, objects, Moving
<1>17. CASE UNCHANGED vars
  BY <1>17, <1>k DEF vars, objects, locals
<1> QED
  BY <1>1, <1>2, <1>3, <1>4, <1>5, <1>6, <1>7, <1>8, <1>9, <1>10, <1>11, <1>12, <1>13, <1>14,
     <1>15, <1>16, <1>17 DEF Next, Track, Untrack, Collect

LEMMA ImageSize ==
  ASSUME NEW f, NEW S, S \subseteq Threads, \A s, t \in S : f[s] = f[t] => s = t
  PROVE  Cardinality({f[s] : s \in S}) = Cardinality(S) /\ IsFiniteSet({f[s] : s \in S})
<1> DEFINE T == {f[s] : s \in S}
           h == [s \in S |-> f[s]]
<1>1. h \in Bijection(S, T)
  BY DEF Bijection, Injection, Surjection, IsInjective
<1>2. ExistsBijection(S, T)
  BY <1>1 DEF ExistsBijection
<1>3. IsFiniteSet(S)
  BY Countable
<1> QED
  BY <1>2, <1>3, FS_Bijection

\* A generation's counter is what untrack and collect take it for, the number
\* of its objects, but for those that are just being counted; a thread between
\* its list operation and its counter that a move overtakes is all that can
\* put it out.
THEOREM CountersExact == Spec => []CountsExact
<1>1. Init => Exact
  <2> SUFFICES ASSUME Init PROVE Aimed /\ Matches
    BY DEF Exact
  <2>1. At("count") = {} /\ At("uncount") = {} /\ At("exchange") = {} /\ At("add") = {}
    BY DEF Init, At
  <2>2. \A t \in Threads : ~Moving(t)
    BY DEF Init, Moving
  <2>3. \A g \in Gens : Amount[g] = 0
    <3>1. \A g \in Gens : Counted[g] = {}
      BY DEF Init, Counted, Gens, None, Young, Old, Perm
    <3> QED
      BY <3>1, FS_EmptySet DEF Amount
  <2>4. \A g \in Gens : used[g] = 0
    BY DEF Init
  <2> QED
    BY <2>1, <2>2, <2>3, <2>4 DEF Aimed, Matches
<1>2. Basics /\ Exact /\ [Next]_vars => Exact'
  <2> SUFFICES ASSUME Basics, Exact, [Next]_vars, ~raced' PROVE Aimed' /\ Matches'
    BY DEF Exact
  <2>1. ~raced
    <3>1. CASE UNCHANGED vars
      BY <3>1 DEF vars
    <3>2. ASSUME NEW t \in Threads, Track(t) \/ Untrack(t) \/ CallFull(t) PROVE ~raced
      BY <3>2 DEF Track, Untrack, New, Check, Attach, Count, CallFull, Drop, Uncount, Detach
    <3>3. ASSUME NEW t \in Threads, Collect(t) PROVE ~raced
      BY <3>3 DEF Collect, Test, Mark, DestroyAgain, FreeEnd, Move, Exchange, Add, End
    <3> QED
      BY <3>1, <3>2, <3>3 DEF Next
  <2> QED
    BY <2>1, AimedStep, MatchesStep DEF Exact
<1>3. Basics /\ Exact => CountsExact
  <2> SUFFICES ASSUME Basics, Exact, ~raced, Locked = {}, NEW g \in Gens
               PROVE  used[g] = Cardinality({o \in Objects : gen[o] = g})
                                - Cardinality({t \in At("count") : gen[obj[t]] = g})
                                - Cardinality({t \in At("detach") : gen[dead[t]] = g})
    BY DEF CountsExact
  <2> DEFINE M == {o \in Objects : gen[o] = g}
             C == {t \in At("count") : gen[obj[t]] = g}
             D == {t \in At("detach") : gen[dead[t]] = g}
             A == {obj[t] : t \in C}
             B == {dead[t] : t \in D}
  <2>1. used[g] = Amount[g]
    <3>1. Quiet(g)
      BY DEF Locked, Quiet, Moving
    <3> QED
      BY <3>1 DEF Exact, Matches
  <2>2. /\ \A t \in At("count") : t \in Threads /\ obj[t] \in Objects /\ stage[obj[t]] = "new"
        /\ \A t \in At("detach") : t \in Threads /\ dead[t] \in Objects /\ stage[dead[t]] = "dying"
        /\ \A s, t \in At("count") : obj[s] = obj[t] => s = t
        /\ \A s, t \in At("detach") : dead[s] = dead[t] => s = t
    BY DEF At, Basics, Owned, Tracks, Untracks
  <2>3. /\ M = (Counted[g] \cup A) \cup B
        /\ Counted[g] \cap A = {} /\ (Counted[g] \cup A) \cap B = {}
    <3>1. \A o \in Counted[g] : o \in M /\ o \notin A /\ o \notin B
      BY DEF Counted
    <3>2. \A o \in A : o \in M /\ stage[o] = "new"
      BY <2>2
    <3>3. \A o \in B : o \in M /\ stage[o] = "dying"
      BY <2>2
    <3>4. \A o \in M : o \in Counted[g] \/ o \in A \/ o \in B
      BY DEF Counted
    <3> QED
      BY <3>1, <3>2, <3>3, <3>4
  <2>4. C \subseteq Threads /\ D \subseteq Threads
    BY <2>2
  <2>5. /\ Cardinality(A) = Cardinality(C) /\ IsFiniteSet(A) /\ Cardinality(A) \in Nat
        /\ Cardinality(B) = Cardinality(D) /\ IsFiniteSet(B) /\ Cardinality(B) \in Nat
    <3>1. \A s, t \in C : obj[s] = obj[t] => s = t
      BY <2>2
    <3>2. \A s, t \in D : dead[s] = dead[t] => s = t
      BY <2>2
    <3>3. Cardinality(A) = Cardinality(C) /\ IsFiniteSet(A)
      BY <2>4, <3>1, ImageSize
    <3>4. Cardinality(B) = Cardinality(D) /\ IsFiniteSet(B)
      BY <2>4, <3>2, ImageSize
    <3> QED
      BY <3>3, <3>4, FS_CardinalityType
  <2>6. IsFiniteSet(Counted[g]) /\ Cardinality(Counted[g]) \in Nat /\ IsFiniteSet(Counted[g] \cup A)
    <3>1. Counted[g] \subseteq Objects
      BY DEF Counted
    <3> QED
      BY <2>5, <3>1, Countable, FS_Union
  <2>7. Cardinality(M) = Cardinality(Counted[g]) + Cardinality(A) + Cardinality(B)
    <3> HIDE DEF M, A, B
    <3>1. Cardinality(Counted[g] \cup A)
            = Cardinality(Counted[g]) + Cardinality(A) - Cardinality(Counted[g] \cap A)
      BY <2>5, <2>6, FS_Union
    <3>2. Cardinality(M) = Cardinality(Counted[g] \cup A) + Cardinality(B)
                           - Cardinality((Counted[g] \cup A) \cap B)
      BY <2>3, <2>5, <2>6, FS_Union
    <3>3. Cardinality(Counted[g] \cap A) = 0 /\ Cardinality((Counted[g] \cup A) \cap B) = 0
      BY <2>3, FS_EmptySet
    <3> QED
      BY <2>5, <2>6, <3>1, <3>2, <3>3
  <2>8. Amount[g] = Cardinality(Counted[g])
    BY DEF Amount
  <2> HIDE DEF M, A, B, C, D
  <2>9. used[g] = Cardinality(M) - Cardinality(C) - Cardinality(D)
    BY <2>1, <2>5, <2>6, <2>7, <2>8
  <2> QED
    BY <2>9 DEF M, C, D
<1> QED
  BY <1>1, <1>2, <1>3, BasicsHold, PTL DEF Spec

-----------------------------------------------------------------------------
\* A Fast collection goes from the oldest generation to the youngest, and has
\* settled those from the frontier on; a Full one goes the other way and leaves
\* nothing behind it.
Frontier(t) == IF Phase(t) \in {"test", "mark", "free", "move"} THEN i[t] + 1
               ELSE IF Phase(t) \in {"exchange", "add"} THEN i[t] ELSE Young
Reached(t)  == IF Phase(t) \in {"exchange", "add"} THEN i[t] + 1
               ELSE IF Phase(t) = "end" THEN Perm ELSE i[t]

Aged(o) == list[o] # start[o]

FastSoFar(t) ==
  /\ Phase(t) \in {"mark", "free", "move", "exchange", "add"} => due[t]
  /\ \A o \in Survivors : /\ list[o] \in {start[o], start[o] + 1}
                          /\ start[o] < Frontier(t) /\ Phase(t) # "end" => ~Aged(o)
                          /\ Aged(o) => due[t]
  /\ \A o, r \in Survivors : start[o] <= start[r] /\ Aged(r) /\ start[o] >= Frontier(t) => Aged(o)

FullSoFar(t) == \A o \in Survivors : list[o] >= Reached(t)

Ages == /\ \A o \in Objects : list[o] = None => start[o] = None
        /\ \A t \in Threads : Phase(t) = "test" => mode[t] = "Fast"
        /\ \A t \in Threads : Inside(t) /\ mode[t] = "Fast" => FastSoFar(t)
        /\ \A t \in Threads : Inside(t) /\ mode[t] = "Full" => FullSoFar(t)

\* Steps that leave the collection where it is.
LEMMA AgesKept ==
  ASSUME Ages,
         \A o \in Objects : list'[o] = None => start'[o] = None,
         \A o \in Objects : start'[o] # None /\ list'[o] \in Gens =>
                              start'[o] = start[o] /\ list'[o] = list[o],
         \A t \in Threads : Inside(t)' =>
           /\ Inside(t) /\ mode'[t] = mode[t] /\ due'[t] = due[t]
           /\ Frontier(t)' = Frontier(t) /\ Reached(t)' = Reached(t)
           /\ Phase(t) = "end" => Phase(t)' = "end"
           /\ Phase(t)' = "test" => Phase(t) = "test"
           /\ Phase(t)' \in {"mark", "free", "move", "exchange", "add"}
                => Phase(t) \in {"mark", "free", "move", "exchange", "add"}
  PROVE  Ages'
<1>1. (\A t \in Threads : Phase(t) = "test" => mode[t] = "Fast")'
  <2> SUFFICES ASSUME NEW t \in Threads, Phase(t)' = "test" PROVE mode'[t] = "Fast"
    BY DEF Phase
  <2>1. Inside(t)'
    BY DEF Inside, Collecting
  <2> QED
    BY <2>1 DEF Ages
<1>2. \A o \in Objects : o \in Survivors' => o \in Survivors /\ list'[o] = list[o] /\ start'[o] = start[o]
  BY DEF Survivors
<1>3. \A o \in Survivors' : o \in Objects
  BY DEF Survivors
<1>4. ASSUME NEW t \in Threads, Inside(t)', mode'[t] = "Fast" PROVE FastSoFar(t)'
  <2>1. FastSoFar(t)
    BY <1>4 DEF Ages
  <2>2. Phase(t)' \in {"mark", "free", "move", "exchange", "add"} => due'[t]
    BY <1>4, <2>1 DEF FastSoFar
  <2>3. ASSUME NEW o \in Survivors'
        PROVE  /\ list'[o] \in {start'[o], start'[o] + 1}
               /\ start'[o] < Frontier(t)' /\ Phase(t)' # "end" => list'[o] = start'[o]
               /\ list'[o] # start'[o] => due'[t]
    BY <1>2, <1>3, <1>4, <2>1 DEF FastSoFar, Aged
  <2>4. ASSUME NEW o \in Survivors', NEW r \in Survivors',
               start'[o] <= start'[r], list'[r] # start'[r], start'[o] >= Frontier(t)'
        PROVE  list'[o] # start'[o]
    BY <1>2, <1>3, <1>4, <2>1, <2>4 DEF FastSoFar, Aged
  <2> QED
    BY <2>2, <2>3, <2>4 DEF FastSoFar, Aged
<1>5. ASSUME NEW t \in Threads, Inside(t)', mode'[t] = "Full" PROVE FullSoFar(t)'
  BY <1>2, <1>3, <1>5 DEF Ages, FullSoFar
<1> QED
  BY <1>1, <1>4, <1>5 DEF Ages

\* The steps of the one thread that collects.
LEMMA AgesOne ==
  ASSUME NEW t \in Threads, \A s \in Threads : Inside(s)' => s = t,
         \A o \in Objects : list'[o] = None => start'[o] = None,
         Phase(t)' = "test" => mode'[t] = "Fast",
         Inside(t)' /\ mode'[t] = "Fast" => FastSoFar(t)',
         Inside(t)' /\ mode'[t] = "Full" => FullSoFar(t)'
  PROVE  Ages'
<1>1. \A s \in Threads : Phase(s)' = "test" => Inside(s)'
  BY DEF Inside, Collecting
<1> QED
  BY <1>1 DEF Ages

\* A Fast collection is done with generation i and goes on with the next.
LEMMA AgesNextRound ==
  ASSUME NEW t \in Threads, NextRound(t), mode[t] = "Fast", Basics, Ages,
         UNCHANGED <<list, start, mode, resume>>, \A s \in Threads : Inside(s) => s = t,
         pc[t] \in Collecting,
         \A o \in Survivors : /\ list[o] \in {start[o], start[o] + 1}
                              /\ start[o] < i[t] => ~Aged(o)
                              /\ Aged(o) => due'[t],
         \A o, r \in Survivors : start[o] <= start[r] /\ Aged(r) /\ start[o] >= i[t] => Aged(o)
  PROVE  Ages'
<1>t. /\ pc \in [Threads -> Collecting \cup {"idle", "check", "attach", "count", "uncount", "detach"}]
      /\ i \in [Threads -> Gens] /\ mode \in [Threads -> {"Fast", "Full"}]
      /\ start \in [Objects -> Gens \cup {None}] /\ Gens \subseteq Int /\ None \notin Gens
  BY DEF Basics, TypeInv, TypeOK, Gens, Young, Old, Perm, None
<1>1. \A s \in Threads : Inside(s)' => s = t
  BY <1>t DEF NextRound, Inside, Phase, Goto
<1>2. \A o \in Objects : list'[o] = None => start'[o] = None
  BY DEF Ages
<1>3. Survivors' = Survivors /\ \A o \in Survivors : start[o] \in Gens /\ start[o] >= Young
  BY <1>t DEF Survivors, Gens, Young, Old, Perm
<1>4. \/ pc'[t] = "test" /\ i'[t] = i[t] - 1
      \/ pc'[t] = "end" /\ i[t] = Young
  BY <1>t DEF NextRound, Goto, Gens, Young, Old, Perm
<1>5. /\ Phase(t)' = pc'[t] /\ Frontier(t)' = i[t]
      /\ pc'[t] \notin {"mark", "free", "move", "exchange", "add"}
  <2>1. i[t] \in Int
    BY <1>t
  <2>2. pc'[t] = "test" => Frontier(t)' = i'[t] + 1 /\ i'[t] = i[t] - 1
    BY <1>4 DEF Phase, Frontier
  <2>3. pc'[t] = "end" => Frontier(t)' = Young /\ i[t] = Young
    BY <1>4 DEF Phase, Frontier
  <2> QED
    BY <1>4, <2>1, <2>2, <2>3 DEF Phase
<1>6. FastSoFar(t)'
  <2>1. ASSUME NEW o \in Survivors
        PROVE  /\ list'[o] \in {start'[o], start'[o] + 1}
               /\ start'[o] < Frontier(t)' => list'[o] = start'[o]
               /\ list'[o] # start'[o] => due'[t]
    BY <1>5 DEF Aged
  <2>2. ASSUME NEW o \in Survivors, NEW r \in Survivors,
               start'[o] <= start'[r], list'[r] # start'[r], start'[o] >= Frontier(t)'
        PROVE  list'[o] # start'[o]
    BY <1>5, <2>2 DEF Aged
  <2> QED
    BY <1>3, <1>5, <2>1, <2>2 DEF FastSoFar, Aged
<1> QED
  BY <1>1, <1>2, <1>6, AgesOne

LEMMA AgesStep == Basics /\ Ages /\ [Next]_vars => Ages'
<1> SUFFICES ASSUME Basics, Ages, [Next]_vars
             PROVE  Ages'
  OBVIOUS
<1>t. /\ pc \in [Threads -> Collecting \cup {"idle", "check", "attach", "count", "uncount", "detach"}]
      /\ list \in [Objects -> Gens \cup Threads \cup {None}] /\ gen \in [Objects -> Gens \cup {None}]
      /\ i \in [Threads -> Gens] /\ mode \in [Threads -> {"Fast", "Full"}]
      /\ due \in [Threads -> BOOLEAN]
      /\ obj \in [Threads -> Objects \cup {None}] /\ dead \in [Threads -> Objects \cup {None}]
      /\ back \in [Threads -> {"idle", "attach"}] /\ resume \in [Threads -> {"idle", "free"}]
      /\ start \in [Objects -> Gens \cup {None}] /\ Threads \cap Gens = {} /\ None \notin Threads
  BY GenerationsAssumption DEF Basics, TypeInv, TypeOK
<1>g. Gens = {0, 1, 2} /\ Young = 0 /\ Old = 1 /\ Perm = 2 /\ None = -1
  BY DEF Gens, Young, Old, Perm, None
<1>n. \A o \in Objects : list[o] = None => start[o] = None
  BY DEF Ages
<1>e. \A s, t \in Threads : Inside(s) /\ Inside(t) => s = t
  BY DEF Basics, OneInside
\* Steps of the program and those of freeObjects that destroy an object.
<1>k. ASSUME \A o \in Objects : list'[o] = None => start'[o] = None,
             \A o \in Objects : start'[o] # None /\ list'[o] \in Gens =>
                                  start'[o] = start[o] /\ list'[o] = list[o],
             UNCHANGED <<mode, due, i>>,
             \A s \in Threads : Phase(s)' = Phase(s) \/ Phase(s)' \notin Collecting
      PROVE  Ages'
  <2>1. ASSUME NEW s \in Threads, Inside(s)'
        PROVE  Phase(s)' = Phase(s) /\ Inside(s) /\ Frontier(s)' = Frontier(s) /\ Reached(s)' = Reached(s)
    BY <1>k, <2>1 DEF Inside, Frontier, Reached
  <2> QED
    BY <1>k, <2>1, AgesKept
\* Steps of the collection within the round of a generation.
<1>r. ASSUME NEW t \in Threads, Inside(t), UNCHANGED <<mode, due, i, start>>,
             \A o \in Objects : list'[o] = list[o] \/ list'[o] \notin Gens \cup {None},
             \/ Phase(t) \in {"mark", "free"} /\ Phase(t)' \in {"free", "move"}
             \/ Phase(t) \in {"exchange"} /\ Phase(t)' \in {"add"},
             \A s \in Threads \ {t} : Phase(s)' = Phase(s)
      PROVE  Ages'
  <2>1. ASSUME NEW s \in Threads, Inside(s)'
        PROVE  s = t
    BY <1>e, <1>r, <2>1 DEF Inside
  <2>2. Frontier(t)' = Frontier(t) /\ Reached(t)' = Reached(t)
    BY <1>r DEF Frontier, Reached
  <2> QED
    BY <1>r, <1>n, <2>1, <2>2, AgesKept
\* The collection begins.
<1>b. ASSUME NEW t \in Threads, NEW m \in {"Fast", "Full"}, NEW ret, Call(t, m, ret), ~flag,
             pc[t] \in {"idle", "check"}, UNCHANGED <<list, resume>>
      PROVE  Ages'
  <2>1. /\ pc' = [pc EXCEPT ![t] = IF m = "Fast" THEN "test" ELSE "mark"]
        /\ mode' = [mode EXCEPT ![t] = m] /\ start' = gen
        /\ i' = [i EXCEPT ![t] = IF m = "Fast" THEN Perm ELSE Young]
    BY <1>b DEF Call, Goto
  <2>2. \A s \in Threads : ~Inside(s)
    BY <1>b DEF Basics, OneInside
  <2>3. \A s \in Threads : Inside(s)' => s = t
    BY <1>b, <1>t, <2>1, <2>2 DEF Inside, Phase
  <2>4. \A o \in Objects : list'[o] = None => start'[o] = None
    BY <1>b, <2>1 DEF Basics, TypeInv, GenAgrees
  <2>5. \A o \in Survivors' : o \in Objects /\ list'[o] = start'[o] /\ list'[o] \in Gens
    BY <1>b, <2>1 DEF Survivors, Basics, TypeInv, GenAgrees
  <2>6. mode'[t] = m /\ Phase(t)' = (IF m = "Fast" THEN "test" ELSE "mark")
        /\ i'[t] = (IF m = "Fast" THEN Perm ELSE Young)
    BY <1>t, <2>1, <1>g DEF Phase
  <2>7. m = "Fast" => FastSoFar(t)'
    BY <1>g, <2>5, <2>6 DEF FastSoFar, Aged
  <2>8. m = "Full" => FullSoFar(t)'
    BY <1>g, <2>5, <2>6 DEF FullSoFar, Reached
  <2> QED
    BY <2>3, <2>4, <2>6, <2>7, <2>8, AgesOne
<1> USE DEF Goto
<1>1. ASSUME NEW t \in Threads, NEW o \in Objects, New(t, o) PROVE Ages'
  <2>1. \A s \in Threads : Phase(s)' = Phase(s) \/ Phase(s)' \notin Collecting
    BY <1>1, <1>t DEF New, Phase, Collecting
  <2> QED
    BY <1>1, <1>k, <1>n, <2>1 DEF New
<1>2. ASSUME NEW t \in Threads, Check(t) PROVE Ages'
  <2>1. CASE Full(Young) /\ ~flag
    BY <1>2, <1>b, <2>1 DEF Check, objects
  <2>2. CASE ~Full(Young) \/ flag
    BY <1>2, <1>k, <1>t, <1>n, <2>2 DEF Check, Call, Phase, objects, Collecting
  <2> QED
    BY <2>1, <2>2
<1>3. ASSUME NEW t \in Threads, Attach(t) PROVE Ages'
  <2>1. obj[t] \in Objects /\ list[obj[t]] = None /\ start[obj[t]] = None
    BY <1>3, <1>n DEF Attach, Basics, Owned, Tracks
  <2>2. /\ list' = [list EXCEPT ![obj[t]] = Young] /\ pc' = [pc EXCEPT ![t] = "count"]
        /\ UNCHANGED <<mode, due, i, start, resume>>
    BY <1>3 DEF Attach, locals
  <2>3. \A o \in Objects : o # obj[t] => list'[o] = list[o]
    BY <1>t, <2>2
  <2>4. \A s \in Threads : Phase(s)' = Phase(s) \/ Phase(s)' \notin Collecting
    BY <1>t, <2>2 DEF Phase, Collecting
  <2>5. list'[obj[t]] = Young /\ Young # None
    BY <1>t, <1>g, <2>1, <2>2
  <2> QED
    BY <1>k, <1>n, <2>1, <2>2, <2>3, <2>4, <2>5
<1>4. ASSUME NEW t \in Threads, Count(t) PROVE Ages'
  <2>1. \A s \in Threads : Phase(s)' = Phase(s) \/ Phase(s)' \notin Collecting
    BY <1>4, <1>t DEF Count, Phase, Collecting
  <2> QED
    BY <1>4, <1>k, <1>n, <2>1 DEF Count
<1>5. ASSUME NEW t \in Threads, CallFull(t) PROVE Ages'
  <2>1. CASE ~flag
    BY <1>5, <1>b, <2>1 DEF CallFull, objects
  <2>2. CASE flag
    BY <1>5, <1>k, <1>t, <1>n, <2>2 DEF CallFull, Call, Phase, objects, Collecting
  <2> QED
    BY <2>1, <2>2
<1>6. ASSUME NEW t \in Threads, NEW o \in Objects, Drop(t, o) PROVE Ages'
  <2>1. \A s \in Threads : Phase(s)' = Phase(s)
    BY <1>6, <1>t DEF Drop, Phase
  <2> QED
    BY <1>6, <1>k, <1>n, <2>1 DEF Drop
<1>7. ASSUME NEW t \in Threads, Uncount(t) PROVE Ages'
  BY <1>7, <1>k, <1>t, <1>n DEF Uncount, Phase, objects, locals
<1>8. ASSUME NEW t \in Threads, Detach(t) PROVE Ages'
  <2>1. \A s \in Threads : Phase(s)' = Phase(s)
    BY <1>8, <1>t DEF Detach, Phase
  <2>2. /\ list' = [list EXCEPT ![dead[t]] = None] /\ start' = [start EXCEPT ![dead[t]] = None]
        /\ UNCHANGED <<mode, due, i>>
    BY <1>8 DEF Detach
  <2>3. dead[t] \in Objects
    BY <1>8 DEF Detach, Basics, Owned, Untracks
  <2>4. \A o \in Objects : o # dead[t] => list'[o] = list[o] /\ start'[o] = start[o]
    BY <1>t, <2>2
  <2>5. list'[dead[t]] = None /\ start'[dead[t]] = None
    BY <1>t, <2>2, <2>3
  <2> QED
    BY <1>k, <1>n, <2>1, <2>2, <2>4, <2>5
<1>i. ASSUME NEW t \in Threads, pc[t] \in Collecting
      PROVE  /\ Inside(t) /\ Phase(t) = pc[t] /\ \A s \in Threads : Inside(s) => s = t
             /\ mode[t] = "Fast" => FastSoFar(t)
             /\ mode[t] = "Full" => FullSoFar(t)
             /\ pc[t] = "test" => mode[t] = "Fast"
             /\ \A o \in Survivors : start[o] \in Gens /\ list[o] \in Gens
  <2>1. Inside(t) /\ Phase(t) = pc[t]
    BY <1>i DEF Inside, Phase, Collecting
  <2> QED
    BY <1>t, <1>e, <2>1 DEF Ages, Survivors
<1>9. ASSUME NEW t \in Threads, Test(t) PROVE Ages'
  <2>1. /\ pc[t] = "test" /\ pc[t] \in Collecting /\ mode[t] = "Fast" /\ FastSoFar(t)
        /\ UNCHANGED <<list, start, mode, resume>> /\ Frontier(t) = i[t] + 1
    BY <1>9, <1>i DEF Test, objects, Frontier, Collecting, Phase
  <2>2. \A o \in Survivors : /\ start[o] \in Gens /\ list[o] \in Gens
                             /\ list[o] \in {start[o], start[o] + 1}
                             /\ start[o] < i[t] + 1 => ~Aged(o)
                             /\ Aged(o) => due[t]
    BY <1>i, <2>1 DEF FastSoFar
  <2>3. \A o, r \in Survivors : start[o] <= start[r] /\ Aged(r) /\ start[o] >= i[t] + 1 => Aged(o)
    BY <2>1 DEF FastSoFar
  <2>4. i[t] \in Gens
    BY <1>t
  <2>5. CASE ~due[t] /\ ~Full(i[t])
    <3>1. NextRound(t) /\ due' = due
      BY <1>9, <2>5 DEF Test
    <3>2. \A o \in Survivors : ~Aged(o)
      BY <2>2, <2>5
    <3> QED
      BY <1>i, <2>1, <2>2, <3>1, <3>2, AgesNextRound
  <2>6. CASE (due[t] \/ Full(i[t])) /\ i[t] = Perm /\ ~(resident >= ResidentLimit)
    <3>1. NextRound(t) /\ due' = [due EXCEPT ![t] = TRUE]
      BY <1>9, <2>6 DEF Test
    <3>2. due'[t]
      BY <1>t, <3>1
    <3>3. \A o \in Survivors : ~Aged(o)
      BY <1>g, <2>2, <2>6 DEF Aged
    <3> QED
      BY <1>i, <2>1, <2>2, <3>1, <3>2, <3>3, AgesNextRound
  <2>7. CASE (due[t] \/ Full(i[t])) /\ (i[t] # Perm \/ resident >= ResidentLimit)
    <3>1. pc' = [pc EXCEPT ![t] = "mark"] /\ due' = [due EXCEPT ![t] = TRUE] /\ i' = i
      BY <1>9, <2>7 DEF Test
    <3>2. Phase(t)' = "mark" /\ Frontier(t)' = i[t] + 1 /\ due'[t] /\ mode'[t] = "Fast"
      BY <1>t, <2>1, <3>1 DEF Phase, Frontier
    <3>3. \A s \in Threads : Inside(s)' => s = t
      BY <1>i, <1>t, <2>1, <3>1 DEF Inside, Phase
    <3>4. FastSoFar(t)'
      BY <2>1, <2>2, <2>3, <3>2 DEF FastSoFar, Survivors, Aged
    <3> QED
      BY <1>n, <2>1, <3>2, <3>3, <3>4, AgesOne
  <2> QED
    BY <2>5, <2>6, <2>7
<1>10. ASSUME NEW t \in Threads, Mark(t) PROVE Ages'
  <2>1. PICK S \in SUBSET {o \in On(i[t]) : stage[o] = "live"} :
          list' = [o \in Objects |-> IF o \in S \/ (list[o] = i[t] /\ stage[o] = "dying")
                                    THEN t ELSE list[o]]
    BY <1>10 DEF Mark
  <2>2. \A o \in Objects : list'[o] = list[o] \/ list'[o] \notin Gens \cup {None}
    BY <1>t, <2>1
  <2>3. /\ pc[t] = "mark" /\ pc' = [pc EXCEPT ![t] = "free"]
        /\ UNCHANGED <<mode, due, i, start, resume>>
    BY <1>10 DEF Mark, locals
  <2>4. /\ Inside(t) /\ Phase(t) = "mark" /\ Phase(t)' = "free"
        /\ \A s \in Threads \ {t} : Phase(s)' = Phase(s)
    BY <1>t, <2>3 DEF Inside, Phase, Collecting
  <2> QED
    BY <1>r, <2>2, <2>3, <2>4
<1>11. ASSUME NEW t \in Threads, DestroyAgain(t) PROVE Ages'
  BY <1>11, <1>k, <1>n DEF DestroyAgain, Phase, objects, locals
<1>12. ASSUME NEW t \in Threads, FreeEnd(t) PROVE Ages'
  <2>1. pc[t] = "free" /\ pc[t] \in Collecting /\ UNCHANGED <<list, start, mode, due, resume>>
    BY <1>12 DEF FreeEnd, objects, Collecting
  <2>2. CASE i[t] # Perm
    <3>1. pc' = [pc EXCEPT ![t] = "move"] /\ i' = i
      BY <1>12, <2>2 DEF FreeEnd
    <3>2. /\ Inside(t) /\ Phase(t) = "free" /\ Phase(t)' = "move"
          /\ \A s \in Threads \ {t} : Phase(s)' = Phase(s)
      BY <1>t, <2>1, <3>1 DEF Inside, Phase, Collecting
    <3> QED
      BY <1>r, <2>1, <3>1, <3>2
  <2>3. CASE i[t] = Perm /\ mode[t] = "Fast"
    <3>1. NextRound(t)
      BY <1>12, <2>3 DEF FreeEnd
    <3>2. FastSoFar(t) /\ Frontier(t) = i[t] + 1
      BY <1>i, <2>1, <2>3 DEF Frontier
    <3>3. \A o \in Survivors : list[o] \in {start[o], start[o] + 1} /\ ~Aged(o)
      BY <1>g, <1>i, <2>1, <2>3, <3>2 DEF FastSoFar, Aged
    <3> QED
      BY <1>i, <2>1, <2>3, <3>1, <3>3, AgesNextRound
  <2>4. CASE i[t] = Perm /\ mode[t] = "Full"
    <3>1. pc' = [pc EXCEPT ![t] = "end"] /\ i' = i
      BY <1>12, <2>4, <1>g DEF FreeEnd
    <3>2. Phase(t)' = "end" /\ Reached(t)' = Perm /\ Reached(t) = Perm /\ mode'[t] = "Full"
      BY <1>t, <2>1, <2>4, <3>1 DEF Phase, Reached
    <3>3. \A s \in Threads : Inside(s)' => s = t
      BY <1>i, <1>t, <2>1, <3>1 DEF Inside, Phase
    <3>4. FullSoFar(t)'
      BY <1>i, <2>1, <2>4, <3>2 DEF FullSoFar, Survivors
    <3> QED
      BY <1>n, <2>1, <3>2, <3>3, <3>4, AgesOne
  <2> QED
    BY <1>t, <2>2, <2>3, <2>4
\* AfterMove of a Full collection: generation i is empty now.
<1>f. ASSUME NEW t \in Threads, pc[t] \in {"move", "add"}, mode[t] = "Full",
             UNCHANGED <<list, start, mode, resume>>,
             i' = [i EXCEPT ![t] = @ + 1], pc' = [pc EXCEPT ![t] = "mark"],
             \A o \in Survivors : list[o] >= i[t] + 1
      PROVE  Ages'
  <2>1. Phase(t)' = "mark" /\ Reached(t)' = i[t] + 1 /\ mode'[t] = "Full"
    BY <1>f, <1>t DEF Phase, Reached
  <2>2. \A s \in Threads : Inside(s)' => s = t
    BY <1>f, <1>i, <1>t DEF Inside, Phase, Collecting
  <2>3. FullSoFar(t)'
    BY <1>f, <2>1 DEF FullSoFar, Survivors
  <2> QED
    BY <1>f, <1>n, <2>1, <2>2, <2>3, AgesOne
<1>13. ASSUME NEW t \in Threads, Move(t) PROVE Ages'
  <2>1. /\ pc[t] = "move" /\ pc[t] \in Collecting /\ UNCHANGED <<start, mode, due, resume>>
        /\ list' = [o \in Objects |-> IF list[o] = i[t] THEN i[t] + 1 ELSE list[o]]
    BY <1>13 DEF Move, Collecting
  <2>2. i[t] \in Gens /\ i[t] # Perm /\ i[t] + 1 \in Gens
    BY <1>t, <1>g, <2>1 DEF Basics, TypeInv, MovesUp
  <2>3. \A o \in Survivors : o \in Objects /\ start[o] \in Gens /\ list[o] \in Gens
    BY <1>i, <2>1 DEF Survivors
  <2>4. mode[t] = "Fast" =>
          /\ due[t]
          /\ \A o \in Survivors : /\ list[o] \in {start[o], start[o] + 1}
                                  /\ start[o] < i[t] + 1 => ~Aged(o)
                                  /\ Aged(o) => due[t]
          /\ \A o, r \in Survivors :
               start[o] <= start[r] /\ Aged(r) /\ start[o] >= i[t] + 1 => Aged(o)
    <3>1. Frontier(t) = i[t] + 1 /\ Phase(t) = "move"
      BY <1>i, <2>1 DEF Frontier
    <3> QED
      BY <1>i, <2>1, <3>1 DEF FastSoFar
  <2>5. mode[t] = "Full" => \A o \in Survivors : list[o] >= i[t]
    BY <1>i, <2>1 DEF FullSoFar, Reached
  <2>6. CASE On(i[t]) = {}
    <3>1. list' = list
      BY <1>t, <2>1, <2>6 DEF On
    <3>2. \A o \in Survivors : list[o] # i[t]
      BY <2>3, <2>6 DEF On
    <3>3. CASE mode[t] = "Fast"
      <4>1. NextRound(t)
        BY <1>13, <2>6, <3>3 DEF Move, AfterMove
      <4>2. \A o \in Survivors : start[o] # i[t]
        BY <1>g, <2>2, <2>3, <2>4, <3>2, <3>3 DEF Aged
      <4>3. \A o, r \in Survivors : start[o] <= start[r] /\ Aged(r) /\ start[o] >= i[t] => Aged(o)
        BY <1>g, <2>2, <2>3, <2>4, <3>3, <4>2
      <4>4. \A o \in Survivors : /\ list[o] \in {start[o], start[o] + 1}
                                 /\ start[o] < i[t] => ~Aged(o)
                                 /\ Aged(o) => due'[t]
        BY <1>g, <2>1, <2>2, <2>3, <2>4, <3>3
      <4> QED
        BY <1>i, <2>1, <3>1, <3>3, <4>1, <4>3, <4>4, AgesNextRound
    <3>4. CASE mode[t] = "Full"
      <4>1. i' = [i EXCEPT ![t] = @ + 1] /\ pc' = [pc EXCEPT ![t] = "mark"]
        BY <1>13, <2>6, <3>4 DEF Move, AfterMove
      <4>2. \A o \in Survivors : list[o] >= i[t] + 1
        BY <1>g, <2>2, <2>3, <2>5, <3>2, <3>4
      <4> QED
        BY <1>f, <2>1, <3>1, <3>4, <4>1, <4>2
    <3> QED
      BY <1>t, <3>3, <3>4
  <2>7. CASE On(i[t]) # {}
    <3>1. pc' = [pc EXCEPT ![t] = "exchange"] /\ i' = i
      BY <1>13, <2>7 DEF Move
    <3>2. /\ Phase(t)' = "exchange" /\ Frontier(t)' = i[t] /\ Reached(t)' = i[t] + 1
          /\ mode'[t] = mode[t]
      BY <1>t, <2>1, <3>1 DEF Phase, Frontier, Reached
    <3>3. \A s \in Threads : Inside(s)' => s = t
      BY <1>i, <1>t, <2>1, <3>1 DEF Inside, Phase
    <3>4. \A o \in Objects : list'[o] = None => start'[o] = None
      BY <1>t, <1>g, <1>n, <2>1, <2>2
    <3>5. /\ \A o \in Survivors' : o \in Survivors
          /\ \A o \in Survivors : list'[o] = IF list[o] = i[t] THEN i[t] + 1 ELSE list[o]
      BY <1>t, <2>1, <2>2, <2>3 DEF Survivors
    <3>6. ASSUME mode[t] = "Fast" PROVE FastSoFar(t)'
      <4>1. ASSUME NEW o \in Survivors
            PROVE  /\ list'[o] \in {start[o], start[o] + 1}
                   /\ start[o] < i[t] => list'[o] = start[o]
                   /\ list'[o] # start[o] => due[t]
                   /\ start[o] = i[t] => list'[o] # start[o]
                   /\ start[o] > i[t] => list'[o] = list[o]
        BY <1>g, <2>2, <2>3, <2>4, <3>5, <3>6 DEF Aged
      <4>2. ASSUME NEW o \in Survivors, NEW r \in Survivors,
                   start[o] <= start[r], list'[r] # start[r], start[o] >= i[t]
            PROVE  list'[o] # start[o]
        <5>1. CASE start[o] = i[t]
          BY <4>1, <5>1
        <5>2. CASE start[o] # i[t]
          BY <1>g, <2>2, <2>3, <2>4, <3>6, <4>1, <4>2, <5>2 DEF Aged
        <5> QED
          BY <5>1, <5>2
      <4> QED
        BY <2>1, <2>4, <3>2, <3>5, <3>6, <4>1, <4>2 DEF FastSoFar, Aged
    <3>7. ASSUME mode[t] = "Full" PROVE FullSoFar(t)'
      <4>1. \A o \in Survivors : list'[o] >= i[t] + 1
        BY <1>g, <2>2, <2>3, <2>5, <3>5, <3>7
      <4> QED
        BY <3>2, <3>5, <4>1 DEF FullSoFar
    <3> QED
      BY <3>2, <3>3, <3>4, <3>6, <3>7, AgesOne
  <2> QED
    BY <2>6, <2>7
<1>14. ASSUME NEW t \in Threads, Exchange(t) PROVE Ages'
  <2>1. /\ pc[t] = "exchange" /\ pc' = [pc EXCEPT ![t] = "add"]
        /\ UNCHANGED <<list, mode, due, i, start, resume>>
    BY <1>14 DEF Exchange, objects
  <2>2. /\ Inside(t) /\ Phase(t) = "exchange" /\ Phase(t)' = "add"
        /\ \A s \in Threads \ {t} : Phase(s)' = Phase(s)
    BY <1>t, <2>1 DEF Inside, Phase, Collecting
  <2> QED
    BY <1>r, <2>1, <2>2
<1>15. ASSUME NEW t \in Threads, Add(t) PROVE Ages'
  <2>1. pc[t] = "add" /\ pc[t] \in Collecting /\ UNCHANGED <<list, start, mode, due, resume>>
    BY <1>15 DEF Add, objects, Collecting
  <2>2. CASE mode[t] = "Fast"
    <3>1. NextRound(t)
      BY <1>15, <2>2 DEF Add, AfterMove
    <3>2. FastSoFar(t) /\ Frontier(t) = i[t] /\ Phase(t) = "add"
      BY <1>i, <2>1, <2>2 DEF Frontier
    <3>3. /\ \A o \in Survivors : /\ list[o] \in {start[o], start[o] + 1}
                                  /\ start[o] < i[t] => ~Aged(o)
                                  /\ Aged(o) => due'[t]
          /\ \A o, r \in Survivors : start[o] <= start[r] /\ Aged(r) /\ start[o] >= i[t] => Aged(o)
      BY <2>1, <3>2 DEF FastSoFar
    <3> QED
      BY <1>i, <2>1, <2>2, <3>1, <3>3, AgesNextRound
  <2>3. CASE mode[t] = "Full"
    <3>1. i' = [i EXCEPT ![t] = @ + 1] /\ pc' = [pc EXCEPT ![t] = "mark"]
      BY <1>15, <2>3 DEF Add, AfterMove
    <3>2. \A o \in Survivors : list[o] >= i[t] + 1
      BY <1>i, <2>1, <2>3 DEF FullSoFar, Reached
    <3> QED
      BY <1>f, <2>1, <2>3, <3>1, <3>2
  <2> QED
    BY <1>t, <2>2, <2>3
<1>16. ASSUME NEW t \in Threads, End(t) PROVE Ages'
  <2>1. /\ pc[t] \in Collecting /\ pc' = [pc EXCEPT ![t] = back[t]]
        /\ start' = [o \in Objects |-> None] /\ resume' = resume
    BY <1>16 DEF End, Return, Collecting
  <2>2. \A s \in Threads : ~Inside(s)'
    BY <1>i, <1>t, <2>1 DEF Inside, Phase, Collecting
  <2>3. \A s \in Threads : Phase(s)' = "test" => Inside(s)'
    BY DEF Inside, Collecting
  <2> QED
    BY <2>1, <2>2, <2>3 DEF Ages
<1>17. CASE UNCHANGED vars
  BY <1>17, <1>k, <1>n DEF vars, objects, locals, Phase
<1> QED
  BY <1>1, <1>2, <1>3, <1>4, <1>5, <1>6, <1>7, <1>8, <1>9, <1>10, <1>11, <1>12, <1>13, <1>14,
     <1>15, <1>16, <1>17 DEF Next, Track, Untrack, Collect

LEMMA AgesHold == Init /\ [][Next]_vars => []Ages
<1>1. Init => Ages
  BY DEF Init, Ages, Inside, Phase, Collecting
<1> QED
  BY <1>1, AgesStep, BasicsHold, PTL

\* A Fast collection ages an object by one generation at most and never ages
\* an older one while it leaves a younger one behind, whatever is created and
\* dropped meanwhile.
THEOREM FastCollection == Spec => []FastAges
<1>1. Basics /\ Ages => FastAges
  <2> SUFFICES ASSUME Basics, Ages, NEW t \in At("end"), mode[t] = "Fast"
               PROVE  /\ \A o \in Survivors : list[o] \in {start[o], start[o] + 1}
                      /\ \A o, r \in Survivors :
                           start[o] <= start[r] /\ list[r] # start[r] => list[o] # start[o]
    BY DEF FastAges
  <2>1. t \in Threads /\ Inside(t) /\ Phase(t) = "end" /\ Frontier(t) = Young
    BY DEF At, Inside, Phase, Frontier, Collecting
  <2>2. FastSoFar(t)
    BY <2>1 DEF Ages
  <2>3. \A o \in Survivors : start[o] >= Young
    BY DEF Survivors, Basics, TypeInv, TypeOK, Gens, Young, Old, Perm
  <2> QED
    BY <2>1, <2>2, <2>3 DEF FastSoFar, Aged
<1> QED
  BY <1>1, BasicsHold, AgesHold, PTL DEF Spec

\* A Full collection makes everything permanent that was tracked when it began
\* and survives it.
THEOREM FullCollection == Spec => []FullAges
<1>1. Basics /\ Ages => FullAges
  <2> SUFFICES ASSUME Basics, Ages, NEW t \in At("end"), mode[t] = "Full", NEW o \in Survivors
               PROVE  list[o] = Perm
    BY DEF FullAges
  <2>1. t \in Threads /\ Inside(t) /\ Phase(t) = "end" /\ Reached(t) = Perm
    BY DEF At, Inside, Phase, Reached, Collecting
  <2>2. list[o] >= Perm
    BY <2>1 DEF Ages, FullSoFar
  <2> QED
    BY <2>2 DEF Survivors, Gens, Young, Old, Perm
<1> QED
  BY <1>1, BasicsHold, AgesHold, PTL DEF Spec
=============================================================================
