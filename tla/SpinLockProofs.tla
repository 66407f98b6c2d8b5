--------------------------- MODULE SpinLockProofs ---------------------------
(***************************************************************************)
(* SpinLock for every number of threads and every counter width.  Typing   *)
(* alone does not give mutual exclusion: the inductive invariant is Window,*)
(* that the tickets in use are distinct and contiguous from _ticket, which *)
(* survives the wrap as long as there are at most Word threads.            *)
(***************************************************************************)
EXTENDS SpinLock, Lines

\* Type correctness: the counters stay in range and every thread is idle,
\* spinning or inside.
LEMMA TypeInvariant == Init /\ [][Next]_vars => []TypeOK
<1> USE WordAssumption DEF Words
<1>1. Init => TypeOK
  BY DEF Init, TypeOK
<1>2. TypeOK /\ [Next]_vars => TypeOK'
  BY DEF TypeOK, Next, Draw, Enter, Release, vars, Succ
<1> QED
  BY <1>1, <1>2, PTL

\* The threads in the lock are finitely many, and no more than Threads.
LEMMA ActiveFinite ==
  /\ IsFiniteSet(Active)
  /\ Cardinality(Active) \in Nat
  /\ Cardinality(Active) <= Cardinality(Threads)
  /\ Cardinality(Threads) \in Nat
BY FS_Subset, FS_CardinalityType, ThreadsAssumption DEF Active

\* One thread more or one less in the lock.
LEMMA ActiveGrows ==
  ASSUME NEW t \in Threads, t \notin Active, Active' = Active \cup {t}
  PROVE  /\ Cardinality(Active)' = Cardinality(Active) + 1
         /\ Cardinality(Active) < Word
<1>1. IsFiniteSet(Active) /\ Cardinality(Active) \in Nat
  BY ActiveFinite
<1>2. Cardinality(Active \cup {t}) = Cardinality(Active) + 1
  BY <1>1, FS_AddElement
<1>3. Cardinality(Active \cup {t}) <= Cardinality(Threads)
  BY FS_Subset, ThreadsAssumption DEF Active
<1>4. Cardinality(Threads) \in Nat /\ Cardinality(Threads) <= Word
  BY FS_CardinalityType, ThreadsAssumption
<1> QED
  BY <1>1, <1>2, <1>3, <1>4, WordAssumption

LEMMA ActiveShrinks ==
  ASSUME NEW t \in Threads, t \in Active, Active' = Active \ {t}
  PROVE  /\ Cardinality(Active)' = Cardinality(Active) - 1
         /\ Cardinality(Active) >= 1
<1>1. IsFiniteSet(Active) /\ Cardinality(Active) \in Nat
  BY ActiveFinite
<1>2. IsFiniteSet(Active \ {t}) /\ Cardinality(Active \ {t}) = Cardinality(Active) - 1
  BY <1>1, FS_RemoveElement
<1>3. Cardinality(Active \ {t}) \in Nat
  BY <1>2, FS_CardinalityType
<1> QED
  BY <1>1, <1>2, <1>3

\* All holders show the same ticket, and tickets are distinct.
LEMMA WindowExcludes == Window => MutualExclusion
BY DEF Window, MutualExclusion, Holding, Active

LEMMA WindowInit == Init => Window
<1> SUFFICES ASSUME Init PROVE Window
  OBVIOUS
<1>1. Active = {} /\ Holding = {}
  BY DEF Init, Active, Holding
<1>2. Cardinality(Active) = 0
  BY <1>1, FS_EmptySet
<1> QED
  BY <1>1, <1>2, WordAssumption DEF Init, Window

LEMMA WindowStep == TypeOK /\ Window /\ [Next]_vars => Window'
<1> SUFFICES ASSUME TypeOK, Window, [Next]_vars
             PROVE  Window'
  OBVIOUS
<1> USE WordAssumption DEF TypeOK, Words
<1>c. Cardinality(Active) \in Nat
  BY ActiveFinite
<1>1. ASSUME NEW t \in Threads, Draw(t) PROVE Window'
  <2>1. Active' = Active \cup {t} /\ t \notin Active /\ Holding' = Holding
    BY <1>1 DEF Draw, Active, Holding
  <2>2. Cardinality(Active)' = Cardinality(Active) + 1 /\ Cardinality(Active) < Word
    BY <2>1, ActiveGrows
  <2>3. Ahead(ticket, users) = Cardinality(Active)
    BY <2>2, <1>c DEF Window, Ahead
  <2>4. id'[t] = users /\ \A s \in Active : id'[s] = id[s] /\ id[s] # users
    BY <1>1, <2>1, <2>3, <1>c DEF Draw, Window, Distance, Active
  <2>5. (\A s \in Active : Distance(s) < Cardinality(Active))'
    <3> SUFFICES ASSUME NEW s \in Active' PROVE Distance(s)' < Cardinality(Active)'
      BY DEF Active
    <3>1. CASE s = t
      BY <3>1, <2>2, <2>3, <2>4, <1>c, <1>1 DEF Distance, Ahead, Draw
    <3>2. CASE s \in Active
      <4>1. Distance(s)' = Distance(s)
        BY <3>2, <2>4, <1>1 DEF Distance, Draw, Ahead
      <4>2. Distance(s) < Cardinality(Active) /\ Distance(s) \in Int
        BY <3>2 DEF Window, Distance, Ahead, Active
      <4> QED
        BY <4>1, <4>2, <2>2, <1>c
    <3> QED
      BY <3>1, <3>2, <2>1
  <2>6. (\A r, s \in Active : id[r] = id[s] => r = s)'
    BY <2>1, <2>4 DEF Window
  <2>7. (\A s \in Holding : id[s] = ticket)'
    BY <1>1, <2>1, <2>4 DEF Window, Draw, Holding, Active
  <2>8. users' = Succ(users) /\ ticket' = ticket
    BY <1>1 DEF Draw
  <2>9. users' = IF ticket' + Cardinality(Active)' < Word
                 THEN ticket' + Cardinality(Active)'
                 ELSE ticket' + Cardinality(Active)' - Word
    BY <2>2, <2>8, <1>c DEF Window, Succ
  <2> QED
    BY <2>5, <2>6, <2>7, <2>9 DEF Window
<1>2. ASSUME NEW t \in Threads, Enter(t) PROVE Window'
  <2>1. Active' = Active /\ Holding' = Holding \cup {t} /\ id[t] = ticket
    BY <1>2 DEF Enter, Active, Holding
  <2>2. UNCHANGED <<users, ticket, id>>
    BY <1>2 DEF Enter
  <2> QED
    BY <2>1, <2>2 DEF Window, Distance, Ahead
<1>3. ASSUME NEW t \in Threads, Release(t) PROVE Window'
  <2>1. t \in Active /\ t \in Holding /\ Active' = Active \ {t}
    BY <1>3 DEF Release, Active, Holding
  <2>2. Cardinality(Active)' = Cardinality(Active) - 1 /\ Cardinality(Active) >= 1
    BY <2>1, ActiveShrinks
  <2>3. ticket' = Succ(ticket) /\ UNCHANGED <<users, id>>
    BY <1>3 DEF Release
  <2>4. Holding' = {}
    BY <1>3, <2>1, WindowExcludes DEF Release, Holding, MutualExclusion
  <2>5. ASSUME NEW s \in Active' PROVE Distance(s)' = Distance(s) - 1 /\ Distance(s) \in Int
    <3>1. s \in Threads /\ s \in Active /\ id[s] # ticket
      BY <2>1 DEF Window, Active
    <3> QED
      BY <3>1, <2>3 DEF Distance, Ahead, Succ
  <2>6. (\A s \in Active : Distance(s) < Cardinality(Active))'
    BY <2>1, <2>2, <2>5, <1>c DEF Window
  <2>7. (\A r, s \in Active : id[r] = id[s] => r = s)'
    BY <2>1, <2>3 DEF Window
  <2>8. Cardinality(Active) <= Word
    BY ActiveFinite, ThreadsAssumption
  <2>9. users' = IF ticket' + Cardinality(Active)' < Word
                 THEN ticket' + Cardinality(Active)'
                 ELSE ticket' + Cardinality(Active)' - Word
    BY <2>2, <2>3, <2>8, <1>c DEF Window, Succ
  <2> QED
    BY <2>4, <2>6, <2>7, <2>9 DEF Window
<1>4. CASE UNCHANGED vars
  BY <1>4 DEF vars, Window, Distance, Ahead, Active, Holding
<1> QED
  BY <1>1, <1>2, <1>3, <1>4 DEF Next

\* Type correctness: the counters stay in their width, however often they wrap.
THEOREM TypeCorrect == Spec => []TypeOK
BY TypeInvariant, PTL DEF Spec

\* The tickets in use form a window that starts at _ticket, whatever the width
\* of the counters and however often they wrap.
THEOREM WindowInvariant == Spec => []Window
<1>1. Spec => []TypeOK
  BY TypeInvariant, PTL DEF Spec
<1> QED
  BY <1>1, WindowInit, WindowStep, PTL DEF Spec

\* SpinLock::Scope protects a critical section: two threads are never inside
\* together.
THEOREM Exclusion == Spec => []MutualExclusion
BY WindowInvariant, WindowExcludes, PTL

-----------------------------------------------------------------------------
\* The line the tickets make: in the window every place is taken, by the one
\* thread at that distance.
LEMMA Places ==
  ASSUME TypeOK, Window
  PROVE  /\ Line \in [1 .. Cardinality(Active) -> Active]
         /\ \A t \in Active : /\ Distance(t) \in 0 .. (Cardinality(Active) - 1)
                              /\ Line[Distance(t) + 1] = t
         /\ \A k \in 1 .. Cardinality(Active) : Distance(Line[k]) = k - 1
<1> DEFINE n == Cardinality(Active)
           f == [t \in Active |-> Distance(t)]
           Before(t) == Cardinality({s \in Active : Distance(s) < Distance(t)})
<1>1. IsFiniteSet(Active) /\ n \in Nat
  BY ActiveFinite
<1>2. /\ f \in [Active -> Int]
      /\ \A s \in Active : 0 <= f[s] /\ f[s] < n
      /\ \A s, t \in Active : f[s] = f[t] => s = t
  <2>1. ASSUME NEW s \in Active
        PROVE  s \in Threads /\ id[s] \in Words /\ Distance(s) \in Int /\ 0 <= Distance(s)
    BY WordAssumption DEF Active, TypeOK, Words, Distance, Ahead
  <2>2. ASSUME NEW s \in Active, NEW t \in Active, Distance(s) = Distance(t) PROVE s = t
    <3>1. id[s] = id[t]
      BY <2>1, <2>2, WordAssumption DEF TypeOK, Words, Distance, Ahead
    <3> QED
      BY <3>1 DEF Window
  <2> QED
    BY <2>1, <2>2 DEF Window
<1>3. \A t \in Active : Before(t) = Distance(t)
  <2>1. \A t \in Active : Cardinality({s \in Active : f[s] < f[t]}) = f[t]
    BY <1>1, <1>2, Ranks
  <2>2. \A t \in Active : {s \in Active : f[s] < f[t]} = {s \in Active : Distance(s) < Distance(t)}
    OBVIOUS
  <2> QED
    BY <2>1, <2>2
<1>4. \A k \in 0 .. (n - 1) : \E t \in Active : f[t] = k
  BY <1>1, <1>2, FillsWindow
<1>5. ASSUME NEW k \in 1 .. n
      PROVE  Line[k] \in Active /\ Distance(Line[k]) = k - 1
  <2>1. \E t \in Active : Before(t) = k - 1
    <3>1. k - 1 \in 0 .. (n - 1)
      BY <1>1
    <3> QED
      BY <3>1, <1>3, <1>4
  <2>2. Line[k] = CHOOSE t \in Active : Before(t) = k - 1
    BY DEF Line
  <2> HIDE DEF Before
  <2>3. Line[k] \in Active /\ Before(Line[k]) = k - 1
    BY <2>1, <2>2
  <2> QED
    BY <1>3, <2>3
<1>6. ASSUME NEW t \in Active
      PROVE  Distance(t) \in 0 .. (n - 1) /\ Line[Distance(t) + 1] = t
  <2>1. Distance(t) \in 0 .. (n - 1) /\ Distance(t) + 1 \in 1 .. n
    BY <1>1, <1>2
  <2>2. Line[Distance(t) + 1] \in Active /\ Distance(Line[Distance(t) + 1]) = Distance(t) + 1 - 1
    BY <1>5, <2>1
  <2> QED
    BY <1>2, <2>1, <2>2
<1>7. Line \in [1 .. n -> Active]
  BY <1>5 DEF Line
<1> QED
  BY <1>5, <1>6, <1>7

LEMMA LineStep ==
  TypeOK /\ Window /\ [Next]_vars /\ TypeOK' /\ Window' => [Abstract!Next]_(Abstract!lock)
<1> SUFFICES ASSUME TypeOK, Window, [Next]_vars, TypeOK', Window'
             PROVE  [Abstract!Next]_(Abstract!lock)
  OBVIOUS
<1> DEFINE n == Cardinality(Active)
<1>n. n \in Nat /\ n' \in Nat
  <2>1. n' \in Nat
    BY FS_Subset, FS_CardinalityType, ThreadsAssumption DEF Active
  <2> QED
    BY <2>1, ActiveFinite
<1>p. /\ Line \in [1 .. n -> Active]
      /\ \A t \in Active : Distance(t) \in 0 .. (n - 1) /\ Line[Distance(t) + 1] = t
      /\ \A k \in 1 .. n : Distance(Line[k]) = k - 1
  BY Places
<1>q. /\ Line' \in [1 .. n' -> Active']
      /\ \A t \in Active' : /\ Ahead(ticket', id'[t]) \in 0 .. (n' - 1)
                            /\ Line'[Ahead(ticket', id'[t]) + 1] = t
  <2>1. (/\ Line \in [1 .. Cardinality(Active) -> Active]
         /\ \A t \in Active : /\ Distance(t) \in 0 .. (Cardinality(Active) - 1)
                              /\ Line[Distance(t) + 1] = t)'
    BY Places, PTL
  <2> QED
    BY <2>1 DEF Distance, Ahead
<1>s. Active \subseteq Threads
  BY DEF Active
<1>t. /\ id \in [Threads -> Words] /\ pc \in [Threads -> {"idle", "spin", "held"}]
      /\ ticket \in Words /\ users \in Words
  BY DEF TypeOK
<1> HIDE DEF n
\* Whoever draws a ticket is the last of the line ...
<1>1. ASSUME NEW t \in Threads, Draw(t) PROVE Abstract!Ask(t)
  <2>1. Active' = Active \cup {t} /\ t \notin Active /\ Holding' = Holding /\ UNCHANGED ticket
        /\ id' = [id EXCEPT ![t] = users]
    BY <1>1, <1>t DEF Draw, Active, Holding
  <2>2. n' = n + 1
    BY <2>1, ActiveGrows DEF n
  <2>3. \A s \in Active : Ahead(ticket', id'[s]) = Distance(s)
    BY <2>1, <1>s, <1>t DEF Distance
  <2>4. Ahead(ticket', id'[t]) = n
    <3>1. id'[t] = users
      BY <1>t, <2>1
    <3>2. n < Word
      BY <2>1, ActiveGrows DEF n
    <3> QED
      BY <1>n, <1>t, <2>1, <3>1, <3>2, WordAssumption DEF Window, Ahead, n, Words
  <2>5. \A k \in 1 .. n : Line'[k] = Line[k]
    <3> SUFFICES ASSUME NEW k \in 1 .. n PROVE Line'[k] = Line[k]
      OBVIOUS
    <3>1. Line[k] \in Active /\ Distance(Line[k]) + 1 = k
      BY <1>p, <1>n
    <3> QED
      BY <1>q, <2>1, <2>3, <3>1
  <2>6. Line'[n + 1] = t
    BY <1>q, <2>1, <2>4
  <2>7. Line' = Append(Line, t)
    <3>1. Line \in [1 .. n -> Active \cup {t}] /\ Line' \in [1 .. (n + 1) -> Active \cup {t}]
      BY <1>p, <1>q, <2>1, <2>2
    <3> QED
      BY <1>n, <2>5, <2>6, <3>1, AppendIs
  <2>8. \A k \in DOMAIN Line : Line[k] # t
    BY <1>p, <2>1
  <2> QED
    BY <2>1, <2>7, <2>8 DEF Abstract!Ask
\* ... the one at distance zero enters ...
<1>2. ASSUME NEW t \in Threads, Enter(t) PROVE Abstract!Grant
  <2>1. Active' = Active /\ Holding' = Holding \cup {t} /\ t \in Active /\ UNCHANGED <<ticket, id>>
    BY <1>2, <1>t DEF Enter, Active, Holding
  <2>2. Holding = {}
    BY <1>2, <2>1 DEF Enter, Window, Holding, Active
  <2>3. n' = n
    BY <2>1 DEF n
  <2>4. Line' = Line
    <3>1. Line \in [1 .. n -> Active] /\ Line' \in [1 .. n -> Active]
      BY <1>p, <1>q, <2>1, <2>3
    <3>2. ASSUME NEW k \in 1 .. n PROVE Line'[k] = Line[k]
      <4>1. Line[k] \in Active /\ Distance(Line[k]) + 1 = k
        BY <1>p, <1>n
      <4> QED
        BY <1>q, <2>1, <4>1 DEF Distance
    <3> QED
      BY <1>n, <3>1, <3>2, SameIs
  <2>5. Line # <<>>
    <3>1. n # 0
      BY <1>p, <2>1, <1>n
    <3> QED
      BY <1>n, <1>p, <3>1
  <2> QED
    BY <2>1, <2>2, <2>4, <2>5 DEF Abstract!Grant
\* ... and leaves everybody else one place nearer.
<1>3. ASSUME NEW t \in Threads, Release(t) PROVE Abstract!Leave
  <2>1. t \in Active /\ t \in Holding /\ Active' = Active \ {t} /\ UNCHANGED id
        /\ ticket' = Succ(ticket)
    BY <1>3, <1>t DEF Release, Active, Holding
  <2>2. n' = n - 1 /\ n >= 1
    BY <2>1, ActiveShrinks DEF n
  <2>3. Holding' = {}
    <3>1. \A s \in Holding : s = t
      BY <2>1, WindowExcludes DEF MutualExclusion
    <3>2. pc' = [pc EXCEPT ![t] = "idle"]
      BY <1>3 DEF Release
    <3> QED
      BY <1>t, <3>1, <3>2 DEF Holding
  <2>4. ASSUME NEW s \in Active \ {t}
        PROVE  Ahead(ticket', id'[s]) = Distance(s) - 1
    <3>1. id[s] # ticket /\ id[s] \in Words
      BY <1>s, <1>t, <2>1, <2>4 DEF Window, Holding
    <3> QED
      BY <1>t, <2>1, <3>1, WordAssumption DEF Distance, Ahead, Succ, Words
  <2>5. Distance(t) = 0
    BY <2>1, <1>s, <1>t, WordAssumption DEF Window, Distance, Ahead, Words
  <2>6. \A k \in 1 .. (n - 1) : Line'[k] = Line[k + 1]
    <3> SUFFICES ASSUME NEW k \in 1 .. (n - 1) PROVE Line'[k] = Line[k + 1]
      OBVIOUS
    <3>1. Line[k + 1] \in Active /\ Distance(Line[k + 1]) = k
      BY <1>p, <1>n
    <3>2. Line[k + 1] \in Active \ {t}
      BY <2>5, <3>1
    <3>3. Ahead(ticket', id'[Line[k + 1]]) + 1 = k
      BY <2>4, <3>1, <3>2
    <3> QED
      BY <1>q, <2>1, <3>2, <3>3
  <2>7. Line' = Tail(Line)
    <3>1. Line' \in [1 .. (n - 1) -> Active] /\ n \in Nat \ {0}
      BY <1>n, <1>q, <2>1, <2>2
    <3> QED
      BY <1>p, <2>6, <3>1, TailIs
  <2> QED
    BY <2>1, <2>3, <2>7 DEF Abstract!Leave
<1>4. CASE UNCHANGED vars
  <2>1. Active' = Active /\ Holding' = Holding /\ UNCHANGED <<ticket, id>>
    BY <1>4 DEF vars, Active, Holding
  <2>2. Line' = Line
    BY <2>1 DEF Line, Distance, Ahead
  <2> QED
    BY <2>1, <2>2 DEF Abstract!lock
<1> QED
  BY <1>1, <1>2, <1>3, <1>4 DEF Next, Abstract!Next

\* The two counters are a first-come first-served lock: every step of acquire
\* and of release is one of a line of threads, for any number of them.
THEOREM StepsOfFairLock == Spec => Abstract!Init /\ [][Abstract!Next]_(Abstract!lock)
<1>1. Init => Abstract!Init
  <2> SUFFICES ASSUME Init PROVE Abstract!Init
    OBVIOUS
  <2>1. Active = {} /\ Holding = {} /\ Cardinality(Active) = 0
    BY FS_EmptySet DEF Init, Active, Holding
  <2>2. Line = <<>>
    BY <2>1 DEF Line
  <2> QED
    BY <2>1, <2>2 DEF Abstract!Init
<1> QED
  BY <1>1, LineStep, TypeCorrect, WindowInvariant, PTL DEF Spec
=============================================================================
