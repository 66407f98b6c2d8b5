-------------------------------- MODULE Lines --------------------------------
(***************************************************************************)
(* What several proofs share.  Of the ticket locks: tickets that are       *)
(* distinct and lie within a window of their own number fill it, and a     *)
(* line that is given by its places grows at its end and shrinks at its    *)
(* head.  And induction over the naturals, stated of a set: a fact about a *)
(* recursive function is proved of the set of the numbers it holds for.    *)
(***************************************************************************)
EXTENDS Integers, Sequences, FiniteSetTheorems, SequenceTheorems, WellFoundedInduction, TLAPS

LEMMA Below == \A n \in Nat : IsFiniteSet(0 .. (n - 1)) /\ Cardinality(0 .. (n - 1)) = n
<1> SUFFICES ASSUME NEW n \in Nat
             PROVE  IsFiniteSet(0 .. (n - 1)) /\ Cardinality(0 .. (n - 1)) = n
  OBVIOUS
<1>1. /\ IsFiniteSet(0 .. (n - 1))
      /\ Cardinality(0 .. (n - 1)) = IF 0 > n - 1 THEN 0 ELSE (n - 1) - 0 + 1
  BY FS_Interval
<1> QED
  BY <1>1

\* There is a ticket at every distance.
LEMMA FillsWindow ==
  ASSUME NEW S, IsFiniteSet(S), NEW f \in [S -> Int],
         \A s \in S : 0 <= f[s] /\ f[s] < Cardinality(S),
         \A s, t \in S : f[s] = f[t] => s = t
  PROVE  \A k \in 0 .. (Cardinality(S) - 1) : \E s \in S : f[s] = k
<1> DEFINE n == Cardinality(S)
           T == 0 .. (n - 1)
<1>1. n \in Nat
  BY FS_CardinalityType
<1>2. IsFiniteSet(T) /\ Cardinality(T) = n
  BY <1>1, Below
<1>3. f \in Injection(S, T)
  <2>1. f \in [S -> T]
    BY <1>1
  <2> QED
    BY <2>1 DEF Injection, IsInjective
<1>4. f \in Surjection(S, T)
  BY <1>2, <1>3, FS_Injection
<1> QED
  BY <1>4 DEF Surjection

\* The ticket at distance d has d tickets before it.
LEMMA Ranks ==
  ASSUME NEW S, IsFiniteSet(S), NEW f \in [S -> Int],
         \A s \in S : 0 <= f[s] /\ f[s] < Cardinality(S),
         \A s, t \in S : f[s] = f[t] => s = t
  PROVE  \A t \in S : Cardinality({s \in S : f[s] < f[t]}) = f[t]
<1> SUFFICES ASSUME NEW t \in S PROVE Cardinality({s \in S : f[s] < f[t]}) = f[t]
  OBVIOUS
<1> DEFINE B == {s \in S : f[s] < f[t]}
           T == 0 .. (f[t] - 1)
           h == [s \in B |-> f[s]]
<1>1. f[t] \in Nat /\ f[t] < Cardinality(S) /\ Cardinality(S) \in Nat
  BY FS_CardinalityType
<1>2. IsFiniteSet(T) /\ Cardinality(T) = f[t]
  BY <1>1, Below
<1>3. \A k \in T : \E s \in B : f[s] = k
  <2>1. \A k \in 0 .. (Cardinality(S) - 1) : \E s \in S : f[s] = k
    BY FillsWindow
  <2> QED
    BY <1>1, <2>1
<1>4. h \in [B -> T] /\ \A s, r \in B : h[s] = h[r] => s = r
  BY <1>1
<1>5. h \in Bijection(B, T)
  BY <1>3, <1>4 DEF Bijection, Injection, Surjection, IsInjective
<1>6. IsFiniteSet(B)
  BY FS_Subset
<1>7. Cardinality(T) = Cardinality(B)
  BY <1>5, <1>6, FS_Bijection DEF ExistsBijection
<1> QED
  BY <1>2, <1>7

\* A sequence that agrees with another but for one more place is the other
\* with something appended; one that has everything one place nearer is its
\* tail.
LEMMA SameIs ==
  ASSUME NEW X, NEW n \in Nat, NEW s \in [1 .. n -> X], NEW r \in [1 .. n -> X],
         \A k \in 1 .. n : r[k] = s[k]
  PROVE  r = s
<1>1. s \in Seq(X) /\ Len(s) = n /\ r \in Seq(X) /\ Len(r) = n
  OBVIOUS
<1> QED
  BY <1>1, SeqEqual

LEMMA AppendIs ==
  ASSUME NEW X, NEW n \in Nat, NEW s \in [1 .. n -> X], NEW e \in X,
         NEW r \in [1 .. (n + 1) -> X], \A k \in 1 .. n : r[k] = s[k], r[n + 1] = e
  PROVE  r = Append(s, e)
<1>1. s \in Seq(X) /\ Len(s) = n /\ r \in Seq(X) /\ Len(r) = n + 1
  OBVIOUS
<1>2. Append(s, e) \in Seq(X) /\ Len(Append(s, e)) = n + 1
  BY <1>1
<1>3. \A k \in 1 .. (n + 1) : Append(s, e)[k] = r[k]
  BY <1>1
<1> QED
  BY <1>1, <1>2, <1>3, SeqEqual

LEMMA TailIs ==
  ASSUME NEW X, NEW n \in Nat \ {0}, NEW s \in [1 .. n -> X],
         NEW r \in [1 .. (n - 1) -> X], \A k \in 1 .. (n - 1) : r[k] = s[k + 1]
  PROVE  s # <<>> /\ Head(s) = s[1] /\ r = Tail(s)
<1>1. s \in Seq(X) /\ Len(s) = n /\ r \in Seq(X) /\ Len(r) = n - 1
  OBVIOUS
<1>2. s # <<>> /\ Tail(s) \in Seq(X) /\ Len(Tail(s)) = n - 1
  BY <1>1
<1>3. \A k \in 1 .. (n - 1) : Tail(s)[k] = r[k]
  BY <1>1
<1> QED
  BY <1>1, <1>2, <1>3, SeqEqual

\* A set of numbers that is not empty has a least one.
LEMMA NatMin ==
  ASSUME NEW T \in SUBSET Nat, T # {}
  PROVE  \E n \in T : \A m \in T : n <= m
<1> DEFINE R == OpToRel(<, Nat)
<1>1. IsWellFoundedOn(R, Nat)
  BY NatLessThanWellFounded
<1>2. \A m, n \in Nat : m < n => <<m, n>> \in R
  BY DEF OpToRel
<1> HIDE DEF R
<1>3. PICK n \in T : \A m \in T : ~(<<m, n>> \in R)
  BY <1>1, WFMin
<1>4. \A m \in T : m \in Nat /\ n \in Nat /\ ~(m < n)
  BY <1>2, <1>3
<1> QED
  BY <1>4

LEMMA NatInd ==
  ASSUME NEW S, 0 \in S, \A n \in Nat : n \in S => n + 1 \in S
  PROVE  Nat \subseteq S
<1> SUFFICES ASSUME ~(Nat \subseteq S) PROVE FALSE
  OBVIOUS
<1> DEFINE T == Nat \ S
<1>1. T \in SUBSET Nat /\ T # {}
  OBVIOUS
<1>2. PICK n \in T : \A m \in T : n <= m
  BY <1>1, NatMin
<1>3. n # 0 /\ n \in Nat /\ n \notin S
  OBVIOUS
<1>4. n - 1 \in Nat /\ (n - 1) + 1 = n /\ ~(n <= n - 1)
  BY <1>3
<1>5. n - 1 \in S
  BY <1>2, <1>4
<1> QED
  BY <1>3, <1>4, <1>5
=============================================================================
