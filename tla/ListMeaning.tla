---------------------------- MODULE ListMeaning ----------------------------
(***************************************************************************)
(* What the operations of an array mean when nobody else touches it: the   *)
(* language's lists, said with sets of positions and with no cursor, no    *)
(* lock and no machine word.  Indices count from 0, or from the back when  *)
(* they are negative; the end of a slice belongs to it.                    *)
(***************************************************************************)
EXTENDS Integers, FiniteSets, SequencesExt

CONSTANTS Absent,            \* a slice boundary or step that the program leaves out
          HugeUp, HugeDown   \* slice steps that do not fit into a machine word

HugeSteps == {HugeUp, HugeDown}

ASSUME BoundaryAssumption == /\ Absent \notin Int /\ HugeUp \notin Int /\ HugeDown \notin Int
                             /\ Absent \notin HugeSteps /\ HugeUp # HugeDown

HasIndex(n, i) == -n <= i /\ i < n

PositionOf(n, i) == IF i >= 0 THEN i + 1 ELSE n + i + 1

\* In a list of n items, a step beyond all bounds leads from any position to none.
StepOf(n, c) == IF c.step = Absent THEN 1
                ELSE IF c.step = HugeUp THEN n + 1
                ELSE IF c.step = HugeDown THEN -(n + 1) ELSE c.step

\* The positions that a[begin:end:step] names, in the order of the slice.
First(n, c) == IF c.begin # Absent THEN PositionOf(n, c.begin)
               ELSE IF StepOf(n, c) > 0 THEN 1 ELSE n

Final(n, c) == IF c.end # Absent THEN PositionOf(n, c.end)
               ELSE IF StepOf(n, c) > 0 THEN n ELSE 1

\* The numbers of a finite set from the least to the greatest: the k-th has
\* k - 1 of them below it.
Ascending(S) ==
  [k \in 1 .. Cardinality(S) |-> CHOOSE p \in S : Cardinality({q \in S : q < p}) = k - 1]

Upwards(first, final, step)   == {p \in first .. final : (p - first) % step = 0}
Downwards(first, final, step) == {p \in final .. first : (first - p) % step = 0}

Chosen(n, c) ==
  LET first == First(n, c)
      final == Final(n, c)
      step  == StepOf(n, c)
  IN  IF n = 0 THEN <<>>
      ELSE IF step > 0 THEN Ascending(Upwards(first, final, step))
      ELSE Reverse(Ascending(Downwards(first, final, -step)))

\* The slice of an empty list is empty whatever its boundaries are.
BadSlice(n, c) == \/ n > 0 /\ c.step = 0
                  \/ n > 0 /\ \E i \in {c.begin, c.end} \ {Absent} : ~HasIndex(n, i)

Pick(s, positions) == [k \in DOMAIN positions |-> s[positions[k]]]

Without(s, positions) == Pick(s, Ascending(DOMAIN s \ Range(positions)))

\* Values put where the positions are: one for one, or, when the positions are
\* next to each other, as many as there are.
Placed(s, positions, values, up) ==
  IF Len(values) = Len(positions)
  THEN [p \in DOMAIN s |-> IF p \in Range(positions)
                           THEN values[CHOOSE k \in DOMAIN positions : positions[k] = p]
                           ELSE s[p]]
  ELSE LET low == Min(Range(positions))
       IN  SubSeq(s, 1, low - 1) \o (IF up THEN values ELSE Reverse(values))
             \o SubSeq(s, low + Len(positions), Len(s))

Repeated(s, count) == [p \in 1 .. count * Len(s) |-> s[((p - 1) % Len(s)) + 1]]

\* -1, 0 or 1: the order of two lists is that of their first difference.
Sign(x) == IF x = 0 THEN 0 ELSE IF x > 0 THEN 1 ELSE -1

Order(s, r) ==
  LET differ == {p \in DOMAIN s \cap DOMAIN r : s[p] # r[p]}
  IN  IF differ = {} THEN Sign(Len(s) - Len(r)) ELSE Sign(s[Min(differ)] - r[Min(differ)])
=============================================================================
