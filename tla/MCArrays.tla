------------------------------ MODULE MCArrays ------------------------------
(* Two arrays.  One thread makes one call of EachSlice, which goes through    *)
(* all boundaries and steps, while nobody else is there; or a thread makes    *)
(* one call next to a call of another that changes the same arrays.           *)
EXTENDS Arrays

CONSTANTS alone, main, peer, xs, ys

MCItems == 1 .. 5

MCBeginnings == {[x \in {xs, ys} |-> IF x = xs THEN s ELSE r] :
                   s \in {<<>>, <<1>>, <<1, 2>>, <<1, 2, 3>>}, r \in {<<3>>, <<1, 3>>}}

Slice(op, begin, end, step) ==
  [op |-> op, array |-> xs, begin |-> begin, end |-> end, step |-> step, from |-> ""]
Assign(slice, values) == [slice EXCEPT !.from = "list"] @@ [values |-> values]
Copied(slice, from) == [slice EXCEPT !.from = "array"] @@ [source |-> from]
AtIndex(op, x, i) == [op |-> op, array |-> x, index |-> i]
Put(x, i, v) == AtIndex("setItem", x, i) @@ [value |-> v]
With(op, x, y) == [op |-> op, array |-> x, source |-> y]
Times(op, n) == [op |-> op, array |-> xs, count |-> n]
Of(op, x, v) == [op |-> op, array |-> x, value |-> v]

Boundary == {Absent, 1, -1, -3}
MCStep == {Absent, HugeUp, HugeDown, 0, 1, -1, 2, -2}
EachSlice == UNION {
  {Slice("getSlice", i, j, k), Slice("delSlice", i, j, k),
   Assign(Slice("setSlice", i, j, k), <<>>), Assign(Slice("setSlice", i, j, k), <<4, 5>>),
   Copied(Slice("setSlice", i, j, k), xs), Copied(Slice("setSlice", i, j, k), ys)} :
      i \in Boundary, j \in Boundary, k \in MCStep}
  \cup {AtIndex(op, xs, i) : op \in {"getItem", "delItem"}, i \in -4 .. 3}
  \cup {Put(xs, i, 4) : i \in -4 .. 3}
  \cup {Times(op, n) : op \in {"repeat", "repeatCopy"}, n \in 0 .. 4}
  \cup {With(op, xs, y) : op \in {"concat", "concatCopy", "compare"}, y \in {xs, ys}}
  \cup {Of("append", xs, 4), Of("contains", xs, 3), [op |-> "for", array |-> xs]}

Together == {AtIndex("getItem", xs, -1), Put(xs, 1, 4), AtIndex("delItem", xs, -1),
             Slice("getSlice", Absent, Absent, 2), Slice("delSlice", 0, -1, -1),
             Slice("delSlice", -1, Absent, -2),
             Assign(Slice("setSlice", 0, -1, 1), <<4, 5>>), Copied(Slice("setSlice", Absent, Absent, 1), ys),
             With("concat", xs, ys), With("concat", xs, xs), With("concatCopy", xs, ys),
             With("compare", xs, ys), Of("contains", xs, 3), Times("repeat", 2), [op |-> "for", array |-> xs]}

Meanwhile == {Of("append", xs, 5), AtIndex("delItem", xs, 0), Put(xs, 0, 5), AtIndex("delItem", ys, -1),
              With("concat", ys, xs), Slice("delSlice", Absent, Absent, Absent),
              Of("append", ys, 5), Times("repeat", 0)}

Calls == (alone :> EachSlice) @@ (main :> Together) @@ (peer :> Meanwhile)

MCCallsOf == Calls

MCBudgets == {(alone :> 1) @@ (main :> 0) @@ (peer :> 0),
              (alone :> 0) @@ (main :> 1) @@ (peer :> 1)}
=============================================================================
