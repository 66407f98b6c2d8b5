---------------------------- MODULE MCFunctionCalls ----------------------------
\* Three programs, for TLC:
\*
\*   nested:  x = 1; def outer(y) { def inner() { ... x ... y ... } ... y = 2 ... }
\*   twice:   x = 1; def outer(y) ...; def other() { ... x ... }
\*   args:    def three(a, b, c = 7) { ... }; def rest(a, *r, **k) { ... }
\*
\* The module does the rest in any order, more than once.
EXTENDS FunctionCalls

Code(args, defaults, vargs, kwargs, locals, named, inner, consts) ==
  [args |-> args, defaults |-> defaults, vargs |-> vargs, kwargs |-> kwargs,
   locals |-> locals \cup Range(args) \cup ({vargs, kwargs} \ {""}),
   named |-> named, inner |-> inner, consts |-> consts]

MCText == [nested |-> Code(<<>>, <<>>, "", "", {"x"}, {}, {"outer"}, {1}),
           twice  |-> Code(<<>>, <<>>, "", "", {"x"}, {}, {"other"}, {1}),
           args   |-> Code(<<>>, <<>>, "", "", {}, {}, {"three", "rest"}, {}),
           outer  |-> Code(<<"y">>, <<>>, "", "", {}, {}, {"inner"}, {2}),
           inner  |-> Code(<<>>, <<>>, "", "", {}, {"x", "y"}, {}, {}),
           other  |-> Code(<<>>, <<>>, "", "", {}, {"x"}, {}, {}),
           three  |-> Code(<<"a", "b", "c">>, <<Number(7)>>, "", "", {}, {}, {}, {}),
           rest   |-> Code(<<"a">>, <<>>, "r", "k", {}, {}, {}, {})]

Call(args, named) == [args |-> args, named |-> named]
NoNames == [n \in {} |-> Null]

\* Every way to pass up to four positional arguments, and keywords.
Calls(names) ==
  {Call([i \in 1 .. n |-> Number(i)], [m \in set |-> Number(9)]) :
     n \in 0 .. 4, set \in SUBSET names}

MCArguments == [nested |-> {}, twice |-> {}, args |-> {}, inner |-> {Call(<<>>, NoNames)},
                outer |-> {Call(<<Number(3)>>, NoNames)},
                other |-> {Call(<<>>, NoNames)},
                three |-> Calls({"a", "c", "z"}), rest |-> Calls({"a", "r", "z"})]

MCTextsAll == DOMAIN MCText
MCMains    == {"nested", "twice", "args"}
MCBudget   == [nested |-> 11, twice |-> 10, args |-> 4]
=============================================================================
