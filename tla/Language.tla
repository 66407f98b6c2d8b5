------------------------------ MODULE Language -------------------------------
(***************************************************************************)
(* What a function body means, by structural recursion over its syntax     *)
(* tree: the reference that the code generator and the interpreter         *)
(* together are compared with.  It follows the comments of the interpreter *)
(* where they settle a question: returning in a finally section overrides  *)
(* an exception or an earlier return (Interpreter.cpp:567-577), and an     *)
(* exception keeps those it was raised after as its parents.               *)
(*                                                                         *)
(* A run is a record: out, how the statement ended; env, the local         *)
(* variables; trace, the calls made.  What the calls return is given.      *)
(***************************************************************************)
EXTENDS Integers, Sequences, SequencesExt, TLC

Normal    == [kind |-> "normal",   chain |-> <<>>, v |-> [k |-> "none", v |-> 0, chain |-> <<>>]]
Breaks    == [Normal EXCEPT !.kind = "break"]
Continues == [Normal EXCEPT !.kind = "continue"]
Returns(value) == [Normal EXCEPT !.kind = "return", !.v = value]
Raises(chain)  == [Normal EXCEPT !.kind = "raise", !.chain = chain]

Number(n)     == [k |-> "val", v |-> n, chain |-> <<>>]
Object(chain) == [k |-> "exc", v |-> 0, chain |-> chain]
Sequence(items) == [k |-> "seq", v |-> 0, chain |-> items]     \* a tuple or an array
Truth(p)      == Number(IF p THEN 1 ELSE 0)
Holds(value)  == CASE value.k = "val" -> value.v # 0
                   [] value.k = "seq" -> value.chain # <<>>
                   [] value.k = "exc" -> TRUE

\* What comes out of a value when it is iterated, or unpacked.
Elements(value) == IF value.k = "seq" THEN value.chain
                   ELSE [i \in 1 .. value.v |-> Number(value.v - i)]

Ends(r)       == r.out.kind # "normal"
With(r, out)  == [r EXCEPT !.out = out]
Gives(r, value) == [r EXCEPT !.out = [Normal EXCEPT !.v = value]]
Value(r)      == r.out.v

-----------------------------------------------------------------------------
\* Evaluating an expression: the run, whose out.v is the value unless it ends.
RECURSIVE Eval(_, _, _), EvalBool(_, _, _, _), EvalChain(_, _, _, _), EvalItems(_, _, _, _)

EvalCall(x, r, results) ==
  LET n == Len(r.trace) + 1
      v == IF n \in DOMAIN results THEN results[n].v ELSE 0
      q == [r EXCEPT !.trace = Append(@, [id |-> x.id, v |-> v])]
  IN  IF v = -1 THEN With(q, Raises(<<"B">>)) ELSE Gives(q, Number(v))

\* The operands from i on; r holds the value of those before.
EvalBool(x, i, r, results) ==
  IF i > Len(x.args) \/ (Holds(Value(r)) <=> x.e = "or") THEN r
  ELSE LET q == Eval(x.args[i], r, results)
       IN  IF Ends(q) THEN q ELSE EvalBool(x, i + 1, Gives(q, Truth(Holds(Value(q)))), results)

Compare(a, op, b) == CASE op = "<"  -> a < b
                       [] op = "<=" -> a <= b
                       [] op = ">"  -> a > b
                       [] op = ">=" -> a >= b
                       [] op = "==" -> a = b
                       [] op = "!=" -> a # b

\* A comparison of values, which is of numbers but for the containers.
Related(x, op, y) ==
  IF op \in {"in", "not in"} THEN (op = "in") <=> \E i \in DOMAIN Elements(y) : Elements(y)[i] = x
                             ELSE Compare(x.v, op, y.v)

Calculate(a, op, b) == CASE op = "+" -> a + b [] op = "-" -> a - b [] op = "*" -> a * b

\* The comparisons from i on; r holds the value of the operand to their left.
EvalChain(x, i, r, results) ==
  LET q  == Eval(x.args[i + 1], r, results)
      ok == Related(Value(r), x.ops[i], Value(q))
  IN  IF Ends(q) THEN q
      ELSE IF ok /\ i < Len(x.ops) THEN EvalChain(x, i + 1, q, results)
      ELSE Gives(q, Truth(ok))

\* The operands of x from i on, in order; done holds what those before give: a
\* sequence, or the number so far.
EvalItems(x, i, r, results) ==
  LET list == IF x.e = "arith" THEN x.args ELSE x.items
      q    == Eval(list[i], With(r, Normal), results)
      done == IF x.e # "arith" THEN Sequence(Append(Value(r).chain, Value(q)))
              ELSE IF i = 1 THEN Value(q)
              ELSE Number(Calculate(Value(r).v, x.ops[i - 1], Value(q).v))
  IN  IF i > Len(list) THEN r
      ELSE IF Ends(q) THEN q
      ELSE EvalItems(x, i + 1, Gives(q, done), results)

Applied(op, value) == CASE op = "not" -> Truth(~Holds(value))
                        [] op = "-"   -> Number(-value.v)
                        [] op = "+"   -> value

Eval(x, r, results) ==
  CASE x.e = "call"  -> EvalCall(x, r, results)
    [] x.e = "const" -> Gives(r, Number(x.v))
    [] x.e = "new"   -> Gives(r, Object(<<x.id>>))
    [] x.e \in {"tuple", "array", "arith"} -> EvalItems(x, 1, Gives(r, Sequence(<<>>)), results)
    [] x.e = "unary" -> LET q == Eval(x.arg, r, results)
                        IN  IF Ends(q) THEN q ELSE Gives(q, Applied(x.op, Value(q)))
    [] x.e = "name"  -> IF r.env[x.id].k = "none" THEN With(r, Raises(<<"NameError">>))
                                                  ELSE Gives(r, r.env[x.id])
    [] x.e \in {"or", "and", "cmp"} ->
         LET first == Eval(x.args[1], r, results)
         IN  IF Ends(first) THEN first
             ELSE IF x.e = "cmp" THEN EvalChain(x, 1, first, results)
             ELSE EvalBool(x, 2, first, results)

-----------------------------------------------------------------------------
\* Assignment of a value to a target: the items of a sequence go to its targets
\* from left to right, if there are as many; those before one that fails have
\* been assigned.
RECURSIVE Assign(_, _, _), AssignAll(_, _, _)

Assign(t, value, r) ==
  IF t.t = "name" THEN [r EXCEPT !.env[t.name] = value]
  ELSE IF Len(Elements(value)) # Len(t.items) THEN With(r, Raises(<<"ValueError">>))
  ELSE AssignAll(t.items, Elements(value), r)

AssignAll(targets, values, r) ==
  IF targets = <<>> \/ Ends(r) THEN r
  ELSE AssignAll(Tail(targets), Tail(values), Assign(targets[1], values[1], r))

\* The same value goes to every target, to the last one first.
Assignment(s, r, results) ==
  LET value == Eval(s.expr, r, results)
      to    == Reverse(s.targets)
  IN  IF Ends(value) THEN value
      ELSE AssignAll(to, [i \in DOMAIN to |-> Value(value)], With(value, Normal))

\* The variable is read before the expression.
Increment(s, r, results) ==
  LET old == Eval([e |-> "name", id |-> s.name], r, results)
      by  == Eval(s.expr, With(old, Normal), results)
      op  == CASE s.op = "+=" -> "+" [] s.op = "-=" -> "-" [] s.op = "*=" -> "*"
  IN  IF Ends(old) THEN old
      ELSE IF Ends(by) THEN by
      ELSE [With(by, Normal) EXCEPT !.env[s.name] = Number(Calculate(Value(old).v, op, Value(by).v))]

Unbound == [k |-> "none", v |-> 0, chain |-> <<>>]

Delete(s, r) == IF r.env[s.name].k = "none" THEN With(r, Raises(<<"NameError">>))
                                           ELSE [r EXCEPT !.env[s.name] = Unbound]

RECURSIVE Exec(_, _, _), ExecList(_, _, _), Loop(_, _, _), Iterate(_, _, _, _)

Optional(part, r, results) == IF part = <<>> THEN r ELSE Exec(part[1], r, results)

ExecList(list, r, results) ==
  IF list = <<>> \/ Ends(r) THEN r ELSE ExecList(Tail(list), Exec(list[1], r, results), results)

Leaves(r)    == r.out.kind \in {"break", "return", "raise"}
AfterLoop(r) == IF r.out.kind = "break" THEN With(r, Normal) ELSE r

Loop(s, r, results) ==
  LET cond == Eval(s.expr, r, results)
      body == Exec(s.body, With(cond, Normal), results)
  IN  IF Ends(cond) THEN cond
      ELSE IF ~Holds(Value(cond)) THEN Optional(s.branch, With(cond, Normal), results)
      ELSE IF Leaves(body) THEN AfterLoop(body)
      ELSE Loop(s, With(body, Normal), results)

\* A for loop with a list of items left.
Iterate(s, list, r, results) ==
  LET bound == Assign(s.target, list[1], With(r, Normal))
      body  == Exec(s.body, bound, results)
  IN  IF list = <<>> THEN Optional(s.branch, With(r, Normal), results)
      ELSE IF Ends(bound) THEN bound
      ELSE IF Leaves(body) THEN AfterLoop(body)
      ELSE Iterate(s, Tail(list), With(body, Normal), results)

For(s, r, results) ==
  LET iter == Eval(s.expr, r, results)
  IN  IF Ends(iter) THEN iter ELSE Iterate(s, Elements(Value(iter)), iter, results)

\* The sections from the first case with the value on, or else the default one.
Switch(s, r, results) ==
  LET value == Eval(s.expr, r, results)
      hits  == {i \in 1 .. Len(s.cases) : s.cases[i].value = Value(value).v}
      first == IF hits = {} THEN Len(s.cases) + 1 ELSE CHOOSE i \in hits : \A j \in hits : i <= j
      parts == SubSeq([i \in 1 .. Len(s.cases) |-> s.cases[i].body] \o <<s.def>>,
                      first, Len(s.cases) + 1)
  IN  IF Ends(value) THEN value
      ELSE AfterLoop(ExecList(FlattenSeq(parts), With(value, Normal), results))

\* The except section for an exception, if any.  What is raised in it was
\* raised after the exception it handles.
Handle(s, r, results) ==
  LET fits  == {i \in 1 .. Len(s.excepts) : s.excepts[i].type \in {r.out.chain[1], "BaseException"}}
      h     == s.excepts[CHOOSE i \in fits : \A j \in fits : i <= j]
      bound == IF h.alias = "" THEN r ELSE [r EXCEPT !.env[h.alias] = Object(r.out.chain)]
      done  == Exec(h.body, With(bound, Normal), results)
  IN  IF fits = {} THEN r
      ELSE IF done.out.kind = "raise" THEN With(done, Raises(done.out.chain \o r.out.chain))
      ELSE done

Try(s, r, results) ==
  LET body  == Exec(s.body, r, results)
      tried == IF body.out.kind = "raise" THEN Handle(s, body, results) ELSE body
      last  == Optional(s.finally, With(tried, Normal), results)
      cause == IF tried.out.kind = "raise" THEN tried.out.chain ELSE body.out.chain
  IN  IF last.out.kind = "normal" THEN With(last, tried.out)
      ELSE IF last.out.kind = "raise" THEN With(last, Raises(last.out.chain \o cause))
      ELSE last

Exec(s, r, results) ==
  LET value == Eval(s.expr, r, results)
  IN  CASE s.kind = "block"    -> ExecList(s.list, r, results)
        [] s.kind = "expr"     -> IF Ends(value) THEN value ELSE With(value, Normal)
        [] s.kind = "if"       -> IF Ends(value) THEN value
                                  ELSE IF Holds(Value(value)) THEN Exec(s.body, With(value, Normal), results)
                                  ELSE Optional(s.branch, With(value, Normal), results)
        [] s.kind = "while"    -> Loop(s, r, results)
        [] s.kind = "for"      -> For(s, r, results)
        [] s.kind = "switch"   -> Switch(s, r, results)
        [] s.kind = "try"      -> Try(s, r, results)
        [] s.kind = "assign"   -> Assignment(s, r, results)
        [] s.kind = "inc"      -> Increment(s, r, results)
        [] s.kind = "delete"   -> Delete(s, r)
        [] s.kind = "break"    -> With(r, Breaks)
        [] s.kind = "continue" -> With(r, Continues)
        [] s.kind = "return"   -> IF Ends(value) THEN value ELSE With(value, Returns(Value(value)))
        [] s.kind = "raise"    -> IF Ends(value) THEN value
                                  ELSE IF Value(value).k = "exc" THEN With(value, Raises(Value(value).chain))
                                  ELSE With(value, Raises(<<"TypeError">>))

\* The run of a function body whose calls return the given results.
Meaning(s, names, results) ==
  LET start == [out |-> Normal, trace |-> <<>>,
                env |-> [n \in names |-> Unbound]]
      r     == Exec(s, start, results)
  IN  IF r.out.kind = "normal" THEN With(r, Returns(Number(0))) ELSE r
=============================================================================
