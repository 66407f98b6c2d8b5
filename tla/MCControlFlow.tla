---------------------------- MODULE MCControlFlow ----------------------------
(***************************************************************************)
(* The programs ControlFlow is checked with: every statement of a small    *)
(* grammar, nested twice, that Supported admits, and the text of each.     *)
(* Supported leaves out what the parser rejects and the nestings for which *)
(* the code does not do what the program says; each of its conjuncts names *)
(* one of those.                                                           *)
(***************************************************************************)
EXTENDS ControlFlow, FiniteSets

\* Expressions: c and d do not throw, t may.
Of(id)        == [e |-> "call", id |-> id]
Name(id)      == [e |-> "name", id |-> id]
Both(l, x, y) == [e |-> l, args |-> <<x, y>>]
Const(n)      == [e |-> "const", v |-> n]
Tuple(items)  == [e |-> "tuple", items |-> items]
Array(items)  == [e |-> "array", items |-> items]
Signed(op, x)   == [e |-> "unary", op |-> op, arg |-> x]
Arith(x, op, y)  == [e |-> "arith", args |-> <<x, y>>, ops |-> <<op>>]
Test(x, op, y) == [e |-> "cmp", args |-> <<x, y>>, ops |-> <<op>>]
Between(x, y, z) == [e |-> "cmp", args |-> <<x, y, z>>, ops |-> <<"<", "<=">>]

Do(id)        == [kind |-> "expr", expr |-> Of(id)]
Ret(x)        == [kind |-> "return", expr |-> x]
RaiseNew(id)  == [kind |-> "raise", expr |-> [e |-> "new", id |-> id]]
RaiseName(id) == [kind |-> "raise", expr |-> Name(id)]
Into(name)    == [t |-> "name", name |-> name]
Unpacking(ts) == [t |-> "unpack", items |-> ts]
X == Into("x")
Y == Into("y")
Set(targets, x)  == [kind |-> "assign", targets |-> targets, expr |-> x]
Inc(name, op, x) == [kind |-> "inc", name |-> name, op |-> op, expr |-> x]
Del(name)    == [kind |-> "delete", name |-> name]
Break         == [kind |-> "break"]
Continue      == [kind |-> "continue"]
List(l)       == [kind |-> "block", list |-> l]

If(x, s, branch)    == [kind |-> "if", expr |-> x, body |-> s, branch |-> branch]
While(x, s, branch) == [kind |-> "while", expr |-> x, body |-> s, branch |-> branch]
Over(t, x, s, branch) == [kind |-> "for", target |-> t, expr |-> x, body |-> s, branch |-> branch]
Each(x, s, branch)  == Over(X, x, s, branch)
Cases(x, s, def)    == [kind |-> "switch", expr |-> x, def |-> def,
                        cases |-> <<[value |-> 1, body |-> <<>>],
                                    [value |-> 2, body |-> <<s>>], [value |-> 0, body |-> <<Do("k")>>]>>]
Attempt(s, excepts, finally) ==
  [kind |-> "try", body |-> s, excepts |-> excepts, finally |-> finally]
Except(type, alias, s) == [type |-> type, alias |-> alias, body |-> s]

-----------------------------------------------------------------------------
\* Lists of statements, so that the programs are numbered.
Simple == <<Do("t"), Ret(Of("r")), RaiseNew("A"), Break, Continue>>
Guarded == [i \in DOMAIN Simple |-> List(<<If(Of("c"), Simple[i], <<>>), Do("b")>>)]

Handlers == <<<<Except("A", "e", Do("h"))>>,
              <<Except("A", "", RaiseNew("B")), Except("BaseException", "e", Ret(Of("r")))>>>>

Containers(s) ==
  <<While(Of("c"), s, <<>>), While(Of("c"), s, <<Do("l")>>),
    Each(Of("n"), s, <<>>), Each(Of("n"), s, <<Do("l")>>),
    Cases(Of("c"), s, <<>>), Cases(Of("c"), s, <<Do("m")>>),
    Attempt(s, <<>>, <<Do("f")>>), Attempt(s, <<>>, <<Ret(Of("r"))>>),
    Attempt(s, Handlers[1], <<Do("f")>>), Attempt(s, Handlers[2], <<Do("f")>>)>>

Ways(s) == <<List(<<s, If(Of("c"), Break, <<>>)>>), List(<<s, If(Of("c"), Ret(Name("x")), <<>>)>>)>>

\* The n-th of what F makes k of for every statement of a list.
Spread(list, k, F(_)) ==
  [n \in 1 .. k * Len(list) |-> F(list[((n - 1) \div k) + 1])[((n - 1) % k) + 1]]

Around(list) == Spread(list, 10, Containers)
Left(list)   == Spread(list, 2, Ways)

Once  == Around(Simple \o Guarded)
Twice == Around(Once \o Left(Once))

Conditions == <<Both("or", Of("t"), Of("d")), Both("and", Of("c"), Of("t")),
                Between(Of("c"), Of("t"), Of("d")),
                Both("or", Between(Of("c"), Of("d"), Of("c")), Of("d")),
                Both("and", Both("or", Of("c"), Of("d")), Both("or", Of("t"), Of("d")))>>

Conclude == [kind |-> "expr", expr |-> Last(Conditions)]

Conditional == FlattenSeq([i \in DOMAIN Conditions |->
                 <<If(Conditions[i], Do("a"), <<Do("b")>>),
                   While(Conditions[i], Do("b"), <<Do("l")>>)>>])

Special == <<List(<<Attempt(RaiseNew("A"), <<Except("BaseException", "e", Do("h"))>>, <<>>), RaiseName("e")>>),
             List(<<Each(Of("n"), Do("b"), <<>>), RaiseName("x")>>),
             \* on a line of its own, the second one is no call of what the first one gives
             List(<<Do("t"), Conclude>>), List(<<Do("t"), Conclude>>)>>

\* A finally section that raises, after an exception that was caught or not, and
\* a loop left by an exception again and again.
Failing == <<Attempt(RaiseNew("A"), <<>>, <<RaiseNew("C")>>),
             Attempt(RaiseNew("A"), Handlers[1], <<RaiseNew("C")>>),
             Attempt(RaiseNew("A"), Handlers[2], <<RaiseNew("C")>>)>>

Thrice == Around(<<Attempt(Each(Of("n"), RaiseNew("A"), <<>>), Handlers[1], <<Do("f")>>)>>)

\* Assignments, after which both variables are returned.  They fail in the value,
\* in a target, or between two targets.
Pair  == Tuple(<<Name("x"), Name("y")>>)
Zero  == Set(<<X, Y>>, Const(0))
Assigning ==
  <<Set(<<X, Y>>, Of("t")),
    Set(<<Unpacking(<<X, Y>>)>>, Tuple(<<Of("c"), Of("t")>>)),
    Set(<<Unpacking(<<X, Y>>)>>, Tuple(<<Name("y"), Arith(Name("x"), "+", Const(1))>>)),
    Set(<<Unpacking(<<X, Y>>), Into("e")>>, Array(<<Of("c"), Of("d")>>)),
    Set(<<X, Unpacking(<<Y, X>>)>>, Of("t")),
    Set(<<Unpacking(<<Into("e"), X>>), Y>>, Of("t")),
    Set(<<Unpacking(<<X, Unpacking(<<Y, Into("e")>>)>>)>>, Tuple(<<Of("c"), Array(<<Of("d"), Of("t")>>)>>)),
    Set(<<Unpacking(<<X, Unpacking(<<Y, Into("e")>>)>>)>>, Array(<<Const(1), Of("c")>>)),
    Set(<<Unpacking(<<Unpacking(<<X>>), Y>>)>>, Tuple(<<Array(<<Const(1)>>), Of("t")>>)),
    Set(<<Unpacking(<<X, Y>>)>>, Of("t")),
    Set(<<X, Y>>, Tuple(<<>>)),
    Inc("x", "+=", Of("t")),
    List(<<Inc("x", "-=", Of("c")), Inc("y", "+=", Arith(Of("t"), "*", Const(2)))>>),
    List(<<Inc("x", "+=", Const(2)), Inc("x", "*=", Signed("-", Of("t")))>>),
    List(<<Del("x"), Set(<<Y>>, Of("t")), Set(<<Y>>, Name("x"))>>),
    List(<<Del("y"), Inc("y", "+=", Of("c"))>>),
    List(<<Del("x"), Del("x")>>),
    Over(Unpacking(<<X, Y>>), Array(<<Tuple(<<Of("c"), Const(1)>>), Of("t"), Of("d")>>), Do("b"), <<Do("l")>>),
    Over(Y, Array(<<Of("c"), Of("d")>>), Inc("x", "+=", Arith(Name("y"), "*", Const(2))), <<>>),
    While(Test(Name("x"), "<", Const(2)), List(<<Inc("x", "+=", Const(1)), Set(<<Y>>, Of("t"))>>), <<>>)>>

\* After a failure, what has been assigned is seen by whoever handles it.
Checked == FlattenSeq([i \in DOMAIN Assigning |->
             <<List(<<Zero, Attempt(Assigning[i], <<Except("BaseException", "", Do("h"))>>, <<>>), Ret(Pair)>>),
               List(<<Zero, Attempt(Assigning[i], <<>>, <<Ret(Pair)>>)>>),
               List(<<Zero, Assigning[i], Ret(Pair)>>)>>])

Operations ==
  <<Arith(Arith(Of("c"), "-", Of("d")), "+", Arith(Const(2), "*", Of("t"))),
    Arith(Arith(Of("c"), "+", Const(1)), "*", Signed("-", Arith(Of("d"), "-", Of("t")))),
    Signed("not", Test(Of("c"), ">", Of("d"))), Signed("-", Signed("+", Of("c"))),
    Signed("not", Signed("not", Of("c"))), Test(Of("c"), "!=", Signed("-", Of("d"))),
    Test(Of("c"), "in", Array(<<Const(0), Of("t")>>)), Test(Of("c"), "not in", Tuple(<<Of("d")>>)),
    [e |-> "cmp", args |-> <<Const(0), Of("c"), Array(<<Of("d"), Const(2)>>)>>, ops |-> <<"<", "in">>],
    Both("or", Tuple(<<>>), Array(<<Of("c")>>)), Tuple(<<Of("c"), Tuple(<<Of("t")>>), Array(<<>>)>>)>>

Computing == FlattenSeq([i \in DOMAIN Operations |->
               <<Ret(Operations[i]), If(Operations[i], Do("a"), <<Do("b")>>)>>])

-----------------------------------------------------------------------------
\* The statements of a program, and the branches and scopes of kind k that its
\* code generation meets, in this order, in the scope it belongs to.
RECURSIVE Statements(_), Met(_, _), Supported(_, _)

Parts(s) == CASE s.kind = "block" -> s.list
              [] s.kind \in {"if", "while", "for"} -> <<s.body>> \o s.branch
              [] s.kind = "switch" -> FlattenSeq([i \in 1 .. Len(s.cases) |-> s.cases[i].body]) \o s.def
              [] s.kind = "try" -> <<s.body>> \o [i \in 1 .. Len(s.excepts) |-> s.excepts[i].body]
                                   \o s.finally
              [] OTHER -> <<>>

Statements(s) == {s} \cup UNION {Statements(Parts(s)[i]) : i \in DOMAIN Parts(s)}

Met(s, k) ==
  LET within(list) == FlattenSeq([i \in 1 .. Len(list) |-> Met(list[i], k)])
  IN  CASE s.kind = k -> <<"branch">>
        [] s.kind \in {"while", "for"} -> <<"scope">> \o within(s.branch)
        [] s.kind = "switch" /\ k = "break" -> [i \in 1 .. Len(Parts(s)) |-> "scope"]
        [] OTHER -> within(Parts(s))

\* BreakableScope::leave and ContinuableScope::leave do not pop: a branch that
\* comes before an inner scope is in a vector that nobody patches.
Patched(s, k) == \A j \in DOMAIN Met(s, k) : \A i \in 1 .. j - 1 :
                   Met(s, k)[i] = "branch" => Met(s, k)[j] # "scope"

Has(s, kinds) == \E t \in Statements(s) : t.kind \in kinds
Throws(s) == \E t \in Statements(s) : t.kind = "raise"
                                      \/ (t.kind = "expr" /\ t.expr.e = "call" /\ t.expr.id \in MayThrow)

Supported(s, at) ==
  LET all(list, b) == \A i \in DOMAIN list : Supported(list[i], b)
  IN  CASE s.kind = "break"    -> at.break
        [] s.kind = "continue" -> at.continue
        [] s.kind = "return"   -> at.return
        [] s.kind = "while" -> /\ Patched(s.body, "break") /\ Patched(s.body, "continue")
                               /\ Supported(s.body, [at EXCEPT !.break = TRUE, !.continue = TRUE])
                               /\ all(s.branch, at)
           \* break and return out of a for loop leave its iterator on the stack
        [] s.kind = "for" -> /\ Patched(s.body, "break") /\ Patched(s.body, "continue")
                             /\ Supported(s.body, [at EXCEPT !.break = FALSE, !.continue = TRUE,
                                                             !.return = FALSE])
                             /\ all(s.branch, at)
           \* continue and return out of a switch leave its value on the stack
        [] s.kind = "switch" -> /\ \A i \in DOMAIN Parts(s) : Patched(Parts(s)[i], "break")
                                /\ all(Parts(s), [break |-> TRUE, continue |-> FALSE, return |-> FALSE])
           \* break and continue out of a try leave its block; unless there was one
           \* before, an exception of a finally section runs the except sections and
           \* the finally section again; so does a pending return at the end of a try inside of one
        [] s.kind = "try" -> /\ all(Parts(s), [at EXCEPT !.break = FALSE, !.continue = FALSE])
                             /\ \A i \in DOMAIN s.finally :
                                  /\ Throws(s.finally[i]) => s.body.kind = "raise"
                                  /\ Has(s, {"return"}) => ~Has(s.finally[i], {"try"})
        [] OTHER -> all(Parts(s), at)

TopLevel == [break |-> FALSE, continue |-> FALSE, return |-> TRUE]

-----------------------------------------------------------------------------
\* The text of a statement.  Where wide, a line ends wherever one may.
RECURSIVE Said(_, _, _), Put(_, _)

\* An operand is in brackets unless its operator binds tighter than the one
\* around it, of the given rank.
Rank(x) == CASE x.e = "or" -> 1 [] x.e = "and" -> 2 [] x.e = "cmp" -> 3
             [] x.e = "arith" -> IF x.ops = <<"*">> THEN 5 ELSE 4
             [] OTHER -> 6
Digits  == (0 :> "0") @@ (1 :> "1") @@ (2 :> "2")

\* The parts with a comma between them; wide, one more ends a line.
Listed(parts, wide) ==
  FlattenSeq([i \in DOMAIN parts |-> parts[i] \o
    (IF i < Len(parts) \/ wide \/ Len(parts) = 1 THEN <<",">> ELSE <<>>) \o (IF wide THEN <<"\n">> ELSE <<>>)])

Said(x, rank, wide) ==
  LET line == IF wide THEN <<"\n">> ELSE <<>>
      op(i) == IF x.e \in {"or", "and"} THEN <<x.e>>
               ELSE IF x.ops[i] = "not in" THEN <<"not", "in">> ELSE <<x.ops[i]>>
      all  == FlattenSeq([i \in DOMAIN x.args |->
                (IF i = 1 THEN <<>> ELSE line \o op(i - 1) \o line) \o Said(x.args[i], Rank(x), wide)])
      items == Listed([i \in DOMAIN x.items |-> Said(x.items[i], 0, wide)], wide)
  IN  CASE x.e \in {"call", "new"} -> <<x.id, "(">> \o line \o <<")">>
        [] x.e = "name"  -> <<x.id>>
        [] x.e = "const" -> <<Digits[x.v]>>
        [] x.e = "tuple" -> <<"(">> \o line \o items \o <<")">>
        [] x.e = "array" -> <<"[">> \o line \o items \o <<"]">>
        [] x.e = "unary" -> <<x.op>> \o line \o Said(x.arg, 5, wide)
        [] x.e \in {"or", "and", "cmp", "arith"} ->
             IF Rank(x) > rank THEN all ELSE <<"(">> \o line \o all \o line \o <<")">>

\* A target: a sequence of its own needs no brackets, and must have none.
RECURSIVE Aimed(_, _, _)

Aimed(t, inner, wide) ==
  LET items == Listed([i \in DOMAIN t.items |-> Aimed(t.items[i], TRUE, wide)], FALSE)
  IN  IF t.t = "name" THEN <<t.name>>
      ELSE IF ~inner  THEN items
      ELSE IF wide    THEN <<"[", "\n">> \o items \o <<"]">>
      ELSE <<"(">> \o items \o <<")">>

\* A body is in braces when a clause may follow it that is not its own.
Braced(s, wide) == IF s.kind \in {"if", "while", "for", "try"}
                   THEN <<"{">> \o Put(s, wide) \o <<"}">> ELSE Put(s, wide)

Put(s, wide) ==
  LET line == IF wide THEN <<"\n">> ELSE <<>>
      end  == IF wide THEN <<"\n">> ELSE <<";">>
      Paren(x) == <<"(">> \o line \o Said(x, 0, wide) \o <<")">> \o line
      Clause(word, part) == IF part = <<>> THEN <<>>
                            ELSE line \o <<word>> \o line \o Braced(part[1], wide)
      Section(part) == IF part = <<>> THEN line ELSE Put(part[1], wide)
      Handler(h) == <<"except", "(", h.type>> \o (IF h.alias = "" THEN <<>> ELSE <<"as", h.alias>>)
                      \o <<")">> \o line \o Braced(h.body, wide)
  IN  CASE s.kind = "expr"   -> Said(s.expr, 0, wide) \o end
        [] s.kind = "block"  -> <<"{">> \o line \o FlattenSeq([i \in DOMAIN s.list |-> Put(s.list[i], wide)])
                                 \o <<"}">> \o line
        [] s.kind = "if"     -> <<"if">> \o Paren(s.expr) \o Braced(s.body, wide) \o Clause("else", s.branch)
        [] s.kind = "while"  -> <<"while">> \o Paren(s.expr) \o Braced(s.body, wide) \o Clause("else", s.branch)
        [] s.kind = "for"    -> <<"for", "(">> \o Aimed(s.target, FALSE, wide) \o <<"in">> \o Said(s.expr, 0, wide) \o <<")">>
                                 \o Braced(s.body, wide) \o Clause("else", s.branch)
        [] s.kind = "switch" ->
             <<"switch">> \o Paren(s.expr) \o <<"{">>
               \o FlattenSeq([i \in DOMAIN s.cases |->
                    <<"case", Digits[s.cases[i].value], ":">> \o Section(s.cases[i].body)])
               \o (IF s.def = <<>> THEN <<>> ELSE <<"default", ":">> \o Section(s.def)) \o <<"}">>
        [] s.kind = "try" -> <<"try">> \o Braced(s.body, wide)
                              \o FlattenSeq([i \in DOMAIN s.excepts |-> Handler(s.excepts[i])])
                              \o Clause("finally", s.finally)
        [] s.kind = "assign" ->
             FlattenSeq([i \in DOMAIN s.targets |-> Aimed(s.targets[i], FALSE, wide) \o <<"=">> \o line])
               \o Said(s.expr, 0, wide) \o end
        [] s.kind = "inc"    -> <<s.name, s.op>> \o line \o Said(s.expr, 0, wide) \o end
        [] s.kind = "delete" -> <<"delete", s.name>> \o end
        [] s.kind = "return" ->          \* wide, the items of a tuple without brackets
             <<"return">> \o (IF wide /\ s.expr.e = "tuple" /\ s.expr.items # <<>>
                              THEN Listed([i \in DOMAIN s.expr.items |-> Said(s.expr.items[i], 0, wide)], FALSE)
                              ELSE Said(s.expr, 0, wide)) \o end
        [] s.kind = "raise"  -> <<"raise">> \o Said(s.expr, 0, wide) \o end
        [] s.kind \in {"break", "continue"} -> <<s.kind>> \o end

Text(s, wide) == <<"def", "f", "(", ")">> \o (IF wide THEN <<"\n">> ELSE <<>>) \o Put(s, wide)

\* What the parser does not take: break, continue and return where they would
\* leave nothing, also from a function inside of a loop; a try that guards
\* nothing; a case after the default section, and a switch without cases; and
\* an expression that neither a line nor a semicolon ends, be it at the end of
\* the file or of a block.
InFunction(tokens) == <<"def", "f", "(", ")", "{">> \o tokens \o <<"}">>
InLoop(tokens) == InFunction(<<"while", "(", "c", "(", ")", ")">> \o tokens)
InSwitch(tokens) == InFunction(<<"switch", "(", "c", "(", ")", ")", "{">> \o tokens \o <<"}">>)

ASSUME RejectedAssumption ==
  \A text \in {InFunction(<<"break", ";">>), InFunction(<<"continue", ";">>), <<"return", "1">>,
               InLoop(<<"def", "g", "(", ")", "break", ";">>), InSwitch(<<"case", "1", ":", "continue", ";">>),
               InFunction(<<"try", "c", "(", ")", ";">>), InSwitch(<<>>), InSwitch(<<"default", ":", ";">>),
               InSwitch(<<"case", "1", ":", ";", "default", ":", ";", "case", "2", ":", ";">>),
               <<"c", "(", ")">>, InFunction(<<"c", "(", ")">>)} : ~Source!Parse(text).ok

\* The same in their places: break in a case, continue in a case in a loop.
ASSUME AcceptedAssumption ==
  \A text \in {InLoop(<<"break", ";">>), InSwitch(<<"case", "1", ":", "break", ";">>), InFunction(<<"return", "1", ";">>),
               InLoop(<<"switch", "(", "c", ")", "{", "case", "1", ":", "continue", ";", "}">>),
               <<"c", "(", ")", "\n">>} : Source!Parse(text).ok

\* Nor what is no target, to the left of = and in a delete; a semicolon after
\* the items of return; and two things a reader of the language would expect: a
\* sequence of targets in brackets, and as a value a list of items one of which
\* is no target.
ASSUME NoTargetAssumption ==
  \A text \in {<<"c", "(", ")", "=", "1", ";">>, <<"x", "+", "y", "=", "1", ";">>, <<"-", "x", "=", "1", ";">>,
               <<"(", "x", ")", "=", "1", ";">>, <<"(", "x", ",", "y", ")", "=", "c", "(", ")", ";">>,
               <<"[", "x", ",", "y", "]", "=", "c", "(", ")", ";">>,
               <<"for", "(", "(", "x", ",", "y", ")", "in", "c", "(", ")", ")", ";">>,
               <<"x", "=", "1", ",", "2", "\n">>, <<"x", "=", "y", ",", "2", "\n">>,
               <<"c", "(", ")", "+=", "1", ";">>, <<"delete", "c", "(", ")", ";">>,
               InFunction(<<"return", "x", ",", "y", ";">>)} : ~Source!Parse(text).ok

\* But a list of names is taken, for an assignment to nothing.
ASSUME TargetAssumption ==
  /\ \A text \in {<<"x", "=", "y", ",", "z", "\n">>, <<"(", "x", ")", "+=", "1", ";">>,
                  <<"(", "x", ",", "y", ")", ",", "z", "=", "c", "(", ")", ";">>,
                  InFunction(<<"return", "x", ",", "y", "\n">>)} : Source!Parse(text).ok
  /\ LET p == Source!Parse(<<"x", ",", "y", "\n">>)
     IN  p.ok /\ p.node.list[1].kind = "assign" /\ p.node.list[1].targets = <<>>

-----------------------------------------------------------------------------
\* Every body is followed by a call, so that going on after it shows.
Followed(list) == [i \in DOMAIN list |-> List(<<list[i], Do("z")>>)]

Admitted == SelectSeq(Followed(Once \o Twice \o Conditional \o Failing \o Around(Failing) \o Thrice) \o Special
                        \o Checked \o Computing,
                      LAMBDA p : Supported(p, TopLevel))

\* How they are written: on one line each, or with a new line at every place
\* where the language has one; and what that is compiled to, which TLC compares
\* with what the parser makes of it once, in ProgramsAssumption.  (TLC evaluates
\* the elements of a function whenever they are used, but not those of a
\* concatenation.)
Written  == LET all == Admitted IN <<>> \o [n \in 1 .. Len(all) |-> Text(all[n], n % 2 = 0)]
Compiled == LET all == Admitted IN <<>> \o [n \in 1 .. Len(all) |-> Build(all[n])]

\* TLC evaluates a definition once, but not the one it takes for a constant.
MCPrograms == Admitted
MCTexts    == Written
MCCodes    == Compiled

\* A for loop that is left by break, as a counterexample.
ForBreak      == <<List(<<Each(Of("n"), List(<<If(Of("c"), Break, <<>>), Do("b")>>), <<>>), Do("z")>>)>>
ForBreakTexts == <<Text(ForBreak[1], FALSE)>>
ForBreakCodes == <<Build(ForBreak[1])>>
=============================================================================
