---------------------------- MODULE CodeGenerator ----------------------------
(***************************************************************************)
(* The code generator (src/compiler/CodeGenerator.cpp) for the statements  *)
(* that decide where control goes, with the code object it writes into     *)
(* (src/runtime/CodeObject.cpp): one operator per visitor, from an abstract *)
(* syntax tree to instructions at byte addresses with relative operands.   *)
(*                                                                         *)
(* A statement is a record with a kind, an expression one with a field e:  *)
(*   "call" id    a call of a function of the program, which is external   *)
(*   "name" id    a local variable (one whose assignment precedes it in    *)
(*                the text; others are free, see FunctionCalls)            *)
(*   "const" v    a number                                                 *)
(*   "new" id     a new exception of a type                                *)
(*   "tuple", "array"  items,   "unary" op arg,   "arith" args ops         *)
(*   "or", "and"  args,   "cmp" args ops    a < b <= c ...                 *)
(* A target is a record, too, with a field t:                              *)
(*   "name" name,   "unpack" items                                         *)
(* An optional part is a sequence of length at most one.                   *)
(***************************************************************************)
EXTENDS Integers, Sequences, SequencesExt, TLC

\* A code frame: the code object, and the stacks of vectors of branches that
\* wait for the end of a breakable and of a continuable scope.
Frame == [len |-> 0, ins |-> <<>>, breaks |-> <<>>, continues |-> <<>>]

\* CodeObject::emit, emitJump, emitOperand and emitOperand2.  A jump is emitted
\* with an operand still to be patched.
Write(c, op, a, b, size) ==
  [c EXCEPT !.ins = @ @@ (c.len :> [op |-> op, a |-> a, b |-> b, size |-> size]),
            !.len = @ + size]

Emit(c, op)               == Write(c, op, 0, 0, 1)
EmitJump(c, op)           == Write(c, op, 0, 0, 5)
EmitOperand(c, op, a)     == Write(c, op, a, 0, 5)
EmitOperand2(c, op, a, b) == Write(c, op, a, b, 9)

\* What they return for the next instruction: the offset of its operand.
Offset(c) == c.len + 1

PatchBranch(c, offset, address)  == [c EXCEPT !.ins[offset - 1].a = address - offset + 1]
PatchBranch2(c, offset, address) == [c EXCEPT !.ins[offset - 1].b = address - offset + 1]

PatchAll(c, offsets, address) ==
  FoldLeft(LAMBDA d, offset : PatchBranch(d, offset, address), c, offsets)

\* BreakableScope and ContinuableScope.  leave moves the vector out of the top
\* of the stack, where an empty one stays.
EnterLoop(c) == [c EXCEPT !.breaks = Append(@, <<>>), !.continues = Append(@, <<>>)]
LeaveLoop(c) == [c EXCEPT !.breaks[Len(c.breaks)] = <<>>,
                          !.continues[Len(c.continues)] = <<>>]
EnterCase(c) == [c EXCEPT !.breaks = Append(@, <<>>)]
LeaveCase(c) == [c EXCEPT !.breaks[Len(c.breaks)] = <<>>]

-----------------------------------------------------------------------------
\* Both <= and >= are LEQ.
Comparison == ("<" :> <<"LT">>) @@ ("<=" :> <<"LEQ">>) @@ (">" :> <<"GT">>) @@ (">=" :> <<"LEQ">>)
              @@ ("==" :> <<"EQ">>) @@ ("!=" :> <<"NEQ">>) @@ ("in" :> <<"IN">>)
              @@ ("not in" :> <<"IN", "BOOL_NOT">>)
Arithmetic == ("+" :> "ADD") @@ ("-" :> "SUB") @@ ("*" :> "MUL")
IncOpCode  == ("+=" :> "INP_ADD") @@ ("-=" :> "INP_SUB") @@ ("*=" :> "INP_MUL")
Unary      == ("+" :> "POS") @@ ("-" :> "NEG") @@ ("not" :> "BOOL_NOT")

RECURSIVE VisitExpression(_, _)

\* Boolean operators leave for the end of the expression as soon as an operand
\* decides; a chain of comparisons keeps a copy of the middle operand below the
\* result, which has to be discarded when it leaves early.
VisitBool(c, x) ==
  LET jump == IF x.e = "or" THEN "BRNP_TRUE" ELSE "BRNP_FALSE"
      oper == IF x.e = "or" THEN "BOOL_OR" ELSE "BOOL_AND"
      Term(p, arg) == [c |-> Emit(VisitExpression(EmitJump(p.c, jump), arg), oper),
                       patches |-> Append(p.patches, Offset(p.c))]
  IN  FoldLeft(Term, [c |-> VisitExpression(c, x.args[1]), patches |-> <<>>], Tail(x.args))

EndBool(p) == PatchAll(p.c, p.patches, p.c.len)

Compared(p, c, op, more) ==
  LET d == FoldLeft(Emit, IF more THEN Emit(Emit(c, "DUP"), "ROTATE") ELSE c, Comparison[op])
  IN  IF more THEN [c |-> EmitJump(d, "BRCP_FALSE"), patches |-> Append(p.patches, Offset(d))]
              ELSE [p EXCEPT !.c = d]

VisitComparison(c, x) ==
  LET last == Len(x.ops)
      Term(p, i) == Compared(p, VisitExpression(p.c, x.args[i + 1]), x.ops[i], i < last)
  IN  FoldLeft(Term, [c |-> VisitExpression(c, x.args[1]), patches |-> <<>>],
               [i \in 1 .. last |-> i])

EndComparison(p, x) ==
  LET done == PatchAll(EmitJump(p.c, "BR"), p.patches, p.c.len + 5)
      drop == Emit(Emit(done, "SWAP"), "DROP")
  IN  IF Len(x.ops) > 1 THEN PatchBranch(drop, Offset(p.c), drop.len) ELSE p.c

\* Operators of one rank, from left to right.
VisitArithmetic(c, x) ==
  LET Term(d, i) == Emit(VisitExpression(d, x.args[i + 1]), Arithmetic[x.ops[i]])
  IN  FoldLeft(Term, VisitExpression(c, x.args[1]), [i \in 1 .. Len(x.ops) |-> i])

\* visitArray and visitTuple.
VisitSequence(c, x) ==
  EmitOperand(FoldLeft(VisitExpression, c, x.items),
              IF x.e = "array" THEN "MAKE_ARRAY" ELSE "MAKE_TUPLE", Len(x.items))

VisitExpression(c, x) ==
  CASE x.e = "call"          -> EmitOperand(c, "CALL", x.id)
    [] x.e = "name"          -> EmitOperand(c, "LOAD_LOCAL", x.id)
    [] x.e = "const"         -> EmitOperand(c, "LOAD_CONST", [k |-> "val", v |-> x.v])
    [] x.e = "new"           -> EmitOperand(c, "NEW", x.id)
    [] x.e \in {"or", "and"} -> EndBool(VisitBool(c, x))
    [] x.e = "cmp"           -> EndComparison(VisitComparison(c, x), x)
    [] x.e = "arith"         -> VisitArithmetic(c, x)
    [] x.e = "unary"         -> Emit(VisitExpression(c, x.arg), Unary[x.op])
    [] x.e \in {"tuple", "array"} -> VisitSequence(c, x)

-----------------------------------------------------------------------------
\* buildCompositeTarget and visitUnpack: the value on top goes to a variable, or
\* is expanded and its items go to one target after the other.
RECURSIVE VisitTarget(_, _)

VisitTarget(c, t) ==
  IF t.t = "name" THEN EmitOperand(c, "STOR_LOCAL", t.name)
  ELSE FoldLeft(VisitTarget, EmitOperand(c, "EXPAND_SEQ", Len(t.items)), t.items)

\* From right to left.  Without targets, which the parser makes of a list of
\* names, the loop of the code has no end: there is at least one here.
VisitAssign(c, s) ==
  LET Copy(t, d) == VisitTarget(Emit(d, "DUP"), t)
  IN  VisitTarget(FoldRight(Copy, Tail(s.targets), VisitExpression(c, s.expr)), s.targets[1])

VisitIncremental(c, s) ==
  EmitOperand(Emit(VisitExpression(EmitOperand(c, "LOAD_LOCAL", s.name), s.expr), IncOpCode[s.op]),
              "STOR_LOCAL", s.name)

RECURSIVE VisitStatement(_, _)

VisitOptional(c, part) == FoldLeft(VisitStatement, c, part)

VisitBranches(cond, s) ==
  LET pos  == VisitStatement(EmitJump(cond, "BRP_FALSE"), s.body)
      exit == EmitJump(pos, "BR")
      neg  == VisitOptional(PatchBranch(exit, Offset(cond), exit.len), s.branch)
  IN  IF s.branch = <<>> THEN PatchBranch(pos, Offset(cond), pos.len)
                         ELSE PatchBranch(neg, Offset(pos), neg.len)

VisitIf(c, s) == VisitBranches(VisitExpression(c, s.expr), s)

\* The body of a loop and what follows it: c has emitted the jump out of the
\* loop at offset exit; next is where the loop goes on.
VisitLoopBreakToElse(c, s, next, exit) ==       \* mutant: break runs the else clause
  LET body  == VisitStatement(EnterLoop(c), s.body)
      again == PatchBranch(EmitJump(body, "BR"), Offset(body), next)
      left  == PatchAll(LeaveLoop(again), Last(again.continues), next)
      out   == PatchAll(PatchBranch(left, exit, left.len), Last(again.breaks), left.len)
  IN  VisitOptional(out, s.branch)

VisitLoop(c, s, next, exit) ==
  LET body  == VisitStatement(EnterLoop(c), s.body)
      again == PatchBranch(EmitJump(body, "BR"), Offset(body), next)
      left  == PatchAll(LeaveLoop(again), Last(again.continues), next)
      out   == VisitOptional(PatchBranch(left, exit, left.len), s.branch)
  IN  PatchAll(out, Last(again.breaks), out.len)

VisitWhile(c, s) ==
  LET cond == VisitExpression(c, s.expr)
  IN  VisitLoop(EmitJump(cond, "BRP_FALSE"), s, c.len, Offset(cond))

VisitFor(c, s) ==
  LET iter == Emit(VisitExpression(c, s.expr), "MAKE_ITER")
      item == VisitTarget(EmitJump(iter, "ITER_NEXT"), s.target)
  IN  VisitLoop(item, s, iter.len, Offset(iter))

\* The jump table.
VisitCases(c, s) ==
  LET Test(p, item) ==
        LET eq == Emit(EmitOperand(Emit(p.c, "DUP"), "LOAD_CONST",
                                   [k |-> "val", v |-> item.value]), "EQ")
        IN  [c |-> EmitJump(eq, "BRP_TRUE"), jumps |-> Append(p.jumps, Offset(eq))]
  IN  FoldLeft(Test, [c |-> c, jumps |-> <<>>], s.cases)

\* The bodies, which fall through to each other, and the default section.  Every
\* break leads behind them.
VisitSection(p, part) ==
  LET body == VisitOptional(EnterCase(p.c), part)
  IN  IF part = <<>> THEN p
      ELSE [c |-> LeaveCase(body), breaks |-> p.breaks \o Last(body.breaks)]

VisitDefault(p, none, s) ==
  VisitSection([p EXCEPT !.c = PatchBranch(@, none, @.len)], s.def)

VisitSections(table, s) ==
  LET Case(p, i) == VisitSection([p EXCEPT !.c = PatchBranch(@, table.jumps[i], @.len)],
                                 s.cases[i].body)
  IN  VisitDefault(FoldLeft(Case, [c |-> EmitJump(table.c, "BR"), breaks |-> <<>>],
                            [i \in 1 .. Len(s.cases) |-> i]),
                   Offset(table.c), s)

Finish(p) == PatchAll(p.c, p.breaks, p.c.len)

VisitSwitch(c, s) ==
  Emit(Finish(VisitSections(VisitCases(VisitExpression(c, s.expr), s), s)), "DROP")

\* Each except section starts where the one before it (or SETUP_BLOCK) sends an
\* exception; the end of the last one, and of the body, is the finally section.
\* The type of a section is any expression in the code; here it is an exception
\* type, which a program names, and whose evaluation does not throw.
VisitTry(c, s) ==
  LET start == Offset(c)
      Handler(p, h) ==
        LET jump  == EmitJump(p.c, "BR")
            type  == EmitOperand(PatchBranch(jump, p.next, jump.len), "LOAD_CONST",
                                 [k |-> "type", v |-> h.type])
            match == IF h.alias = "" THEN EmitJump(type, "EXC_MATCH")
                                     ELSE EmitOperand2(type, "EXC_STORE", 0, h.alias)
        IN  [c |-> VisitStatement(match, h.body), next |-> Offset(type),
             ends |-> Append(p.ends, Offset(p.c))]
      body  == VisitStatement(EmitOperand2(c, "SETUP_BLOCK", 0, 0), s.body)
      p     == FoldLeft(Handler, [c |-> body, next |-> start, ends |-> <<>>], s.excepts)
      final == PatchAll(PatchBranch(p.c, p.next, p.c.len), p.ends, p.c.len)
      enter == Emit(PatchBranch2(final, start, final.len), "END_EXCEPT")
  IN  Emit(VisitOptional(enter, s.finally), "END_FINALLY")

VisitBreak(c) ==
  [EmitJump(c, "BR") EXCEPT !.breaks[Len(c.breaks)] = Append(@, Offset(c))]

VisitContinue(c) ==
  [EmitJump(c, "BR") EXCEPT !.continues[Len(c.continues)] = Append(@, Offset(c))]

VisitStatement(c, s) ==
  CASE s.kind = "expr"     -> Emit(VisitExpression(c, s.expr), "DROP")
    [] s.kind = "block"    -> FoldLeft(VisitStatement, c, s.list)
    [] s.kind = "if"       -> VisitIf(c, s)
    [] s.kind = "while"    -> VisitWhile(c, s)
    [] s.kind = "for"      -> VisitFor(c, s)
    [] s.kind = "switch"   -> VisitSwitch(c, s)
    [] s.kind = "try"      -> VisitTry(c, s)
    [] s.kind = "break"    -> VisitBreak(c)
    [] s.kind = "continue" -> VisitContinue(c)
    [] s.kind = "return"   -> Emit(VisitExpression(c, s.expr), "POP_RETURN")
    [] s.kind = "assign"   -> VisitAssign(c, s)
    [] s.kind = "inc"      -> VisitIncremental(c, s)
    [] s.kind = "delete"   -> EmitOperand(c, "DEL_LOCAL", s.name)
    [] s.kind = "raise"    -> Emit(VisitExpression(c, s.expr), "RAISE")

\* A function body, with the default return.
Build(s) == Emit(Emit(VisitStatement(Frame, s), "LOAD_NULL"), "POP_RETURN")
=============================================================================
