------------------------------ MODULE Verifier ------------------------------
(***************************************************************************)
(* What makes a code object safe to execute, as a verifier of byte code    *)
(* would put it, which goes over the instructions without executing them.  *)
(* The interpreter has none: it checks the height of its stack and its     *)
(* blocks at each step and throws InternalError.                           *)
(*                                                                         *)
(* A certificate says of each address which shapes the state of eval may   *)
(* have there: the kinds of the values on the stack, the exception blocks, *)
(* and whether a return is pending.  A code object is certified if, from   *)
(* each of these shapes, no check fails and all an instruction can do,     *)
(* return or throw, leads to a shape of the certificate again.             *)
(***************************************************************************)
EXTENDS Interpreter

CONSTANT Certificate   \* per code object: the shapes of the state, by address

\* A value is of kind "iter", "type", or "plain", which a variable may hold.
Plain(n) == [i \in 1 .. n |-> "plain"]
Kind(x)  == IF x.k = "type" THEN "type" ELSE "plain"

\* blocks has them as in the interpreter, but for the exception they hold.
Shape(kinds, blks, pending) == [kinds |-> kinds, blocks |-> blks, pending |-> pending]
Start == Shape(<<>>, <<>>, FALSE)

Height(s)      == Len(s.kinds)
Pop(s, n)      == Shape(SubSeq(s.kinds, 1, Height(s) - n), s.blocks, s.pending)
Push(s, kinds) == Shape(s.kinds \o kinds, s.blocks, s.pending)

Flagged(b, flag) == [b EXCEPT !.flags = @ \cup {flag}]
InTop(s, flag)   == Shape(s.kinds, [s.blocks EXCEPT ![Len(s.blocks)] = Flagged(@, flag)], s.pending)

\* Where a block continues with an exception, and what becomes of its flags: the
\* first one goes to the except sections, one of those to the finally section.
Handler(b) == IF "FIRED" \in b.flags THEN b.finally ELSE b.except
Fired(b)   == [b EXCEPT !.flags = IF "FIRED" \in @ THEN @ \ {"CAUGHT"} ELSE @ \cup {"FIRED"}]

\* An exception in a state of shape s is handled by the last block that has not
\* come to its finally section with one, or goes to the caller.
Catching(s) == SelectLastInSeq(s.blocks, LAMBDA b : ~ {"FIRED", "FINALLY"} \subseteq b.flags)

Handled(s) ==
  LET j == Catching(s)
      b == s.blocks[j]
  IN  IF j = 0 THEN {}
      ELSE {<<Handler(b), Shape(SubSeq(s.kinds, 1, b.sp),
                                [SubSeq(s.blocks, 1, j) EXCEPT ![j] = Fired(b)], s.pending)>>}

\* No block begins above the stack.
Covered(s) == \A n \in DOMAIN s.blocks : s.blocks[n].sp <= Height(s)

\* Where the call goes on with a return that is pending: nowhere, when it ends.
Leaving(s) == IF s.blocks = <<>> THEN {} ELSE {<<Last(s.blocks).finally, s>>}

Kept(s) == SubSeq(s.blocks, 1, SelectLastInSeq(s.blocks, LAMBDA b : "FINALLY" \notin b.flags))

\* After END_FINALLY, the block gone.
Ending(s, next) ==
  LET b    == Last(s.blocks)
      rest == Shape(s.kinds, Front(s.blocks), s.pending)
  IN  IF "FIRED" \in b.flags /\ "CAUGHT" \notin b.flags THEN Handled(rest)
      ELSE IF s.pending THEN Leaving(rest) ELSE {<<next, rest>>}

\* The addresses and shapes the instruction i at address a leads to.
Flow(i, a, s) ==
  LET h     == Height(s)
      k     == s.kinds
      next  == a + i.size
      On(t) == {<<next, t>>}
      To(t) == {<<a + i.size + i.a - 5, t>>}
  IN  CASE i.op = "CALL"       -> On(Push(s, Plain(1))) \cup (IF i.a \in MayThrow THEN Handled(s) ELSE {})
        [] i.op = "LOAD_NULL"  -> On(Push(s, Plain(1)))
        [] i.op = "LOAD_CONST" -> On(Push(s, <<Kind(i.a)>>))
        [] i.op = "NEW"        -> On(Push(s, Plain(1)))
        [] i.op = "LOAD_LOCAL" -> On(Push(s, Plain(1))) \cup Handled(s)
        [] i.op = "STOR_LOCAL" -> On(Pop(s, 1))
        [] i.op = "DEL_LOCAL"  -> On(s) \cup Handled(s)
        [] i.op \in {"MAKE_ARRAY", "MAKE_TUPLE"} -> On(Push(Pop(s, i.a), Plain(1)))
        [] i.op = "EXPAND_SEQ" -> On(Push(Pop(s, 1), Plain(i.a))) \cup Handled(Pop(s, 1))
        [] i.op = "DUP"        -> On(Push(s, <<k[h]>>))
        [] i.op = "DROP"       -> On(Pop(s, 1))
        [] i.op = "SWAP"       -> On(Push(Pop(s, 2), <<k[h], k[h - 1]>>))
        [] i.op = "ROTATE"     -> On(Push(Pop(s, 3), <<k[h], k[h - 2], k[h - 1]>>))
        [] i.op \in {"POS", "NEG", "BOOL_NOT"} -> On(Push(Pop(s, 1), Plain(1)))
        [] i.op \in Binaries   -> On(Push(Pop(s, 2), Plain(1)))
        [] i.op = "BR"         -> To(s)
        [] i.op \in {"BRP_TRUE", "BRP_FALSE"}   -> On(Pop(s, 1)) \cup To(Pop(s, 1))
        [] i.op = "BRCP_FALSE" -> On(Pop(s, 1)) \cup To(s)
        [] i.op \in {"BRNP_TRUE", "BRNP_FALSE"} -> On(s) \cup To(s)
        [] i.op = "MAKE_ITER"  -> On(Push(Pop(s, 1), <<"iter">>))
        [] i.op = "ITER_NEXT"  -> On(Push(Pop(s, 1), <<"iter", "plain">>)) \cup To(Pop(s, 1))
        [] i.op = "RAISE"      -> Handled(Pop(s, 1))
        [] i.op \in {"EXC_MATCH", "EXC_STORE"} -> On(InTop(Pop(s, 1), "CAUGHT")) \cup {<<a + 1 + i.a - 1, Pop(s, 1)>>}
        [] i.op = "SETUP_BLOCK" ->
             On(Shape(k, Append(s.blocks, [sp |-> h, flags |-> {}, exception |-> None,
                                           except |-> a + 1 + i.a - 1, finally |-> a + 1 + i.b - 1]), s.pending))
        [] i.op = "END_EXCEPT"  -> On(InTop(s, "FINALLY"))
        [] i.op = "END_FINALLY" -> Ending(s, next)
        [] i.op = "POP_RETURN"  -> Leaving(Shape(<<>>, Kept(s), TRUE))

-----------------------------------------------------------------------------
\* The instructions that take a value from the top of the stack which has to be
\* one that a variable may hold.
Ordinary == {"STOR_LOCAL", "EXPAND_SEQ", "POS", "NEG", "BOOL_NOT", "BRP_TRUE", "BRP_FALSE", "BRCP_FALSE",
             "BRNP_TRUE", "BRNP_FALSE", "MAKE_ITER", "POP_RETURN"}

\* The checks of the interpreter succeed, and operands are what they should be.
Sound(i, s) ==
  LET h == Height(s)
      Ordinaries(n) == n \in 0 .. h /\ \A m \in h - n + 1 .. h : s.kinds[m] = "plain"
      b == Last(s.blocks)
  IN  /\ i.op \in DOMAIN Needs /\ Needs[i.op] <= h /\ Covered(s)
      /\ i.op \in Ordinary                     => Ordinaries(1)
      /\ i.op \in Binaries                     => Ordinaries(2)
      /\ i.op \in {"MAKE_ARRAY", "MAKE_TUPLE"} => Ordinaries(i.a)
      /\ i.op = "ITER_NEXT"                    => s.kinds[h] = "iter"
      /\ i.op \in {"EXPAND_SEQ", "RAISE"}      => Covered(Pop(s, 1))
      /\ i.op = "EXPAND_SEQ"                   => i.a \in Nat
      /\ i.op = "LOAD_LOCAL"                   => i.a \in Locals
      /\ i.op = "NEW"                          => i.a # "InternalError"
      /\ i.op = "LOAD_CONST" => LET x == i.a @@ Null IN x.k = i.a.k /\ (x.k = "type" \/ (x = Val(x.v) /\ x.v \in Int))
      /\ i.op \in {"EXC_MATCH", "EXC_STORE", "END_EXCEPT", "END_FINALLY"} => s.blocks # <<>>
      /\ i.op = "EXC_STORE"                    => "FIRED" \in b.flags
      /\ i.op = "END_FINALLY"                  => h = b.sp
      /\ i.op = "POP_RETURN"                   => h = 1

\* x is an address and a shape.
In(x, shapes) == x[1] \in DOMAIN shapes /\ x[2] \in shapes[x[1]]

Certified(ins, shapes) ==
  /\ DOMAIN shapes \subseteq DOMAIN ins
  /\ In(<<0, Start>>, shapes)
  /\ \A a \in DOMAIN shapes : \A s \in shapes[a] :
       /\ Sound(ins[a], s)
       /\ \A x \in Flow(ins[a], a, s) : In(x, shapes)
       /\ \A t \in shapes[a] : Height(t) = Height(s)

ASSUME CertificateAssumption ==
  LET codes  == Codes
      shapes == Certificate
  IN  \A c \in 1 .. Len(codes) : Certified(codes[c].ins, shapes[c])
=============================================================================
