----------------------------- MODULE Interpreter -----------------------------
(***************************************************************************)
(* Interpreter::eval (src/engine/Interpreter.cpp), one call of it: the     *)
(* value stack, the stack of exception blocks, the pending return value,   *)
(* one step per instruction, and the recovery from an exception, one step  *)
(* per block.                                                              *)
(*                                                                         *)
(* A value on the stack has a kind k, and v or items: a number "val", an   *)
(* iterator "iter" with the items that are left, a tuple or an array       *)
(* "seq", an exception "exc" of the heap or an exception "type".  CALL     *)
(* stands for a call of the program, whose result is external: any value,  *)
(* or an exception.  A number that is iterated stands for some object with *)
(* so many items, which are numbers, too.  Operands of arithmetic and      *)
(* comparisons are numbers.                                                *)
(***************************************************************************)
EXTENDS Integers, Sequences, SequencesExt, TLC

CONSTANTS Codes,       \* sequence of code objects, see CodeGenerator
          Values,      \* what a call may return
          MayThrow,    \* the functions that may throw
          Locals,      \* the names of the local variables
          MaxCalls     \* bound: from then on a call returns 0

ASSUME ValuesAssumption == Values \subseteq Int \ {-1}

VARIABLES call,        \* history: which of Codes is called
          code,        \* _code: its instructions, by address
          pc,          \* Frame::_pc
          stack,       \* _stack
          blocks,      \* blocks
          returnValue, \* returnValue
          locals,      \* _locals
          heap,        \* the exceptions made so far, with type and parent
          thrown,      \* the exception under way to its block
          status,      \* "running", or how the call ended
          trace,       \* history: the calls made, with their results
          depth        \* history: the height of the stack at the addresses met

vars == <<call, code, pc, stack, blocks, returnValue, locals, heap, thrown, status, trace, depth>>

Null == [k |-> "none", v |-> 0, items |-> <<>>]        \* a reference to no object
None == 0                                              \* a reference to no exception

Val(n) == [Null EXCEPT !.k = "val", !.v = n]
Exc(x) == [Null EXCEPT !.k = "exc", !.v = x]
Holding(kind, items) == [Null EXCEPT !.k = kind, !.items = items]
IsNull(x) == x.k = "none"

Items(x) == IF x.k = "seq" THEN x.items ELSE [i \in 1 .. x.v |-> Val(x.v - i)]

Type(x)   == heap[x].type
Parent(x) == heap[x].parent

Init == /\ call \in 1 .. Len(Codes)
        /\ code = Codes[call].ins
        /\ pc = 0
        /\ stack = <<>>
        /\ blocks = <<>>
        /\ returnValue = Null
        /\ locals = [l \in Locals |-> Null]
        /\ heap = <<>>
        /\ thrown = None
        /\ status = "running"
        /\ trace = <<>>
        /\ depth = <<>>

-----------------------------------------------------------------------------
Ins   == code[pc]
Top   == Last(stack)
Drop(n) == SubSeq(stack, 1, Len(stack) - n)
Upper(n) == SubSeq(stack, Len(stack) - n + 1, Len(stack))
Block == Last(blocks)

\* Frame::jumpBy, from behind the operand, and the address of the operand from
\* which EXC_MATCH and SETUP_BLOCK count.
TargetPastOperand == pc + Ins.size + Ins.a       \* mutant: the operand counts from its end
Target     == pc + Ins.size + Ins.a - 5
From(a)    == pc + 1 + a - 1

Goto(address) == pc' = address
Advance       == pc' = pc + Ins.size

New(type) == heap' = Append(heap, [type |-> type, parent |-> None])

\* The exception leaves the body of the loop for its catch clause.
Throw(type) == New(type) /\ thrown' = Len(heap) + 1

Is(ops) == Ins.op \in ops

-----------------------------------------------------------------------------
\* A call of the program, with what it returned; -1 is an exception.
Call == /\ Is({"CALL"})
        /\ \E v \in IF Len(trace) >= MaxCalls THEN {0}
                    ELSE Values \cup (IF Ins.a \in MayThrow THEN {-1} ELSE {}) :
             /\ trace' = Append(trace, [id |-> Ins.a, v |-> v])
             /\ IF v = -1 THEN Throw("B") /\ UNCHANGED stack
                ELSE stack' = Append(stack, Val(v)) /\ UNCHANGED <<heap, thrown>>
        /\ Advance
        /\ UNCHANGED <<blocks, returnValue, locals, status>>

\* LOAD_NULL, LOAD_CONST, and the construction of an exception.
Load == /\ Is({"LOAD_NULL", "LOAD_CONST", "NEW"})
        /\ CASE Is({"LOAD_NULL"})  -> stack' = Append(stack, Val(0)) /\ UNCHANGED heap
             [] Is({"LOAD_CONST"}) -> stack' = Append(stack, Ins.a @@ Null) /\ UNCHANGED heap
             [] Is({"NEW"})        -> stack' = Append(stack, Exc(Len(heap) + 1)) /\ New(Ins.a)
        /\ Advance
        /\ UNCHANGED <<blocks, returnValue, locals, thrown, status, trace>>

LoadLocal == /\ Is({"LOAD_LOCAL"})
             /\ IF IsNull(locals[Ins.a]) THEN Throw("NameError") /\ UNCHANGED stack
                ELSE stack' = Append(stack, locals[Ins.a]) /\ UNCHANGED <<heap, thrown>>
             /\ Advance
             /\ UNCHANGED <<blocks, returnValue, locals, status, trace>>

StoreLocal == /\ Is({"STOR_LOCAL"})
              /\ Advance
              /\ locals' = [locals EXCEPT ![Ins.a] = Top]
              /\ stack' = Drop(1)
              /\ UNCHANGED <<blocks, returnValue, heap, thrown, status, trace>>

DeleteLocal == /\ Is({"DEL_LOCAL"})
               /\ Advance
               /\ IF IsNull(locals[Ins.a]) THEN Throw("NameError") /\ UNCHANGED locals
                  ELSE locals' = [locals EXCEPT ![Ins.a] = Null] /\ UNCHANGED <<heap, thrown>>
               /\ UNCHANGED <<stack, blocks, returnValue, status, trace>>

\* MAKE_ARRAY and MAKE_TUPLE; EXPAND_SEQ, whose items come off the stack from
\* first to last.
MakeSequence == /\ Is({"MAKE_ARRAY", "MAKE_TUPLE"})
                /\ Advance
                /\ IF Len(stack) < Ins.a THEN Throw("InternalError") /\ UNCHANGED stack
                   ELSE /\ stack' = Append(Drop(Ins.a), Holding("seq", Upper(Ins.a)))
                        /\ UNCHANGED <<heap, thrown>>
                /\ UNCHANGED <<blocks, returnValue, locals, status, trace>>

ExpandSequence == /\ Is({"EXPAND_SEQ"})
                  /\ Advance
                  /\ IF Len(Items(Top)) # Ins.a THEN Throw("ValueError") /\ stack' = Drop(1)
                     ELSE stack' = Drop(1) \o Reverse(Items(Top)) /\ UNCHANGED <<heap, thrown>>
                  /\ UNCHANGED <<blocks, returnValue, locals, status, trace>>

Shuffle == /\ Is({"DUP", "DROP", "SWAP", "ROTATE"})
           /\ Advance
           /\ LET n == Len(stack)
              IN  stack' = CASE Is({"DUP"})    -> Append(stack, Top)
                             [] Is({"DROP"})   -> Drop(1)
                             [] Is({"SWAP"})   -> Drop(2) \o <<stack[n], stack[n - 1]>>
                             [] Is({"ROTATE"}) -> Drop(3) \o <<stack[n], stack[n - 2], stack[n - 1]>>
           /\ UNCHANGED <<blocks, returnValue, locals, heap, thrown, status, trace>>

IsTrue(x) == CASE x.k = "val" -> x.v # 0 [] x.k = "seq" -> x.items # <<>> [] x.k = "exc" -> TRUE
Bool(p)   == Val(IF p THEN 1 ELSE 0)

UnaryOp == /\ Is({"POS", "NEG", "BOOL_NOT"})
           /\ Advance
           /\ stack' = Append(Drop(1), CASE Is({"POS"})      -> Top
                                         [] Is({"NEG"})      -> Val(-Top.v)
                                         [] Is({"BOOL_NOT"}) -> Bool(~IsTrue(Top)))
           /\ UNCHANGED <<blocks, returnValue, locals, heap, thrown, status, trace>>

Binaries == {"EQ", "NEQ", "LT", "GT", "LEQ", "IN", "BOOL_OR", "BOOL_AND", "ADD", "SUB", "MUL",
             "INP_ADD", "INP_SUB", "INP_MUL"}

Binary == /\ Is(Binaries)
          /\ LET a == stack[Len(stack) - 1]
                 b == Top
             IN  stack' = Append(Drop(2), CASE Is({"EQ"})       -> Bool(a.v = b.v)
                                            [] Is({"NEQ"})      -> Bool(a.v # b.v)
                                            [] Is({"LT"})       -> Bool(a.v < b.v)
                                            [] Is({"GT"})       -> Bool(a.v > b.v)
                                            [] Is({"LEQ"})      -> Bool(a.v <= b.v)
                                            [] Is({"IN"})       -> Bool(Contains(Items(b), a))
                                            [] Is({"ADD", "INP_ADD"}) -> Val(a.v + b.v)
                                            [] Is({"SUB", "INP_SUB"}) -> Val(a.v - b.v)
                                            [] Is({"MUL", "INP_MUL"}) -> Val(a.v * b.v)
                                            [] Is({"BOOL_OR"})  -> Bool(IsTrue(a) \/ IsTrue(b))
                                            [] Is({"BOOL_AND"}) -> Bool(IsTrue(a) /\ IsTrue(b)))
          /\ Advance
          /\ UNCHANGED <<blocks, returnValue, locals, heap, thrown, status, trace>>

Branch == /\ Is({"BR"})
          /\ Goto(Target)
          /\ UNCHANGED <<stack, blocks, returnValue, locals, heap, thrown, status, trace>>

\* BRP pops, BRCP pops unless it branches, BRNP does not pop.
BranchIf == /\ Is({"BRP_TRUE", "BRP_FALSE", "BRCP_FALSE", "BRNP_TRUE", "BRNP_FALSE"})
            /\ LET taken == IsTrue(Top) <=> Is({"BRP_TRUE", "BRNP_TRUE"})
               IN  /\ IF taken THEN Goto(Target) ELSE Advance
                   /\ stack' = IF Is({"BRP_TRUE", "BRP_FALSE"}) \/ (Is({"BRCP_FALSE"}) /\ ~taken)
                               THEN Drop(1) ELSE stack
            /\ UNCHANGED <<blocks, returnValue, locals, heap, thrown, status, trace>>

MakeIter == /\ Is({"MAKE_ITER"})
            /\ Advance
            /\ stack' = Append(Drop(1), Holding("iter", Items(Top)))
            /\ UNCHANGED <<blocks, returnValue, locals, heap, thrown, status, trace>>

\* The next item is pushed above the iterator, which goes when it is drained.
IterNextKeep ==                  \* mutant: the drained iterator stays
  /\ Is({"ITER_NEXT"})
  /\ IF Top.items # <<>> THEN stack' = Drop(1) \o <<Holding("iter", Tail(Top.items)), Head(Top.items)>> /\ Advance
                         ELSE Goto(Target) /\ UNCHANGED stack
  /\ UNCHANGED <<blocks, returnValue, locals, heap, thrown, status, trace>>

IterNext ==
  /\ Is({"ITER_NEXT"})
  /\ IF Top.items # <<>> THEN stack' = Drop(1) \o <<Holding("iter", Tail(Top.items)), Head(Top.items)>> /\ Advance
                         ELSE stack' = Drop(1) /\ Goto(Target)
  /\ UNCHANGED <<blocks, returnValue, locals, heap, thrown, status, trace>>

-----------------------------------------------------------------------------
Raise == /\ Is({"RAISE"})
         /\ stack' = Drop(1)
         /\ IF Top.k = "exc" THEN thrown' = Top.v /\ UNCHANGED heap
                             ELSE Throw("TypeError")
         /\ Advance
         /\ UNCHANGED <<blocks, returnValue, locals, status, trace>>

\* Every exception is a BaseException.
Matches(x, type) == type \in {Type(x), "BaseException"}

ExcMatch ==
  /\ Is({"EXC_MATCH", "EXC_STORE"})
  /\ IF blocks = <<>> THEN Throw("InternalError") /\ Advance /\ UNCHANGED <<stack, blocks, locals>>
     ELSE /\ stack' = Drop(1)
          /\ UNCHANGED <<heap, thrown>>
          /\ IF ~Matches(Block.exception, Top.v)
             THEN Goto(From(Ins.a)) /\ UNCHANGED <<blocks, locals>>
             ELSE /\ blocks' = [blocks EXCEPT ![Len(blocks)].flags = @ \cup {"CAUGHT"}]
                  /\ locals' = IF Is({"EXC_MATCH"}) THEN locals
                               ELSE [locals EXCEPT ![Ins.b] = Exc(Block.exception)]
                  /\ Advance
  /\ UNCHANGED <<returnValue, status, trace>>

SetupBlock ==
  /\ Is({"SETUP_BLOCK"})
  /\ blocks' = Append(blocks, [sp |-> Len(stack), flags |-> {}, exception |-> None,
                               except |-> From(Ins.a), finally |-> From(Ins.b)])
  /\ Advance
  /\ UNCHANGED <<stack, returnValue, locals, heap, thrown, status, trace>>

EndExcept ==
  /\ Is({"END_EXCEPT"})
  /\ IF blocks = <<>> THEN Throw("InternalError") /\ UNCHANGED blocks
     ELSE /\ blocks' = [blocks EXCEPT ![Len(blocks)].flags = @ \cup {"FINALLY"}]
          /\ UNCHANGED <<heap, thrown>>
  /\ Advance
  /\ UNCHANGED <<stack, returnValue, locals, status, trace>>

\* The call ends, or the finally section of the block that is now on top runs.
Leave(rest) == IF rest = <<>> THEN status' = "returned" /\ Advance
                              ELSE Goto(Last(rest).finally) /\ UNCHANGED status

EndFinally ==
  /\ Is({"END_FINALLY"})
  /\ IF blocks = <<>>
     THEN Throw("InternalError") /\ Advance /\ UNCHANGED <<blocks, status>>
     ELSE /\ blocks' = Front(blocks)
          /\ IF Len(stack) # Block.sp
             THEN Throw("InternalError") /\ Advance /\ UNCHANGED status
             ELSE IF "FIRED" \in Block.flags /\ "CAUGHT" \notin Block.flags
             THEN thrown' = Block.exception /\ Advance /\ UNCHANGED <<heap, status>>
             ELSE /\ IF ~IsNull(returnValue) THEN Leave(Front(blocks)) ELSE Advance /\ UNCHANGED status
                  /\ UNCHANGED <<heap, thrown>>
  /\ UNCHANGED <<stack, returnValue, locals, trace>>

\* Returning from within finally sections gives their blocks up.
Remaining    == SubSeq(blocks, 1, SelectLastInSeq(blocks, LAMBDA b : "FINALLY" \notin b.flags))

PopReturn ==
  /\ Is({"POP_RETURN"})
  /\ stack' = Drop(1)
  /\ returnValue' = Top
  /\ IF Drop(1) # <<>>
     THEN Throw("InternalError") /\ Advance /\ UNCHANGED <<blocks, status>>
     ELSE blocks' = Remaining /\ Leave(Remaining) /\ UNCHANGED <<heap, thrown>>
  /\ UNCHANGED <<locals, trace>>

-----------------------------------------------------------------------------
\* Every instruction first checks that the stack has what it takes.
Needs ==
  LET nothing == {"CALL", "LOAD_NULL", "LOAD_CONST", "NEW", "LOAD_LOCAL", "DEL_LOCAL", "BR", "SETUP_BLOCK",
                  "END_EXCEPT", "END_FINALLY", "MAKE_ARRAY", "MAKE_TUPLE"}
      one     == {"STOR_LOCAL", "DUP", "DROP", "BRP_TRUE", "BRP_FALSE", "BRCP_FALSE", "BRNP_TRUE", "BRNP_FALSE",
                  "MAKE_ITER", "ITER_NEXT", "RAISE", "EXC_MATCH", "EXC_STORE", "POP_RETURN", "POS", "NEG",
                  "BOOL_NOT", "EXPAND_SEQ"}
      two     == {"SWAP"} \cup Binaries
      three   == {"ROTATE"}
  IN  [op \in nothing \cup one \cup two \cup three |->
         CASE op \in nothing -> 0 [] op \in one -> 1 [] op \in two -> 2 [] op \in three -> 3]

Instruction == \/ Call \/ Load \/ LoadLocal \/ StoreLocal \/ DeleteLocal \/ MakeSequence
               \/ ExpandSequence \/ Shuffle \/ UnaryOp \/ Binary \/ Branch \/ BranchIf
               \/ MakeIter \/ IterNext \/ Raise \/ ExcMatch \/ SetupBlock \/ EndExcept
               \/ EndFinally \/ PopReturn

Step == /\ status = "running" /\ thrown = None /\ pc \in DOMAIN code
        /\ depth' = [a \in DOMAIN depth \cup {pc} |-> IF a = pc THEN Len(stack) ELSE depth[a]]
        /\ UNCHANGED <<call, code>>
        /\ IF Len(stack) < Needs[Ins.op]
           THEN /\ Throw("InternalError") /\ Advance
                /\ UNCHANGED <<stack, blocks, returnValue, locals, status, trace>>
           ELSE Instruction

-----------------------------------------------------------------------------
\* The exceptions that x was raised after, starting from x itself: its parents.
Chain(x) ==
  LET after[n \in Nat] == IF n = 0 THEN x
                          ELSE IF after[n - 1] = None THEN None ELSE Parent(after[n - 1])
  IN  [n \in 0 .. Len(heap) |-> after[n]]

\* The last one of a chain; a chain that bites its tail has none, and the loop
\* that looks for it does not end.
LastOf(x) == {y \in {Chain(x)[n] : n \in 0 .. Len(heap)} \ {None} : Parent(y) = None}

\* The exception of the block on top becomes the first cause of the new one.
Chained == \E y \in LastOf(thrown) : heap' = [heap EXCEPT ![y].parent = Block.exception]

Recovering == /\ status = "running" /\ thrown # None
              /\ UNCHANGED <<call, code, returnValue, locals, trace, depth>>

Unwind == stack' = SubSeq(stack, 1, Block.sp)

\* No block: the exception goes to the caller of eval.  So does the complaint
\* that the stack is shorter than it was when the block was set up.
Propagate == /\ Recovering /\ (blocks # <<>> => Len(stack) < Block.sp)
             /\ IF blocks = <<>> THEN UNCHANGED <<heap, thrown>> ELSE Throw("InternalError")
             /\ status' = "raised"
             /\ UNCHANGED <<pc, stack, blocks>>

RecoverGuard == Recovering /\ blocks # <<>> /\ Len(stack) >= Block.sp

\* The first exception of a block goes to its except sections, ...
FirstTimeKeepStack ==            \* mutant: the stack is not unwound
  /\ RecoverGuard /\ "FIRED" \notin Block.flags
  /\ Chained
  /\ blocks' = [blocks EXCEPT ![Len(blocks)].flags = @ \cup {"FIRED"},
                              ![Len(blocks)].exception = thrown]
  /\ Goto(Block.except)
  /\ thrown' = None
  /\ UNCHANGED <<stack, status>>

FirstTime ==
  /\ RecoverGuard /\ "FIRED" \notin Block.flags
  /\ Chained
  /\ blocks' = [blocks EXCEPT ![Len(blocks)].flags = @ \cup {"FIRED"},
                              ![Len(blocks)].exception = thrown]
  /\ Unwind
  /\ Goto(Block.except)
  /\ thrown' = None
  /\ UNCHANGED status

\* ... one of an except section to the finally section, ...
InExcept ==
  /\ RecoverGuard /\ "FIRED" \in Block.flags /\ "FINALLY" \notin Block.flags
  /\ Chained
  /\ blocks' = [blocks EXCEPT ![Len(blocks)].flags = @ \ {"CAUGHT"},
                              ![Len(blocks)].exception = thrown]
  /\ Unwind
  /\ Goto(Block.finally)
  /\ thrown' = None
  /\ UNCHANGED status

\* ... and one of the finally section to the next block, or to the caller.
InFinallySectionKeep ==          \* mutant: the block stays
  /\ RecoverGuard /\ {"FIRED", "FINALLY"} \subseteq Block.flags
  /\ Chained
  /\ IF Len(blocks) = 1 THEN status' = "raised" ELSE UNCHANGED status
  /\ UNCHANGED <<pc, stack, blocks, thrown>>

InFinallySection ==
  /\ RecoverGuard /\ {"FIRED", "FINALLY"} \subseteq Block.flags
  /\ Chained
  /\ IF Len(blocks) = 1 THEN status' = "raised" /\ UNCHANGED blocks
                        ELSE blocks' = Front(blocks) /\ UNCHANGED status
  /\ UNCHANGED <<pc, stack, thrown>>

Recover == Propagate \/ FirstTime \/ InExcept \/ InFinallySection

Next == Step \/ Recover

Spec == Init /\ [][Next]_vars /\ WF_vars(Next)

-----------------------------------------------------------------------------
\* The type of the state.  A running call stands at an instruction of its code:
\* every jump, relative or absolute, lands on one.
TypeOK == /\ call \in 1 .. Len(Codes) /\ code = Codes[call].ins
          /\ status \in {"running", "returned", "raised"}
          /\ status = "running" /\ thrown = None => pc \in DOMAIN code
          /\ \A n \in DOMAIN blocks : /\ blocks[n].flags \subseteq {"FIRED", "CAUGHT", "FINALLY"}
                                      /\ blocks[n].exception \in 0 .. Len(heap)
          /\ thrown \in 0 .. Len(heap)
          /\ \A x \in DOMAIN heap : Parent(x) \in 0 .. Len(heap)
          /\ \A n \in DOMAIN stack : stack[n].k \in {"val", "iter", "seq", "exc", "type"}
          /\ \A l \in Locals : locals[l].k \in {"none", "val", "seq", "exc"}
          /\ returnValue.k \in {"none", "val", "seq", "exc"}
          /\ \A n \in DOMAIN trace : trace[n].v \in Values \cup {0, -1}

\* None of the checks that throw an InternalError ever fails: no "Stack is
\* empty", "Stack unbalanced", "No blocks" or "Stack not empty when return".
NoInternalError == \A x \in DOMAIN heap : Type(x) # "InternalError"

\* However control comes to an instruction, through loops, exceptions or a
\* pending return, the stack has the same height there.
HeightByAddress ==
  status = "running" /\ thrown = None /\ pc \in DOMAIN depth => Len(stack) = depth[pc]

\* A call that makes finitely many steps of its own loops ends.
Terminates == <>(status # "running")
=============================================================================
