----------------------------- MODULE ControlFlow -----------------------------
(***************************************************************************)
(* From the tokens to the end of a call: functions are parsed and compiled *)
(* and the code is executed, and what that does is compared with what the  *)
(* body means.  The parts share nothing but a tree and the bytes of a code *)
(* object, so that a clause that went to another statement, an offset, a   *)
(* height of the stack or a flag they see differently shows up here: that  *)
(* the text of each program is parsed and compiled to its code is an       *)
(* assumption on the constants, which TLC evaluates.                       *)
(***************************************************************************)
EXTENDS Interpreter, CodeGenerator, Language

CONSTANTS Programs,    \* sequence of function bodies
          Texts,       \* how each is written: the tokens of a function
          Classes      \* the names of exception types

Source == INSTANCE Parser

\* The code is what becomes of the body of the only function of each file.
FunctionBody(file) == file.node.list[1].body
Compile(file)      == Build(FunctionBody(file))

ASSUME ProgramsAssumption ==
  LET texts == Texts
      codes == Codes
      Becomes(n) == LET file == Source!Parse(texts[n]) IN file.ok /\ codes[n] = Compile(file)
  IN  /\ Len(texts) = Len(Programs) /\ Len(codes) = Len(Programs)
      /\ \A n \in DOMAIN texts : Becomes(n)

\* An exception with its causes, as the types of the chain.
ChainTypes(x) ==
  LET chain == Chain(x)
      size  == CHOOSE n \in 1 .. Len(heap) + 1 :
                 \A i \in 0 .. Len(heap) : chain[i] # None <=> i < n
  IN  [n \in 1 .. size |-> Type(chain[n - 1])]

RECURSIVE AsValue(_)

AsValue(x) == CASE x.k = "val" -> Number(x.v)
                [] x.k = "exc" -> Object(ChainTypes(x.v))
                [] x.k = "seq" -> Sequence([i \in DOMAIN x.items |-> AsValue(x.items[i])])

\* When the call has ended, it has made the calls the body says, in their order,
\* and it has ended the way the body says: with the value, or with the exception
\* and everything it was raised after.  In particular every finally section on
\* the way out has run once, and loops, else clauses, fall-through cases and
\* short-circuited operands as often as they should.
Agrees ==
  status # "running" =>
    LET meaning == Meaning(Programs[call], Locals, trace)
    IN  /\ trace = meaning.trace
        /\ meaning.out = IF status = "returned" THEN Returns(AsValue(returnValue))
                                                ELSE Raises(ChainTypes(thrown))

\* POP_RETURN takes the only value there is: "should have no items left".
NothingLeftAtReturn ==
  status = "running" /\ thrown = None /\ Ins.op = "POP_RETURN" => Len(stack) = 1
=============================================================================
