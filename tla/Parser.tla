------------------------------- MODULE Parser -------------------------------
(***************************************************************************)
(* The parser (src/compiler/Parser.cpp), from tokens to the syntax trees   *)
(* of CodeGenerator, with the look-ahead of the tokenizer                  *)
(* (src/compiler/Tokenizer.cpp) that decides where a line matters.  A      *)
(* token is a string, which stands for what the tokenizer makes of it.     *)
(*                                                                         *)
(* The parser descends recursively, and looks at one token to choose.  So  *)
(* each of its functions is given here by its steps, for the token that    *)
(* lies ahead; Rule chooses, Run makes the steps one after the other.  A   *)
(* loop of the code is a rule that ends with itself.  After a syntax error *)
(* nothing more is parsed.                                                 *)
(***************************************************************************)
EXTENDS Integers, Sequences, SequencesExt, TLC

CONSTANT Classes       \* the names that are bound to exception types

Eof     == ""
NewLine == "\n"

Keywords  == {"if", "else", "for", "while", "try", "except", "as", "finally", "switch", "case",
              "default", "def", "break", "continue", "return", "raise", "delete"}
Inplace   == {"+=", "-=", "*="}
Operators == {NewLine, ";", ":", ",", "(", ")", "{", "}", "[", "]", "=", "in", "or", "and", "not", "<", "<=",
              ">", ">=", "==", "!=", "+", "-", "*"} \cup Inplace
Integer   == ("0" :> 0) @@ ("1" :> 1) @@ ("2" :> 2)

IsName(t) == t # Eof /\ t \notin Keywords /\ t \notin Operators /\ t \notin DOMAIN Integer

\* Where the parser is: at a token, within that many cases, loops and
\* functions; node is what it is making.
Start(text) == [text |-> text, at |-> 1, ok |-> TRUE, node |-> <<>>,
                scope |-> [cases |-> 0, loops |-> 0, functions |-> 0]]

Error(p) == [p EXCEPT !.ok = FALSE]

\* Tokenizer: peekOrLine and nextOrLine take the next token, peek and next the
\* next one that is no line, and next drops the lines before it.
TokenAt(p, i) == IF i <= Len(p.text) THEN p.text[i] ELSE Eof
Ahead(p)      == CHOOSE i \in p.at .. Len(p.text) + 1 :
                   /\ TokenAt(p, i) # NewLine
                   /\ \A j \in p.at .. i - 1 : TokenAt(p, j) = NewLine

PeekOrLine(p) == TokenAt(p, p.at)
Peek(p)       == TokenAt(p, Ahead(p))
NextOrLine(p) == [p EXCEPT !.at = IF @ > Len(p.text) THEN @ ELSE @ + 1]
Advance(p)    == NextOrLine([p EXCEPT !.at = Ahead(p)])

-----------------------------------------------------------------------------
\* Steps: a token is expected; a name goes into a field of the node; another
\* node is parsed, within a further scope, and goes into a field, or is added
\* to the list in it; the same node is gone on with; popState goes back to an
\* earlier token.
Token(t)           == [do |-> "token", token |-> t]
ParseName(field)   == [do |-> "name", field |-> field]
Line               == [do |-> "line"]
In(scope, what, field) == [do |-> "parse", what |-> what, field |-> field, scope |-> scope]
Parsed(what, field)    == In("", what, field)
Add(scope, what, field) == [do |-> "add", what |-> what, field |-> field, scope |-> scope]
More(what)         == [do |-> "more", what |-> what]
Back(at)           == [do |-> "back", at |-> at]

Steps(p, steps)    == [node |-> p.node, steps |-> steps]
Makes(node, steps) == [node |-> node, steps |-> steps]
Wrong              == [node |-> <<>>, steps |-> <<[do |-> "error"]>>]

Statement(kind, fields) == ("kind" :> kind) @@ fields
NoFields                == [f \in {} |-> <<>>]
Lists(fields)           == [f \in fields |-> <<>>]

\* parseIf, parseWhile and parseFor.
ParseIf ==
  Makes(Statement("if", Lists({"branch"})),
        <<Token("if"), Token("("), Parsed("expression", "expr"), Token(")"),
          Parsed("statement", "body"), More("else")>>)

ParseWhile ==
  Makes(Statement("while", Lists({"branch"})),
        <<Token("while"), Token("("), Parsed("expression", "expr"), Token(")"),
          In("loops", "statement", "body"), More("else")>>)

ParseFor ==
  Makes(Statement("for", Lists({"branch"})),
        <<Token("for"), Token("("), Parsed("forTarget", "target"), Parsed("expression", "expr"),
          Token(")"), In("loops", "statement", "body"), More("else")>>)

ElseBranch(p) == Steps(p, IF Peek(p) # "else" THEN <<>>
                          ELSE <<Token("else"), Add("", "statement", "branch")>>)

\* parseTry: it needs an except or a finally section.
ParseTry ==
  Makes(Statement("try", Lists({"excepts", "finally"})),
        <<Token("try"), Parsed("statement", "body"), More("excepts")>>)

Excepts(p) ==
  IF Peek(p) = "except" THEN Steps(p, <<Add("", "except", "excepts"), More("excepts")>>)
  ELSE IF Peek(p) = "finally" THEN Steps(p, <<Token("finally"), Add("", "statement", "finally")>>)
  ELSE IF p.node.excepts = <<>> THEN Wrong ELSE Steps(p, <<>>)

Except == Makes("alias" :> "",
                <<Token("except"), Token("("), Parsed("expression", "type"), More("alias"), Token(")"),
                  Parsed("statement", "body")>>)

Alias(p) == Steps(p, IF Peek(p) # "as" THEN <<>> ELSE <<Token("as"), ParseName("alias")>>)

\* parseSwitch: a case has no body when another section follows.
ParseSwitch ==
  Makes(Statement("switch", Lists({"cases", "def"})),
        <<Token("switch"), Token("("), Parsed("expression", "expr"), Token(")"), Token("{"),
          More("sections")>>)

Sections(p) ==
  CASE Peek(p) = "case" /\ p.node.def = <<>> ->
         Steps(p, <<Add("cases", "case", "cases"), More("sections")>>)
    [] Peek(p) = "default" /\ p.node.def = <<>> ->
         Steps(p, <<Token("default"), Token(":"), Add("cases", "statement", "def"), More("sections")>>)
    [] Peek(p) = "}" /\ p.node.cases # <<>> -> Steps(p, <<Token("}")>>)
    [] OTHER -> Wrong

Case == Makes(Lists({"body"}), <<Token("case"), Parsed("expression", "value"), Token(":"), More("caseBody")>>)

CaseBody(p) == Steps(p, IF Peek(p) \in {"case", "default"} THEN <<>>
                        ELSE <<Add("", "statement", "body")>>)

\* parseFunction, without parameters: the loops and cases around a function do
\* not count inside of it.
ParseFunction ==
  Makes(Statement("def", NoFields),
        <<Token("def"), ParseName("name"), Token("("), Token(")"), In("function", "statement", "body")>>)

ParseBreak(p) == IF p.scope.cases = 0 /\ p.scope.loops = 0 THEN Wrong
                 ELSE Makes(Statement("break", NoFields), <<Token("break"), More("end")>>)

ParseContinue(p) == IF p.scope.loops = 0 THEN Wrong
                    ELSE Makes(Statement("continue", NoFields), <<Token("continue"), More("end")>>)

ParseReturn(p) == IF p.scope.functions = 0 THEN Wrong
                  ELSE Makes(Statement("return", NoFields),
                             <<Token("return"), Parsed("returned", "expr"), More("end")>>)

\* parseReturnExpression: with a comma on this line it is a tuple, which only a
\* new line ends.
ReturnItems(p) ==
  LET t == PeekOrLine(p)
  IN  IF t = "," THEN Makes([p.node EXCEPT !.tuple = TRUE], <<Line, More("returnMore")>>)
      ELSE IF t = NewLine \/ ~p.node.tuple THEN Steps(p, <<>>) ELSE Wrong

ReturnMore(p) == Steps(p, IF PeekOrLine(p) = NewLine THEN <<>>
                          ELSE <<Add("", "expression", "items"), More("returnItems")>>)

ParseReturnExpression == Makes([tuple |-> FALSE, items |-> <<>>],
                               <<Add("", "expression", "items"), More("returnItems")>>)

ParseRaise == Makes(Statement("raise", NoFields),
                    <<Token("raise"), Parsed("expression", "expr"), More("end")>>)

\* parseDelete, of a local variable.
ParseDelete == Makes(Statement("delete", NoFields),
                     <<Token("delete"), Parsed("expression", "comp"), More("deleted")>>)

Deleted(p) == IF p.node.comp.e # "name" THEN Wrong
              ELSE Makes(Statement("delete", "name" :> p.node.comp.id), <<More("end")>>)

-----------------------------------------------------------------------------
\* isSyntacticallyMutable, of an operand without modifiers; and the sequences
\* that are parsed once more, as targets.
Mutable(operand)  == operand.e = "name"
Sequence(operand) == operand.e \in {"tuple", "array"}
Opening(operand)  == IF operand.e = "array" THEN "[" ELSE "("
Closing(operand)  == IF operand.e = "array" THEN "]" ELSE ")"

Variable(operand) == [t |-> "name", name |-> operand.id]

\* parseUnpack: targets up to the terminator.  Where it is only tried, another
\* token than a comma behind a target makes it give up; but an operand that is
\* no target is an error.
ParseUnpack(terminator, tried) ==
  Makes([t |-> "unpack", items |-> <<>>, terminator |-> terminator, tried |-> tried], <<More("unpack")>>)

Unpack(p) == Makes("start" :> p.at @@ p.node, <<Parsed("operand", "operand"), More("unpacked")>>)

Unpacked(p) ==
  LET x == p.node.operand
  IN  IF Mutable(x) THEN Makes([p.node EXCEPT !.items = Append(@, Variable(x))], <<More("unpackMore")>>)
      ELSE IF ~Sequence(x) THEN Wrong
      ELSE Steps(p, <<Back(p.node.start), Token(Opening(x)),
                      Add("", IF x.e = "array" THEN "subarray" ELSE "subtuple", "items"), More("unpackMore")>>)

UnpackMore(p) ==
  LET end == p.node.terminator
  IN  IF Peek(p) = ","          THEN Steps(p, <<Token(","), More("unpackEnd")>>)
      ELSE IF Peek(p) = end     THEN Steps(p, <<Token(end)>>)
      ELSE IF p.node.tried      THEN Makes([t |-> "none"], <<>>)
      ELSE Wrong

UnpackEnd(p) == Steps(p, IF Peek(p) = p.node.terminator THEN <<Token(Peek(p))>> ELSE <<More("unpack")>>)

\* parseAssignTarget: one target, or a sequence of them.  A sequence in brackets
\* is read again up to the bracket, which leaves the terminator behind.
ParseTarget(p, terminator, tried) ==
  Makes([start |-> p.at, terminator |-> terminator, tried |-> tried],
        <<Parsed("operand", "operand"), More("targetEnd")>>)

TargetEnd(p) ==
  LET n == p.node
      Again(unpack, steps) == Makes(unpack.node, <<Back(n.start)>> \o steps \o unpack.steps)
  IN  IF Peek(p) = "," THEN Again(ParseUnpack(n.terminator, n.tried), <<>>)
      ELSE IF Peek(p) # n.terminator THEN IF n.tried THEN Makes([t |-> "none"], <<>>) ELSE Wrong
      ELSE IF Mutable(n.operand) THEN Makes(Variable(n.operand), <<Token(n.terminator)>>)
      ELSE IF Sequence(n.operand)
           THEN Again(ParseUnpack(Closing(n.operand), FALSE), <<Token(Opening(n.operand))>>)
      ELSE Wrong

\* What begins with an expression: that expression, when the line ends behind
\* it; an incremental assignment; or else it is read again as targets, as long
\* as there is one, and a value.
ParseSimple(p) == Makes(Statement("simple", "start" :> p.at), <<Parsed("expression", "expr"), More("simple")>>)

Simple(p) ==
  LET t == PeekOrLine(p)
      x == p.node.expr
  IN  IF t \in {NewLine, ";"} THEN Makes(Statement("expr", "expr" :> x), <<Line>>)
      ELSE IF t \in Inplace
           THEN IF ~Mutable(x) THEN Wrong
                ELSE Makes(Statement("inc", "name" :> x.id @@ "op" :> t),
                           <<Line, Parsed("expression", "expr"), More("end")>>)
      ELSE IF t \in Operators
           THEN Makes(Statement("assign", Lists({"targets"})), <<Back(p.node.start), More("targets")>>)
      ELSE Wrong

Targets(p) == Makes("start" :> p.at @@ p.node, <<Parsed("target", "target"), More("assigned")>>)

Assigned(p) ==
  IF p.node.target.t # "none"
  THEN Makes([p.node EXCEPT !.targets = Append(@, p.node.target)], <<More("targets")>>)
  ELSE Steps(p, <<Back(p.node.start), Parsed("returned", "expr"), More("end")>>)

-----------------------------------------------------------------------------
\* parse and parseCompondStatement: statements up to the end of the text, or up
\* to the brace.
Statements(p) == Steps(p, IF Peek(p) \in {"}", Eof} THEN <<>>
                          ELSE <<Add("", "statement", "list"), More("statements")>>)

ParseCompoundStatement ==
  Makes(Statement("block", Lists({"list"})), <<Token("{"), More("statements"), Token("}")>>)

\* parseStatement.
ParseStatement(p) ==
  LET t == Peek(p)
  IN  CASE t = "{"        -> ParseCompoundStatement
        [] t = ";"        -> Makes(Statement("block", Lists({"list"})), <<Token(";")>>)
        [] t = "if"       -> ParseIf
        [] t = "for"      -> ParseFor
        [] t = "try"      -> ParseTry
        [] t = "while"    -> ParseWhile
        [] t = "switch"   -> ParseSwitch
        [] t = "def"      -> ParseFunction
        [] t = "break"    -> ParseBreak(p)
        [] t = "return"   -> ParseReturn(p)
        [] t = "continue" -> ParseContinue(p)
        [] t = "raise"    -> ParseRaise
        [] t = "delete"   -> ParseDelete
        [] t \notin Keywords /\ t \notin {"{", ";"} -> ParseSimple(p)
        [] OTHER          -> Wrong

\* The end of the text ends every statement but a solo expression.
End(p) == IF PeekOrLine(p) \in {NewLine, ";", Eof} THEN Steps(p, <<Line>>) ELSE Wrong

-----------------------------------------------------------------------------
\* The levels of MAKE_EXPRESSION_PARSER and parseCompares that have operators
\* here: operands as long as one of the operators follows, on this line or on
\* a later one.  What is one level down is a level, too.
Level == [expression |-> [e |-> "or", ops |-> {"or"}, term |-> "boolAnd"],
          boolAnd    |-> [e |-> "and", ops |-> {"and"}, term |-> "compares"],
          compares   |-> [e |-> "cmp", ops |-> {"<", "<=", ">", ">=", "==", "!=", "in", "not"}, term |-> "addSub"],
          addSub     |-> [e |-> "arith", ops |-> {"+", "-"}, term |-> "term"],
          term       |-> [e |-> "arith", ops |-> {"*"}, term |-> "factor"]]

ParseLevel(what) == Makes([level |-> what, args |-> <<>>, ops |-> <<>>],
                          <<Add("", Level[what].term, "args"), More("operators")>>)

ParseOperators(p) ==
  LET level == Level[p.node.level]
      t     == Peek(p)
      Another(op, tokens) == Makes([p.node EXCEPT !.ops = Append(@, op)],
                                 tokens \o <<Add("", level.term, "args"), More("operators")>>)
  IN  IF t \notin level.ops THEN Steps(p, <<>>)
      ELSE IF t = "not" THEN Another("not in", <<Token("not"), Token("in")>>)
      ELSE Another(t, <<Token(t)>>)

\* parseComposite: a constant, or a name, which is called when a bracket follows
\* on the same line.
ParseComposite(t) ==
  IF t \in DOMAIN Integer THEN Makes([e |-> "const", v |-> Integer[t]], <<Token(t), More("nothing")>>)
                          ELSE Makes([e |-> "name"], <<ParseName("id"), More("invoke")>>)

\* parseFactor tries what a bracket begins before it parses it again, as what it
\* has turned out to be: a sequence with one item and no comma is that item.
ParseFactor(p) ==
  LET t == Peek(p)
      Items(e) == Makes([e |-> e, items |-> <<>>, comma |-> FALSE], <<Token(t), More("items")>>)
  IN  CASE t = "(" -> Items("tuple")
        [] t = "[" -> Items("array")
        [] t \in {"+", "-", "not"} -> Makes([e |-> "unary", op |-> t], <<Token(t), Parsed("factor", "arg")>>)
        [] t \in DOMAIN Integer \/ IsName(t) -> ParseComposite(t)
        [] OTHER -> Wrong

ParseItems(p) ==
  LET n   == p.node
      end == Closing(n)
  IN  IF Peek(p) # end THEN Makes([n EXCEPT !.comma = FALSE], <<Add("", "expression", "items"), More("itemEnd")>>)
      ELSE Makes(IF n.e = "array" \/ n.comma \/ Len(n.items) # 1 THEN n
                 ELSE [e |-> "nested", inner |-> n.items[1]], <<Token(end), More("nothing")>>)

ItemEnd(p) ==
  IF Peek(p) = "," THEN Makes([p.node EXCEPT !.comma = TRUE], <<Token(","), More("items")>>)
  ELSE IF Peek(p) = Closing(p.node) THEN Steps(p, <<More("items")>>)
  ELSE Wrong

\* What a name is called with is not modelled; nor are other modifiers.
NoModifier(p) == IF PeekOrLine(p) \in {"(", "["} THEN Wrong ELSE Steps(p, <<>>)

ParseInvoke(p) ==
  IF PeekOrLine(p) # "(" THEN NoModifier(p)
  ELSE Makes([p.node EXCEPT !.e = IF p.node.id \in Classes THEN "new" ELSE "call"],
             <<Token("("), Token(")"), More("nothing")>>)

\* pruneExpression leaves of a level without operators its operand, and of
\* brackets what is in them.  The type of an except section is a name, and the
\* value of a case a number.
Pruned(what, n) ==
  CASE what \in DOMAIN Level -> IF n.ops = <<>> THEN n.args[1]
                                ELSE [e |-> Level[what].e, args |-> n.args, ops |-> n.ops]
    [] what = "factor"   -> IF n.e = "nested" THEN n.inner ELSE n
    [] what = "returned" -> IF n.tuple THEN [e |-> "tuple", items |-> n.items] ELSE n.items[1]
    [] what = "except"   -> [n EXCEPT !.type = n.type.id]
    [] what = "case"     -> [n EXCEPT !.value = n.value.v]
    [] what \in {"statement", "operand", "target", "forTarget", "subarray", "subtuple"} -> n

-----------------------------------------------------------------------------
Rule(p, what) ==
  CASE what = "statement"  -> ParseStatement(p)
    [] what = "statements" -> Statements(p)
    [] what = "simple"     -> Simple(p)
    [] what = "targets"    -> Targets(p)
    [] what = "assigned"   -> Assigned(p)
    [] what = "target"     -> ParseTarget(p, "=", TRUE)
    [] what = "forTarget"  -> ParseTarget(p, "in", FALSE)
    [] what = "targetEnd"  -> TargetEnd(p)
    [] what = "unpack"     -> Unpack(p)
    [] what = "subarray"   -> ParseUnpack("]", FALSE)
    [] what = "subtuple"   -> ParseUnpack(")", FALSE)
    [] what = "unpacked"   -> Unpacked(p)
    [] what = "unpackMore" -> UnpackMore(p)
    [] what = "unpackEnd"  -> UnpackEnd(p)
    [] what = "deleted"    -> Deleted(p)
    [] what = "returned"   -> ParseReturnExpression
    [] what = "returnItems" -> ReturnItems(p)
    [] what = "returnMore" -> ReturnMore(p)
    [] what = "end"        -> End(p)
    [] what = "else"       -> ElseBranch(p)
    [] what = "excepts"    -> Excepts(p)
    [] what = "except"     -> Except
    [] what = "alias"      -> Alias(p)
    [] what = "sections"   -> Sections(p)
    [] what = "case"       -> Case
    [] what = "caseBody"   -> CaseBody(p)
    [] what \in DOMAIN Level -> ParseLevel(what)
    [] what = "operators"  -> ParseOperators(p)
    [] what \in {"factor", "operand"} -> ParseFactor(p)
    [] what = "items"      -> ParseItems(p)
    [] what = "itemEnd"    -> ItemEnd(p)
    [] what = "invoke"     -> ParseInvoke(p)
    [] what = "nothing"    -> NoModifier(p)

\* Scope and Reset.
Enter(scope, kind) ==
  CASE kind = ""         -> scope
    [] kind = "function" -> [cases |-> 0, loops |-> 0, functions |-> scope.functions + 1]
    [] kind \in {"cases", "loops"} -> [scope EXCEPT ![kind] = @ + 1]

Put(node, field, value) == (field :> value) @@ node

RECURSIVE Run(_, _), Make(_, _)          \* Make: the steps that are left

Do(p, s) ==
  CASE s.do = "error" \/ ~p.ok -> Error(p)
    [] s.do = "line" /\ p.ok   -> NextOrLine(p)
    [] s.do = "token" /\ p.ok  -> IF Peek(p) = s.token THEN Advance(p) ELSE Error(p)
    [] s.do = "name" /\ p.ok   -> IF ~IsName(Peek(p)) THEN Error(p)
                                  ELSE [Advance(p) EXCEPT !.node = Put(@, s.field, Peek(p))]
    [] s.do = "more" /\ p.ok   -> Run(p, s.what)
    [] s.do = "back" /\ p.ok   -> [p EXCEPT !.at = s.at]
    [] s.do \in {"parse", "add"} /\ p.ok ->
         LET q == Run([p EXCEPT !.scope = Enter(@, s.scope)], s.what)
             n == Pruned(s.what, q.node)
         IN  IF ~q.ok THEN Error(p)
             ELSE [p EXCEPT !.at = q.at,
                            !.node = Put(@, s.field, IF s.do = "add" THEN Append(@[s.field], n) ELSE n)]

Run(p, what) == LET rule == Rule(p, what)
                IN  Make([p EXCEPT !.node = rule.node], rule.steps)

Make(p, steps) == IF steps = <<>> THEN p ELSE Make(Do(p, Head(steps)), Tail(steps))

\* Parser::parse: the statements of a file.
Parse(text) ==
  LET p == Run([Start(text) EXCEPT !.node = Lists({"list"})], "statements")
  IN  IF Peek(p) = Eof THEN p ELSE Error(p)
=============================================================================
