------------------------------ MODULE FunctionCalls ------------------------------
(***************************************************************************)
(* Calls of functions on one thread: the stack of frames (Engine::Thread), *)
(* the local variables of Engine::Interpreter, the variables that inner    *)
(* functions capture (Engine::Closure, Interpreter::closureCreate), which  *)
(* the code generator decides (freeVars), and the binding of arguments     *)
(* (Runtime::FunctionObject::invoke).                                      *)
(*                                                                         *)
(* A frame does, in any order, the steps that its text allows: what the    *)
(* program computes is left open.  The top of its value stack is all that  *)
(* is kept of the stack.  A captured variable is a cell: open as long as   *)
(* it points into the locals of a frame, frozen once it has a value of its *)
(* own.  Cells are named by the function object they were made for.        *)
(***************************************************************************)
EXTENDS Integers, Sequences, FiniteSets, SequencesExt

CONSTANTS Texts,         \* the functions in the text of the program
          Mains,         \* those that are modules, one of which is run
          Text,          \* Text[f]: its code object, see TextsAssumption
          Arguments,     \* Arguments[f]: what the program calls it with
          MaxRecursion,  \* MAX_RECURSION
          MaxFunctions,  \* bound: function objects made
          MaxFrames,     \* bound: frames made
          Budget         \* bound: Budget[m], steps of the program of module m

\* A code object; a call passes objects, and never a function object.
IsSequence(s) == s \in Seq(Range(s))
IsData(v)     == v.k \notin {"none", "fn"}

\* The parameters of a function have different names: with one name twice the
\* program writes past its local variables at the first call.
DistinctParameters(T) ==
  /\ \A i, j \in DOMAIN T.args : T.args[i] = T.args[j] => i = j
  /\ T.vargs \notin Range(T.args) /\ T.kwargs \notin Range(T.args)
  /\ T.vargs = T.kwargs => T.vargs = ""

ASSUME TextsAssumption ==
  /\ Mains \subseteq Texts
  /\ \A f \in Texts :
       /\ Text[f].args \in Seq(Text[f].locals) /\ DistinctParameters(Text[f])
       /\ {Text[f].vargs, Text[f].kwargs} \subseteq Text[f].locals \cup {""}
       /\ IsSequence(Text[f].defaults) /\ \A i \in DOMAIN Text[f].defaults : IsData(Text[f].defaults[i])
       /\ Len(Text[f].defaults) <= Len(Text[f].args)
       /\ Text[f].inner \subseteq Texts
       /\ \A c \in Arguments[f] :
            /\ IsSequence(c.args) /\ \A i \in DOMAIN c.args : IsData(c.args[i])
            /\ \A n \in DOMAIN c.named : IsData(c.named[n])
  /\ MaxRecursion \in Nat \ {0} /\ MaxFunctions \in Nat

VARIABLES frames,     \* Thread::frames with the Interpreter of each
          functions,  \* the function objects made so far
          cells,      \* the closures made so far
          raised,     \* the exception under way, or ""
          left,       \* bound: how many steps the program still makes
          lives,      \* history: every frame ever, with what its variables hold
          early,      \* history: the cells frozen while their frame went on
          called      \* history: the arguments, right after a call

vars == <<frames, functions, cells, raised, left, lives, early, called>>

\* Values: a reference to no object, a number, a function object, the null
\* object, and what variadic and keyword parameters are given.
Null      == [k |-> "none"]
Number(n) == [k |-> "val",   v |-> n]
Fn(k)     == [k |-> "fn",    v |-> k]
Nothing   == [k |-> "null"]
Tuple(s)  == [k |-> "tuple", v |-> s]
Map(m)    == [k |-> "map",   v |-> m]

NoCall == [text |-> ""]

-----------------------------------------------------------------------------
\* visitName marks the names that are not local where they are read, and
\* buildFunctionObject passes those of an inner function on to the outer one,
\* so that a function has those of all the functions in its text.
Inside[f \in Texts] ==
  {g \in Texts : \A S \in SUBSET Texts : f \in S /\ (\A h \in S : Text[h].inner \subseteq S) => g \in S}

Passed[f \in Texts] == UNION {Text[g].named : g \in Inside[f]}

FreeVarsOwn(f) == Text[f].named       \* mutant: nothing is passed on

FreeVars(f) == Passed[f]

\* An Interpreter for a call: its locals, no context, and the closure of the
\* function.  id is its place in lives.
NewFrame(id, f, names, locals) ==
  [id |-> id, text |-> f, names |-> names, locals |-> locals,
   contexts |-> [l \in Text[f].locals |-> 0], top |-> Null]

NoLocals(f) == [l \in Text[f].locals |-> Null]

Init == /\ \E m \in Mains :
             /\ frames = <<NewFrame(1, m, <<>>, NoLocals(m))>>
             /\ lives = <<[fn |-> 0, text |-> m, values |-> NoLocals(m)]>>
             /\ left = Budget[m]
        /\ functions = <<>>
        /\ cells = <<>>
        /\ raised = ""
        /\ early = {}
        /\ called = NoCall

Top    == Last(frames)
Locals == Text[Top.text].locals

Runs(call) == /\ frames # <<>> /\ raised = "" /\ left > 0
              /\ left' = left - 1
              /\ called' = call

Becomes(frame) == frames' = [frames EXCEPT ![Len(frames)] = frame]
Push(value)    == Becomes([Top EXCEPT !.top = value])
Throw(e)       == raised' = e /\ UNCHANGED frames

\* The variable of the program, whoever refers to it.
Records(name, value) == lives' = [lives EXCEPT ![Top.id].values[name] = value]

-----------------------------------------------------------------------------
\* Closure::freeze of the cells of some contexts of a frame.
Held(frame, names) == {<<frame.contexts[l], l>> : l \in {l \in names : frame.contexts[l] # 0}}

Frozen(set, frame) ==
  [c \in DOMAIN cells |-> IF c \in set THEN [home |-> 0, object |-> frame.locals[c[2]]]
                                       ELSE cells[c]]

\* Closure::get.
Home(id) == CHOOSE n \in DOMAIN frames : frames[n].id = id
Get(c)   == IF cells[c].home = 0 THEN cells[c].object
            ELSE frames[Home(cells[c].home)].locals[c[2]]

LoadConst == /\ Runs(NoCall)
             /\ \E n \in Text[Top.text].consts : Push(Number(n))
             /\ UNCHANGED <<functions, cells, raised, lives, early>>

\* LOAD_LOCAL and LOAD_NAME; the latter looks for a local variable first.
Value(name) == IF name \in Locals THEN Top.locals[name]
               ELSE IF name \in DOMAIN Top.names THEN Get(Top.names[name])
               ELSE Null

Load == /\ Runs(NoCall)
        /\ \E name \in Locals \cup Text[Top.text].named :
             IF Value(name) = Null THEN Throw("NameError")
                                   ELSE Push(Value(name)) /\ UNCHANGED raised
        /\ UNCHANGED <<functions, cells, lives, early>>

\* STOR_LOCAL moves the top of the stack.
Store == /\ Runs(NoCall) /\ Top.top # Null
         /\ \E name \in Locals :
              /\ Becomes([Top EXCEPT !.locals[name] = Top.top, !.top = Null])
              /\ Records(name, Top.top)
         /\ UNCHANGED <<functions, cells, raised, early>>

\* DEL_LOCAL clears the variable first and its context after it.
Delete == /\ Runs(NoCall)
          /\ \E name \in Locals :
               IF Top.locals[name] = Null
               THEN Throw("NameError") /\ UNCHANGED <<cells, lives, early>>
               ELSE LET kept == [Top EXCEPT !.locals[name] = Null, !.contexts[name] = 0]
                        gone == Held(Top, {name})
                    IN  /\ Becomes(kept)
                        /\ cells' = Frozen(gone, kept)
                        /\ early' = early \cup gone
                        /\ Records(name, Null)
                        /\ UNCHANGED raised
          /\ UNCHANGED functions

\* MAKE_FUNCTION.  closureCreate gives every local variable that the function
\* captures a new context, and freezes the one it had.
Captured(g) == FreeVars(g) \cap Locals

Closure(g) == [n \in FreeVars(g) \cap (Locals \cup DOMAIN Top.names) |->
                 IF n \in Locals THEN <<Len(functions) + 1, n>> ELSE Top.names[n]]

MakeFunction ==
  /\ Runs(NoCall) /\ Len(functions) < MaxFunctions
  /\ \E g \in Text[Top.text].inner :
       LET k    == Len(functions) + 1
           gone == Held(Top, Captured(g))
           new  == {<<k, n>> : n \in Captured(g)}
       IN  /\ functions' = Append(functions, [text |-> g, closure |-> Closure(g), definer |-> Top.id])
           /\ cells' = [c \in new \cup DOMAIN cells |->
                          IF c \in new THEN [home |-> Top.id, object |-> Null] ELSE Frozen(gone, Top)[c]]
           /\ early' = early \cup gone
           /\ Becomes([Top EXCEPT !.top = Fn(k),
                         !.contexts = [l \in Locals |-> IF l \in Captured(g) THEN k ELSE @[l]]])
  /\ UNCHANGED <<raised, lives>>

-----------------------------------------------------------------------------
\* FunctionObject::invoke up to the call of eval: argv and count after the
\* positional arguments, after the named ones, and after the defaults.
Positional(T, c) ==
  [i \in DOMAIN T.args |-> IF i <= Len(c.args) THEN c.args[i] ELSE Null]

Named(T, c) == [i \in DOMAIN T.args |-> IF T.args[i] \in DOMAIN c.named THEN c.named[T.args[i]]
                                        ELSE Positional(T, c)[i]]

First(T) == Len(T.args) - Len(T.defaults)

Defaulted(T, c) ==
  [i \in DOMAIN T.args |-> IF Named(T, c)[i] = Null /\ i > First(T) THEN T.defaults[i - First(T)]
                           ELSE Named(T, c)[i]]

Extra(T, c) == [n \in DOMAIN c.named \ Range(T.args) |-> c.named[n]]

\* The variable count, which each of the three passes adds to.
Adds(T, c, named) == Cardinality({i \in DOMAIN T.args : i <= Len(c.args)})
                       + Cardinality(named)
                       + Cardinality({i \in DOMAIN T.args : Named(T, c)[i] = Null /\ i > First(T)})

CountEveryNamed(T, c) ==               \* mutant: also one that is there
  Adds(T, c, {i \in DOMAIN T.args : T.args[i] \in DOMAIN c.named})

Count(T, c) ==
  Adds(T, c, {i \in DOMAIN T.args : T.args[i] \in DOMAIN c.named /\ Positional(T, c)[i] = Null})

Refused(T, c) == \/ T.vargs = "" /\ Len(c.args) > Len(T.args)
                 \/ T.kwargs = "" /\ DOMAIN Extra(T, c) # {}
                 \/ Count(T, c) < Len(T.args)

Bound(f, c) ==
  LET T == Text[f]
      Place(l) == CHOOSE i \in DOMAIN T.args : T.args[i] = l
  IN  [l \in T.locals |->
         IF l \in Range(T.args) THEN Defaulted(T, c)[Place(l)]
         ELSE IF l = T.vargs THEN Tuple(SubSeq(c.args, Len(T.args) + 1, Len(c.args)))
         ELSE IF l = T.kwargs THEN Map(Extra(T, c))
         ELSE Null]

\* CALL_FUNCTION: the function leaves the stack; framePush is the first thing
\* that eval does.
TooDeepLate == Len(frames) > MaxRecursion       \* mutant: one frame too many

TooDeep == Len(frames) >= MaxRecursion

Invoke ==
  /\ frames # <<>> /\ Top.top.k = "fn" /\ Len(lives) < MaxFrames
  /\ LET k  == Top.top.v
         f  == functions[k].text
         id == Len(lives) + 1
     IN  \E c \in Arguments[f] :
           /\ Runs([text |-> f, args |-> c.args, named |-> c.named])
           /\ IF Refused(Text[f], c) \/ TooDeep
              THEN /\ Throw(IF Refused(Text[f], c) THEN "TypeError" ELSE "RuntimeError")
                   /\ UNCHANGED lives
              ELSE /\ frames' = Append([frames EXCEPT ![Len(frames)].top = Null],
                                       NewFrame(id, f, functions[k].closure, Bound(f, c)))
                   /\ lives' = Append(lives, [fn |-> k, text |-> f, values |-> Bound(f, c)])
                   /\ UNCHANGED raised
  /\ UNCHANGED <<functions, cells, early>>

\* An error of the program itself: RAISE, or an operation that fails.
Raise == /\ Runs(NoCall)
         /\ Throw("Error")
         /\ UNCHANGED <<functions, cells, lives, early>>

\* The end of eval and of the interpreter: the contexts go before the locals.
LeaveOpen(rest) == frames' = rest /\ UNCHANGED cells       \* mutant: nothing is frozen

Leave(rest) == frames' = rest /\ cells' = Frozen(Held(Top, Locals), Top)

\* POP_RETURN; a function that ends without a return returns the null object.
Return == /\ Runs(NoCall)
          /\ LET n == Len(frames) - 1
                 result == IF Top.top = Null THEN Nothing ELSE Top.top
             IN  Leave(IF n = 0 THEN <<>> ELSE [Front(frames) EXCEPT ![n].top = result])
          /\ UNCHANGED <<functions, raised, lives, early>>

\* An exception leaves a frame that has no try statement around, or reaches
\* the handler of one, which unwinds the value stack.
Handles == /\ raised # "" /\ frames # <<>>
           /\ called' = NoCall
           /\ UNCHANGED <<functions, left, lives, early>>

Unwind == Handles /\ Leave(Front(frames)) /\ UNCHANGED raised

Catch == Handles /\ raised' = "" /\ Push(Null) /\ UNCHANGED cells

Next == \/ LoadConst \/ Load \/ Store \/ Delete \/ MakeFunction
        \/ Invoke \/ Raise \/ Return \/ Unwind \/ Catch

Spec == Init /\ [][Next]_vars

-----------------------------------------------------------------------------
\* The stack is within Thread::MAX_RECURSION, every frame has the locals of
\* its code object, and contexts, functions and cells refer to what exists.
Ids   == DOMAIN lives
Names == UNION {Text[f].locals \cup Text[f].named : f \in Texts}

FramesOK ==
  /\ Len(frames) <= MaxRecursion
  /\ \A n \in DOMAIN frames :
       /\ frames[n].id \in Ids
       /\ frames[n].text = lives[frames[n].id].text
       /\ DOMAIN frames[n].locals = Text[frames[n].text].locals
       /\ \A l \in DOMAIN frames[n].contexts : frames[n].contexts[l] \in 0 .. Len(functions)

TypeOK ==
  /\ FramesOK
  /\ \A k \in DOMAIN functions : functions[k].text \in Texts /\ functions[k].definer \in Ids
  /\ DOMAIN cells \subseteq (DOMAIN functions) \X Names
  /\ early \subseteq DOMAIN cells
  /\ raised \in {"", "NameError", "TypeError", "RuntimeError", "Error"}

\* A cell is open only while the frame whose variable it captured is on the
\* stack and still holds it as the context of that variable: Closure::get
\* never reads the locals of an interpreter that is gone, however the frame
\* was left, and every cell is frozen in time.
PointsIntoFrame ==
  \A c \in DOMAIN cells :
    cells[c].home # 0 =>
      \E n \in DOMAIN frames : /\ frames[n].id = cells[c].home
                               /\ c[2] \in DOMAIN frames[n].contexts
                               /\ frames[n].contexts[c[2]] = c[1]

\* The frame whose variable a name means inside of a function object: the
\* nearest one around its definition whose text has such a local variable.
Owner[k \in 0 .. MaxFunctions] ==
  [name \in Names |->
     IF k = 0 \/ k > Len(functions) THEN 0
     ELSE LET d == functions[k].definer
          IN  IF name \in Text[lives[d].text].locals THEN d ELSE Owner[lives[d].fn][name]]

\* A name in a function means the variable of the function around it in the
\* text, of the very call that made the function object: it is in the closure
\* however many functions lie between, and has the value that variable has
\* now, or had last, when its frame is gone.  Closures are not required to do
\* so once their cell was frozen while its frame went on, which happens when
\* the variable is deleted, and when another function captures it.
SeesVariable ==
  \A k \in DOMAIN functions :
    LET f == functions[k].text
    IN  \A name \in Text[f].named \ Text[f].locals :
          Owner[k][name] # 0 =>
            /\ name \in DOMAIN functions[k].closure
            /\ \/ functions[k].closure[name] \in early
               \/ Get(functions[k].closure[name]) = lives[Owner[k][name]].values[name]

\* Which arguments a function accepts, and what its variables hold at first:
\* a keyword goes before a position, a position before a default, defaults
\* belong to the last parameters, and what is left over is for the variadic
\* and the keyword parameter.
Given(T, c, i) == i <= Len(c.args) \/ T.args[i] \in DOMAIN c.named

Accepts(T, c) == /\ Len(c.args) <= Len(T.args) \/ T.vargs # ""
                 /\ DOMAIN c.named \subseteq Range(T.args) \/ T.kwargs # ""
                 /\ \A i \in DOMAIN T.args : Given(T, c, i) \/ i > Len(T.args) - Len(T.defaults)

Binds(T, c, values) ==
  LET n == Len(T.args)
  IN  /\ \A i \in 1 .. n :
           values[T.args[i]] = IF T.args[i] \in DOMAIN c.named THEN c.named[T.args[i]]
                               ELSE IF i <= Len(c.args) THEN c.args[i]
                               ELSE T.defaults[i - (n - Len(T.defaults))]
      /\ T.vargs # "" =>
           /\ values[T.vargs].k = "tuple"
           /\ Len(values[T.vargs].v) = IF Len(c.args) > n THEN Len(c.args) - n ELSE 0
           /\ \A i \in DOMAIN values[T.vargs].v : values[T.vargs].v[i] = c.args[n + i]
      /\ T.kwargs # "" =>
           values[T.kwargs] = Map([m \in {m \in DOMAIN c.named : \A i \in 1 .. n : T.args[i] # m} |-> c.named[m]])
      /\ \A l \in DOMAIN values \ (Range(T.args) \cup {T.vargs, T.kwargs}) : values[l] = Null

\* A call runs the function, with those values, exactly when the arguments
\* are accepted and the stack has room; otherwise nothing but the exception
\* comes of it.
CallsBind ==
  [][called' # NoCall =>
       LET T == Text[called'.text]
       IN  IF ~Accepts(T, called') THEN raised' = "TypeError" /\ frames' = frames
           ELSE IF Len(frames) = MaxRecursion THEN raised' = "RuntimeError" /\ frames' = frames
           ELSE /\ raised' = "" /\ Len(frames') = Len(frames) + 1
                /\ Last(frames').text = called'.text
                /\ Binds(T, called', Last(frames').locals)]_vars
=============================================================================
