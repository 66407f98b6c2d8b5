------------------------ MODULE FunctionCallsProofs ------------------------
(***************************************************************************)
(* Proofs about calls of functions, for every program, every limit on      *)
(* recursion, and however frames are left:                                 *)
(*                                                                         *)
(*   - an open cell of a closure always points into a frame that is on the *)
(*     stack (PointsIntoFrame);                                            *)
(*   - nothing refers to a frame, a function object or a cell that was     *)
(*     never made, and the stack keeps within its limit (TypeOK);          *)
(*   - a call binds its arguments as the reference definition says, or has *)
(*     no effect but its exception (CallsBind);                            *)
(*   - a name in a function means the variable of the function around it,  *)
(*     of the call that made the function object (SeesVariable).           *)
(*                                                                         *)
(* PointsInv is nearly inductive by itself: each action keeps a frame and  *)
(* its contexts, or freezes the cells of those it drops.  RefsInv, on top  *)
(* of it, is what every frame, function and cell refers to; that a call    *)
(* runs a function of the program, and so one with a proper signature,     *)
(* rests on it.  The rest of CallsBind is about the operators of invoke    *)
(* alone: the three passes over argv, and that count counts no parameter   *)
(* twice.  SeesInv, on top of both, links closures, frames and cells one   *)
(* step at a time; SeesVariable follows in one state, by induction on the  *)
(* age of the function object, down the chain of definitions.              *)
(***************************************************************************)
EXTENDS FunctionCalls, Lines

\* A frame is a record, and its contexts are those of its local variables.
IsFrame(f) ==
  /\ f = [id |-> f.id, text |-> f.text, names |-> f.names, locals |-> f.locals,
          contexts |-> f.contexts, top |-> f.top]
  /\ f.contexts = [l \in Text[f.text].locals |-> f.contexts[l]]

Shape(s) == /\ \E S : s \in Seq(S)
            /\ \A n \in 1 .. Len(s) : IsFrame(s[n])

\* Some frame of the stack s holds the cell c, made by the frame id.
HeldBy(s, id, c) == \E n \in 1 .. Len(s) : /\ s[n].id = id
                                           /\ c[2] \in DOMAIN s[n].contexts
                                           /\ s[n].contexts[c[2]] = c[1]

PointsInv == /\ Shape(frames)
             /\ \E S : functions \in Seq(S)
             /\ \A c \in DOMAIN cells : c = <<c[1], c[2]>> /\ c[1] # 0
             /\ \A c \in DOMAIN cells : cells[c].home # 0 => HeldBy(frames, cells[c].home, c)

\* Replacing the last frame of the stack leaves a stack of frames, and the
\* other ones as they are.
LEMMA ReplaceLast ==
  ASSUME NEW s, Shape(s), s # <<>>, NEW f, IsFrame(f),
         NEW t, t = [s EXCEPT ![Len(s)] = f]
  PROVE  /\ Shape(t)
         /\ Len(s) \in Nat \ {0} /\ Len(t) = Len(s)
         /\ t[Len(s)] = f
         /\ \A n \in 1 .. Len(s) - 1 : t[n] = s[n]
PROOF
<1>1. PICK S : s \in Seq(S)  BY DEF Shape
<1>2. s \in Seq(S \cup {f})  BY <1>1, SeqMonotonic
<1>3. Len(s) \in Nat \ {0}  BY <1>1, EmptySeq
<1>4. /\ t \in Seq(S \cup {f})
      /\ Len(t) = Len(s)
      /\ \A j \in 1 .. Len(s) : t[j] = IF j = Len(s) THEN f ELSE s[j]
  BY <1>2, <1>3, ExceptSeq
<1>5. t[Len(s)] = f /\ \A n \in 1 .. Len(s) - 1 : t[n] = s[n]
  <2> DEFINE len == Len(s)
  <2>1. len \in Nat \ {0} /\ \A j \in 1 .. len : t[j] = IF j = len THEN f ELSE s[j]
    BY <1>3, <1>4
  <2>. HIDE DEF len
  <2>2. t[len] = f /\ \A n \in 1 .. len - 1 : t[n] = s[n]
    BY <2>1
  <2>. QED BY <2>2 DEF len
<1>6. Shape(t)  BY <1>3, <1>4 DEF Shape
<1>. QED BY <1>3, <1>4, <1>5, <1>6

\* Taking the last frame off leaves the others as they are.
LEMMA DropLast ==
  ASSUME NEW s, Shape(s), s # <<>>
  PROVE  /\ Shape(Front(s))
         /\ Len(s) \in Nat \ {0}
         /\ Len(Front(s)) = Len(s) - 1
         /\ \A n \in 1 .. Len(s) - 1 : Front(s)[n] = s[n]
PROOF
<1>1. PICK S : s \in Seq(S)  BY DEF Shape
<1>2. Len(s) \in Nat \ {0}  BY <1>1, EmptySeq
<1>3. \A n \in 1 .. Len(s) - 1 : s[n] \in S  BY <1>1, <1>2, ElementOfSeq
<1> DEFINE len == Len(s)
           m == len - 1
<1>4. len \in Nat \ {0}  BY <1>2
<1>5. m \in Int /\ 1 \in Int /\ m - 1 + 1 = m /\ (1 <= m \/ m = 0)
  <2>. HIDE DEF len
  <2>. QED BY <1>4
<1>6. /\ SubSeq(s, 1, m) \in Seq(S)
      /\ Len(SubSeq(s, 1, m)) = IF 1 <= m THEN m - 1 + 1 ELSE 0
      /\ \A i \in 1 .. m - 1 + 1 : SubSeq(s, 1, m)[i] = s[1 + i - 1]
  <2>. HIDE DEF m
  <2>. QED BY <1>3, <1>5, SubSeqProperties DEF m
<1>7. /\ Front(s) \in Seq(S)
      /\ Len(Front(s)) = m
      /\ \A n \in 1 .. m : Front(s)[n] = s[n]
  BY <1>2, <1>5, <1>6 DEF Front
<1>. QED BY <1>2, <1>7 DEF Shape

\* A cell that a frame holds is still held when the last frame changes but
\* keeps the context of that variable.
LEMMA StillHeld ==
  ASSUME NEW s, Shape(s), s # <<>>, NEW f, IsFrame(f), f.id = s[Len(s)].id,
         NEW t, t = [s EXCEPT ![Len(s)] = f],
         NEW id, NEW c, HeldBy(s, id, c),
         /\ s[Len(s)].id = id
         /\ c[2] \in DOMAIN s[Len(s)].contexts
         /\ s[Len(s)].contexts[c[2]] = c[1]
         => c[2] \in DOMAIN f.contexts /\ f.contexts[c[2]] = c[1]
  PROVE  HeldBy(t, id, c)
PROOF
<1> DEFINE len == Len(s)
<1>1. /\ len \in Nat \ {0} /\ Len(t) = len
      /\ t[len] = f
      /\ \A n \in 1 .. len - 1 : t[n] = s[n]
  BY ReplaceLast
<1>2. PICK n \in 1 .. len : /\ s[n].id = id
                            /\ c[2] \in DOMAIN s[n].contexts
                            /\ s[n].contexts[c[2]] = c[1]
  BY DEF HeldBy
<1>3. CASE n = len
  BY <1>1, <1>2, <1>3 DEF HeldBy
<1>4. CASE n # len
  <2>. HIDE DEF len
  <2>1. n \in 1 .. len - 1  BY <1>1, <1>4
  <2>2. n \in 1 .. Len(t)  BY <1>1, <1>2
  <2>. QED BY <1>1, <1>2, <2>1, <2>2 DEF HeldBy
<1>. QED BY <1>3, <1>4

\* A step that only changes the last frame, and not its contexts.
LEMMA SameContexts ==
  ASSUME PointsInv, frames # <<>>, NEW f, IsFrame(f),
         f.id = Top.id, f.contexts = Top.contexts, Becomes(f),
         UNCHANGED <<cells, functions>>
  PROVE  PointsInv'
PROOF
<1>1. Shape(frames')  BY ReplaceLast DEF PointsInv, Becomes
<1>2. ASSUME NEW c \in DOMAIN cells, cells[c].home # 0
      PROVE  HeldBy(frames', cells[c].home, c)
  BY <1>2, StillHeld DEF PointsInv, Becomes, Top, Last
<1>. QED BY <1>1, <1>2 DEF PointsInv, Shape, HeldBy

\* A step that ends the last frame, and freezes what it holds.
LEMMA LeaveKeeps ==
  ASSUME PointsInv, frames # <<>>, cells' = Frozen(Held(Top, Locals), Top),
         NEW rest, rest = Front(frames)
  PROVE  /\ \A c \in DOMAIN cells' : c = <<c[1], c[2]>> /\ c[1] # 0
         /\ \A c \in DOMAIN cells' : cells'[c].home # 0 => HeldBy(rest, cells'[c].home, c)
PROOF
<1> DEFINE len == Len(frames)
<1>1. /\ len \in Nat \ {0} /\ Len(rest) = len - 1
      /\ \A n \in 1 .. len - 1 : rest[n] = frames[n]
  BY DropLast DEF PointsInv
<1>2. DOMAIN cells' = DOMAIN cells  BY DEF Frozen
<1>3. ASSUME NEW c \in DOMAIN cells, cells'[c].home # 0
      PROVE  HeldBy(rest, cells'[c].home, c)
  <2>1. c \notin Held(Top, Locals) /\ cells'[c] = cells[c]
    BY <1>3 DEF Frozen
  <2>2. PICK n \in 1 .. len : /\ frames[n].id = cells[c].home
                              /\ c[2] \in DOMAIN frames[n].contexts
                              /\ frames[n].contexts[c[2]] = c[1]
    BY <1>3, <2>1 DEF PointsInv, HeldBy
  <2>3. n # len
    <3>1. SUFFICES ASSUME n = len PROVE FALSE  OBVIOUS
    <3>2. c[2] \in Locals
      BY <1>1, <2>2, <3>1 DEF PointsInv, Shape, IsFrame, Top, Last, Locals
    <3>3. Top.contexts[c[2]] = c[1] /\ c = <<c[1], c[2]>> /\ c[1] # 0
      BY <2>2, <3>1 DEF Top, Last, PointsInv
    <3>. QED BY <2>1, <3>2, <3>3 DEF Held
  <2>4. n \in 1 .. len - 1 /\ n \in 1 .. Len(rest)
    <3>. HIDE DEF len
    <3>. QED BY <1>1, <2>2, <2>3
  <2>. QED BY <1>1, <2>1, <2>2, <2>4 DEF HeldBy
<1>. QED BY <1>2, <1>3 DEF PointsInv

\* The invariant holds of every behaviour.
THEOREM CellsPointIntoFrames == Spec => []PointsInv
PROOF
<1>1. Init => PointsInv
  <2> SUFFICES ASSUME Init PROVE PointsInv  OBVIOUS
  <2>1. PICK m \in Mains : frames = <<NewFrame(1, m, <<>>, NoLocals(m))>>
    BY DEF Init
  <2>2. IsFrame(NewFrame(1, m, <<>>, NoLocals(m)))
    BY DEF IsFrame, NewFrame
  <2>3. frames \in Seq({NewFrame(1, m, <<>>, NoLocals(m))})
    BY <2>1
  <2>4. \A n \in 1 .. Len(frames) : frames[n] = NewFrame(1, m, <<>>, NoLocals(m))
    BY <2>1
  <2>5. Shape(frames)
    BY <2>2, <2>3, <2>4 DEF Shape
  <2>6. DOMAIN cells = {} /\ functions \in Seq({})
    <3>1. /\ << >> \in Seq({})
          /\ Len(<< >>) = 0
      BY EmptySeq
    <3>2. DOMAIN << >> = 1 .. 0
      BY <3>1, LenProperties
    <3>3. 1 .. 0 = {}  OBVIOUS
    <3>4. cells = << >> /\ functions = << >>  BY DEF Init
    <3>. QED BY <3>1, <3>2, <3>3, <3>4, Zenon
  <2>. QED BY <2>5, <2>6 DEF PointsInv
<1>2. PointsInv /\ [Next]_vars => PointsInv'
  <2> SUFFICES ASSUME PointsInv, [Next]_vars PROVE PointsInv'  OBVIOUS
  <2>0. frames # <<>> => /\ IsFrame(Top)
                         /\ Locals = DOMAIN Top.contexts
    <3> SUFFICES ASSUME frames # <<>> PROVE IsFrame(Top) /\ Locals = DOMAIN Top.contexts
      OBVIOUS
    <3>1. Len(frames) \in Nat \ {0}  BY DropLast DEF PointsInv
    <3>2. IsFrame(Top)  BY <3>1 DEF PointsInv, Shape, Top, Last
    <3>. QED BY <3>2 DEF IsFrame, Locals
  <2>1. ASSUME frames # <<>>, NEW v, Push(v), UNCHANGED <<cells, functions>>
        PROVE  PointsInv'
    <3> DEFINE f == [Top EXCEPT !.top = v]
    <3>1. IsFrame(f) /\ f.id = Top.id /\ f.contexts = Top.contexts
      BY <2>0, <2>1 DEF IsFrame
    <3>2. Becomes(f)  BY <2>1 DEF Push
    <3>. HIDE DEF f
    <3>. QED BY <2>1, <3>1, <3>2, SameContexts
  <2>2. CASE LoadConst
    BY <2>1, <2>2 DEF LoadConst, Runs
  <2>3. CASE Load
    <3>1. CASE UNCHANGED frames
      BY <2>3, <3>1 DEF Load, PointsInv, Shape, HeldBy
    <3>2. CASE ~ UNCHANGED frames
      BY <2>1, <2>3, <3>2 DEF Load, Runs, Throw
    <3>. QED BY <3>1, <3>2
  <2>4. CASE Store
    <3>1. PICK name \in Locals : Becomes([Top EXCEPT !.locals[name] = Top.top, !.top = Null])
      BY <2>4 DEF Store
    <3> DEFINE f == [Top EXCEPT !.locals[name] = Top.top, !.top = Null]
    <3>2. frames # <<>> /\ UNCHANGED <<cells, functions>>
      BY <2>4 DEF Store, Runs
    <3>3. IsFrame(f) /\ f.id = Top.id /\ f.contexts = Top.contexts
      <4>1. f = [[Top EXCEPT !.locals[name] = Top.top] EXCEPT !.top = Null]
        OBVIOUS
      <4> DEFINE g == [Top EXCEPT !.locals[name] = Top.top]
      <4>2. IsFrame(g) /\ g.id = Top.id /\ g.contexts = Top.contexts
        BY <2>0, <3>2 DEF IsFrame
      <4>. HIDE DEF g, f
      <4>3. f = [g EXCEPT !.top = Null]
        BY <4>1 DEF f, g
      <4>. QED BY <4>2, <4>3 DEF IsFrame
    <3>. HIDE DEF f
    <3>. QED BY <3>1, <3>2, <3>3, SameContexts DEF f
  <2>5. CASE Delete
    <3>1. frames # <<>> /\ UNCHANGED functions
      BY <2>5 DEF Delete, Runs
    <3>2. PICK name \in Locals :
             IF Top.locals[name] = Null
             THEN UNCHANGED <<frames, cells>>
             ELSE LET kept == [Top EXCEPT !.locals[name] = Null, !.contexts[name] = 0]
                  IN  Becomes(kept) /\ cells' = Frozen(Held(Top, {name}), kept)
      BY <2>5 DEF Delete, Throw
    <3>3. CASE Top.locals[name] = Null
      BY <3>1, <3>2, <3>3 DEF PointsInv, Shape, HeldBy
    <3>4. CASE Top.locals[name] # Null
      <4> DEFINE g == [Top EXCEPT !.locals[name] = Null]
                 f == [Top EXCEPT !.locals[name] = Null, !.contexts[name] = 0]
      <4>1. f = [g EXCEPT !.contexts[name] = 0]
        OBVIOUS
      <4>2. IsFrame(g) /\ g.id = Top.id /\ g.text = Top.text /\ g.contexts = Top.contexts
        BY <2>0, <3>1 DEF IsFrame
      <4>3. Becomes(f) /\ cells' = Frozen(Held(Top, {name}), f)
        BY <3>2, <3>4
      <4>. HIDE DEF f, g
      <4>4. f.id = Top.id /\ f.contexts = [g.contexts EXCEPT ![name] = 0] /\ f.text = Top.text
        BY <4>1, <4>2 DEF IsFrame
      <4>5. f = [id |-> f.id, text |-> f.text, names |-> f.names, locals |-> f.locals,
                 contexts |-> f.contexts, top |-> f.top]
        BY <4>1, <4>2 DEF IsFrame
      <4>6. f.contexts = [l \in Locals |-> IF l = name THEN 0 ELSE Top.contexts[l]]
        BY <2>0, <3>1, <4>2, <4>4 DEF IsFrame, Locals
      <4>7. IsFrame(f)
        BY <4>4, <4>5, <4>6 DEF IsFrame, Locals
      <4>8. Shape(frames')
        BY <3>1, <4>3, <4>7, ReplaceLast DEF PointsInv, Becomes
      <4>9. ASSUME NEW c \in DOMAIN cells, cells'[c].home # 0
            PROVE  HeldBy(frames', cells'[c].home, c)
        <5>1. c \notin Held(Top, {name}) /\ cells'[c] = cells[c]
          BY <4>3, <4>9 DEF Frozen
        <5>2. c = <<c[1], c[2]>> /\ c[1] # 0
          BY DEF PointsInv
        <5>3. c[2] = name => Top.contexts[c[2]] # c[1]
          BY <5>1, <5>2 DEF Held
        <5>4. HeldBy(frames, cells[c].home, c)
          BY <4>9, <5>1 DEF PointsInv
        <5>5. c[2] \in Locals /\ Top.contexts[c[2]] = c[1] => f.contexts[c[2]] = c[1]
          BY <4>6, <5>3
        <5>6. Top = frames[Len(frames)] /\ Locals = DOMAIN Top.contexts /\ Locals = DOMAIN f.contexts
          BY <2>0, <3>1, <4>6 DEF Top, Last
        <5>7. frames' = [frames EXCEPT ![Len(frames)] = f] /\ Shape(frames)
          BY <4>3 DEF Becomes, PointsInv
        <5>. QED BY <3>1, <4>4, <4>7, <5>1, <5>4, <5>5, <5>6, <5>7, StillHeld
      <4>10. DOMAIN cells' = DOMAIN cells
        BY <4>3 DEF Frozen
      <4>. QED BY <3>1, <4>8, <4>9, <4>10 DEF PointsInv
    <3>. QED BY <3>3, <3>4
  <2>6. CASE MakeFunction
    <3> DEFINE k == Len(functions) + 1
    <3>1. PICK g \in Text[Top.text].inner :
            /\ functions' = Append(functions, [text |-> g, closure |-> Closure(g), definer |-> Top.id])
            /\ cells' = [c \in {<<k, n>> : n \in Captured(g)} \cup DOMAIN cells |->
                           IF c \in {<<k, n>> : n \in Captured(g)} THEN [home |-> Top.id, object |-> Null]
                           ELSE Frozen(Held(Top, Captured(g)), Top)[c]]
            /\ Becomes([Top EXCEPT !.top = Fn(k),
                          !.contexts = [l \in Locals |-> IF l \in Captured(g) THEN k ELSE @[l]]])
      BY <2>6 DEF MakeFunction
    <3> DEFINE new == {<<k, n>> : n \in Captured(g)}
               old == Frozen(Held(Top, Captured(g)), Top)
               f == [Top EXCEPT !.top = Fn(k),
                       !.contexts = [l \in Locals |-> IF l \in Captured(g) THEN k ELSE @[l]]]
    <3>2. frames # <<>>  BY <2>6 DEF MakeFunction, Runs
    <3>3. PICK S : functions \in Seq(S)  BY DEF PointsInv
    <3>4. k # 0
      <4>1. Len(functions) \in Nat  BY <3>3, LenProperties
      <4>. QED BY <4>1
    <3>5. \E T : functions' \in Seq(T)
      <4> DEFINE e == [text |-> g, closure |-> Closure(g), definer |-> Top.id]
      <4>1. functions \in Seq(S \cup {e})  BY <3>3, SeqMonotonic
      <4>. HIDE DEF e
      <4>2. Append(functions, e) \in Seq(S \cup {e})  BY <4>1, AppendProperties
      <4>. QED BY <3>1, <4>2 DEF e
    <3>6. /\ DOMAIN cells' = new \cup DOMAIN cells
          /\ \A c \in new : cells'[c].home = Top.id
          /\ \A c \in DOMAIN cells \ new : cells'[c] = old[c]
      BY <3>1
    <3>7. Becomes(f)  BY <3>1
    <3>. HIDE DEF k
    <3>8. f = [id |-> Top.id, text |-> Top.text, names |-> Top.names, locals |-> Top.locals,
               contexts |-> [l \in Locals |-> IF l \in Captured(g) THEN k ELSE Top.contexts[l]],
               top |-> Fn(k)]
      <4> DEFINE h == [Top EXCEPT !.top = Fn(k)]
      <4>1. h = [id |-> Top.id, text |-> Top.text, names |-> Top.names, locals |-> Top.locals,
                 contexts |-> Top.contexts, top |-> Fn(k)]
        BY <2>0, <3>2 DEF IsFrame
      <4>2. f = [h EXCEPT !.contexts = [l \in Locals |-> IF l \in Captured(g) THEN k ELSE Top.contexts[l]]]
        BY <4>1
      <4>. HIDE DEF h, f
      <4>. QED BY <4>1, <4>2
    <3>. HIDE DEF f
    <3>9. IsFrame(f) /\ f.id = Top.id
      BY <3>8 DEF IsFrame, Locals
    <3>10. f.contexts = [l \in Locals |-> IF l \in Captured(g) THEN k ELSE Top.contexts[l]]
      BY <3>8
    <3>11. /\ Shape(frames') /\ Len(frames) \in Nat \ {0} /\ Len(frames') = Len(frames)
           /\ frames'[Len(frames)] = f
      <4>1. Shape(frames) /\ frames' = [frames EXCEPT ![Len(frames)] = f]
        BY <3>7 DEF PointsInv, Becomes
      <4> DEFINE t == [frames EXCEPT ![Len(frames)] = f]
      <4>2. Shape(t)  BY <3>2, <3>9, <4>1, ReplaceLast
      <4>3. Len(frames) \in Nat \ {0} /\ Len(t) = Len(frames)  BY <3>2, <3>9, <4>1, ReplaceLast
      <4>4. t[Len(frames)] = f  BY <3>2, <3>9, <4>1, ReplaceLast
      <4>. HIDE DEF t
      <4>. QED BY <4>1, <4>2, <4>3, <4>4 DEF t
    <3>12. ASSUME NEW c \in new PROVE c = <<c[1], c[2]>> /\ c[1] # 0 /\ HeldBy(frames', Top.id, c)
      <4>1. PICK n \in Captured(g) : c = <<k, n>>  OBVIOUS
      <4>2. c[1] = k /\ c[2] = n /\ n \in Locals  BY <4>1 DEF Captured
      <4>3. n \in DOMAIN f.contexts /\ f.contexts[n] = k  BY <3>10, <4>1, <4>2
      <4>. QED BY <3>4, <3>9, <3>11, <4>1, <4>2, <4>3 DEF HeldBy
    <3>13. ASSUME NEW c \in DOMAIN cells \ new, cells'[c].home # 0
           PROVE  HeldBy(frames', cells'[c].home, c)
      <4>1. c \notin Held(Top, Captured(g)) /\ cells'[c] = cells[c]
        BY <3>6, <3>13 DEF Frozen
      <4>2. c = <<c[1], c[2]>> /\ c[1] # 0  BY DEF PointsInv
      <4>3. c[2] \in Captured(g) => Top.contexts[c[2]] # c[1]
        BY <4>1, <4>2 DEF Held
      <4>4. HeldBy(frames, cells[c].home, c)
        BY <3>13, <4>1 DEF PointsInv
      <4>5. c[2] \in Locals /\ Top.contexts[c[2]] = c[1] => f.contexts[c[2]] = c[1]
        BY <3>10, <4>3
      <4>6. Top = frames[Len(frames)] /\ Locals = DOMAIN Top.contexts /\ Locals = DOMAIN f.contexts
        BY <2>0, <3>2, <3>10 DEF Top, Last
      <4>7. frames' = [frames EXCEPT ![Len(frames)] = f] /\ Shape(frames)
        BY <3>7 DEF Becomes, PointsInv
      <4>. QED BY <3>2, <3>9, <4>1, <4>4, <4>5, <4>6, <4>7, StillHeld
    <3>. QED BY <3>5, <3>6, <3>11, <3>12, <3>13 DEF PointsInv
  <2>7. CASE Invoke
    <3>1. frames # <<>> /\ UNCHANGED <<functions, cells>>  BY <2>7 DEF Invoke
    <3>2. CASE UNCHANGED frames
      BY <3>1, <3>2 DEF PointsInv, Shape, HeldBy
    <3>3. CASE ~ UNCHANGED frames
      <4>1. PICK id, g, names, locals :
              frames' = Append([frames EXCEPT ![Len(frames)].top = Null], NewFrame(id, g, names, locals))
        BY <2>7, <3>3 DEF Invoke, Throw
      <4> DEFINE f == [Top EXCEPT !.top = Null]
                 s == [frames EXCEPT ![Len(frames)] = f]
                 e == NewFrame(id, g, names, locals)
      <4>2. IsFrame(f) /\ f.id = Top.id /\ f.contexts = Top.contexts
        BY <2>0, <3>1 DEF IsFrame
      <4>3. IsFrame(e)  BY DEF IsFrame, NewFrame
      <4>4. frames' = Append(s, e)  BY <4>1 DEF Top, Last
      <4>. HIDE DEF f, e
      <4>5. Shape(s)  BY <3>1, <4>2, ReplaceLast DEF PointsInv
      <4>6. \A c \in DOMAIN cells : cells[c].home # 0 => HeldBy(s, cells[c].home, c)
        BY <3>1, <4>2, StillHeld DEF PointsInv, Top, Last
      <4>. HIDE DEF s
      <4>7. PICK S : s \in Seq(S)  BY <4>5 DEF Shape
      <4>8. s \in Seq(S \cup {e})  BY <4>7, SeqMonotonic
      <4> DEFINE len == Len(s)
      <4>9. /\ frames' \in Seq(S \cup {e})
            /\ Len(frames') = len + 1
            /\ \A n \in 1 .. len : frames'[n] = s[n]
            /\ frames'[len + 1] = e
            /\ len \in Nat
        BY <4>4, <4>8, AppendProperties, LenProperties
      <4>10. \A n \in 1 .. len : IsFrame(s[n])  BY <4>5 DEF Shape
      <4>11. \A n \in 1 .. Len(frames') : n \in 1 .. len \/ n = len + 1
        <5>. HIDE DEF len
        <5>. QED BY <4>9
      <4>12. \A n \in 1 .. len : n \in 1 .. Len(frames')
        <5>. HIDE DEF len
        <5>. QED BY <4>9
      <4>13. Shape(frames')
        BY <4>3, <4>9, <4>10, <4>11 DEF Shape
      <4>14. \A c \in DOMAIN cells : cells[c].home # 0 => HeldBy(frames', cells[c].home, c)
        BY <4>6, <4>9, <4>12 DEF HeldBy
      <4>. QED BY <3>1, <4>13, <4>14 DEF PointsInv
    <3>. QED BY <3>2, <3>3
  <2>8. CASE Raise
    BY <2>8 DEF Raise, Throw, PointsInv, Shape, HeldBy
  <2>9. CASE Return
    <3> DEFINE s == Front(frames)
               result == IF Top.top = Null THEN Nothing ELSE Top.top
               n == Len(frames) - 1
    <3>1. /\ frames # <<>> /\ functions' = functions
          /\ frames' = IF n = 0 THEN <<>> ELSE [s EXCEPT ![n].top = result]
          /\ cells' = Frozen(Held(Top, Locals), Top)
      BY <2>9 DEF Return, Runs, Leave
    <3>2. Shape(s) /\ Len(s) = n /\ \A c \in DOMAIN cells' : c = <<c[1], c[2]>> /\ c[1] # 0
      BY <3>1, DropLast, LeaveKeeps DEF PointsInv
    <3>3. \A c \in DOMAIN cells' : cells'[c].home # 0 => HeldBy(s, cells'[c].home, c)
      BY <3>1, LeaveKeeps
    <3>. HIDE DEF s, n, result
    <3>4. CASE n = 0
      <4>1. Len(s) = 0  BY <3>2, <3>4
      <4>2. \A c \in DOMAIN cells' : cells'[c].home = 0
        BY <3>3, <4>1 DEF HeldBy
      <4>3. Len(<<>>) = 0 /\ << >> \in Seq({})  BY EmptySeq
      <4>4. Shape(<<>>)  BY <4>3 DEF Shape
      <4>. QED BY <3>1, <3>2, <3>4, <4>2, <4>4 DEF PointsInv
    <3>5. CASE n # 0
      <4>1. s # <<>>
        <5>1. Len(<<>>) = 0  BY EmptySeq
        <5>. QED BY <3>2, <3>5, <5>1
      <4>2. n \in Nat \ {0}  BY <3>2, <4>1, DropLast
      <4>3. IsFrame(s[n])  BY <3>2, <4>2 DEF Shape
      <4> DEFINE f == [s[n] EXCEPT !.top = result]
      <4>4. IsFrame(f) /\ f.id = s[n].id /\ f.contexts = s[n].contexts
        BY <4>3 DEF IsFrame
      <4>5. frames' = [s EXCEPT ![Len(s)] = f]  BY <3>1, <3>2, <3>5
      <4>. HIDE DEF f
      <4>6. Shape(frames')  BY <3>2, <4>1, <4>4, <4>5, ReplaceLast
      <4>7. \A c \in DOMAIN cells' : cells'[c].home # 0 => HeldBy(frames', cells'[c].home, c)
        BY <3>2, <3>3, <4>1, <4>4, <4>5, StillHeld
      <4>. QED BY <3>1, <3>2, <4>6, <4>7 DEF PointsInv
    <3>. QED BY <3>4, <3>5
  <2>10. CASE Unwind
    <3>1. /\ frames # <<>>
          /\ frames' = Front(frames)
          /\ cells' = Frozen(Held(Top, Locals), Top)
          /\ functions' = functions
      BY <2>10 DEF Unwind, Handles, Leave
    <3>2. Shape(frames')
      BY <3>1, DropLast DEF PointsInv
    <3>. QED BY <3>1, <3>2, LeaveKeeps DEF PointsInv
  <2>11. CASE Catch
    BY <2>1, <2>11 DEF Catch, Handles
  <2>12. CASE UNCHANGED vars
    BY <2>12 DEF vars, PointsInv, Shape, HeldBy
  <2>. QED BY <2>2, <2>3, <2>4, <2>5, <2>6, <2>7, <2>8, <2>9, <2>10, <2>11, <2>12 DEF Next
<1>. QED BY <1>1, <1>2, PTL DEF Spec

\* No closure ever reads the locals of a frame that is gone.
THEOREM NoDanglingCell == Spec => []PointsIntoFrame
PROOF
<1>1. PointsInv => PointsIntoFrame
  <2> SUFFICES ASSUME PointsInv, NEW c \in DOMAIN cells, cells[c].home # 0
               PROVE  \E n \in DOMAIN frames : /\ frames[n].id = cells[c].home
                                               /\ c[2] \in DOMAIN frames[n].contexts
                                               /\ frames[n].contexts[c[2]] = c[1]
    BY DEF PointsIntoFrame
  <2>1. PICK S : frames \in Seq(S)  BY DEF PointsInv, Shape
  <2>2. DOMAIN frames = 1 .. Len(frames)  BY <2>1, LenProperties
  <2>. QED BY <2>2 DEF PointsInv, HeldBy
<1>. QED BY <1>1, CellsPointIntoFrames, PTL

-----------------------------------------------------------------------------
(* The binding of arguments, for every signature and every call. *)

Signature(T) == /\ T.args \in Seq(T.locals) /\ DistinctParameters(T)
                /\ {T.vargs, T.kwargs} \subseteq T.locals \cup {""}
                /\ IsSequence(T.defaults) /\ Len(T.defaults) <= Len(T.args)

Passes(c) == /\ IsSequence(c.args) /\ \A i \in DOMAIN c.args : IsData(c.args[i])
             /\ \A n \in DOMAIN c.named : IsData(c.named[n])

\* The lengths, and what the three passes find in argv.
LEMMA Passed3 ==
  ASSUME NEW T, Signature(T), NEW c, Passes(c)
  PROVE  /\ Len(T.args) \in Nat /\ DOMAIN T.args = 1 .. Len(T.args)
         /\ Len(c.args) \in Nat /\ DOMAIN c.args = 1 .. Len(c.args)
         /\ Len(T.defaults) \in Nat /\ First(T) \in Nat /\ First(T) <= Len(T.args)
         /\ \A i \in DOMAIN T.args :
              /\ Positional(T, c)[i] = IF i <= Len(c.args) THEN c.args[i] ELSE Null
              /\ Positional(T, c)[i] = Null <=> ~(i <= Len(c.args))
              /\ Named(T, c)[i] = IF T.args[i] \in DOMAIN c.named THEN c.named[T.args[i]]
                                  ELSE Positional(T, c)[i]
              /\ Named(T, c)[i] = Null <=> ~Given(T, c, i)
<1>1. /\ Len(T.args) \in Nat /\ DOMAIN T.args = 1 .. Len(T.args)
      /\ Len(c.args) \in Nat /\ DOMAIN c.args = 1 .. Len(c.args)
      /\ Len(T.defaults) \in Nat
  BY LenProperties, Zenon DEF Signature, Passes, IsSequence
<1>2. First(T) \in Nat /\ First(T) <= Len(T.args)
  <2> DEFINE a == Len(T.args)
             d == Len(T.defaults)
  <2>1. a \in Nat /\ d \in Nat /\ d <= a
    BY <1>1, Zenon DEF Signature
  <2> HIDE DEF a, d
  <2>2. a - d \in Nat /\ a - d <= a
    BY <2>1
  <2> QED
    BY <2>2 DEF First, a, d
<1>3. ASSUME NEW x, IsData(x) PROVE x # Null
  <2>1. x.k # "none"
    BY <1>3 DEF IsData
  <2>2. Null.k = "none"
    BY DEF Null
  <2> QED
    BY <2>1, <2>2
<1>4. ASSUME NEW i \in DOMAIN T.args
      PROVE  /\ Positional(T, c)[i] = IF i <= Len(c.args) THEN c.args[i] ELSE Null
             /\ Positional(T, c)[i] = Null <=> ~(i <= Len(c.args))
  <2>1. Positional(T, c)[i] = IF i <= Len(c.args) THEN c.args[i] ELSE Null
    BY DEF Positional
  <2>2. i <= Len(c.args) => i \in DOMAIN c.args
    BY <1>1
  <2> QED
    BY <1>3, <2>1, <2>2 DEF Passes
<1>5. ASSUME NEW i \in DOMAIN T.args
      PROVE  /\ Named(T, c)[i] = IF T.args[i] \in DOMAIN c.named THEN c.named[T.args[i]]
                                 ELSE Positional(T, c)[i]
             /\ Named(T, c)[i] = Null <=> ~Given(T, c, i)
  <2>1. Named(T, c)[i] = IF T.args[i] \in DOMAIN c.named THEN c.named[T.args[i]]
                         ELSE Positional(T, c)[i]
    BY DEF Named
  <2> QED
    BY <1>3, <1>4, <2>1 DEF Passes, Given
<1> QED
  BY <1>1, <1>2, <1>4, <1>5

\* The variable count is the number of parameters that get something: none is
\* counted twice.
LEMMA CountIs ==
  ASSUME NEW T, Signature(T), NEW c, Passes(c)
  PROVE  Count(T, c) < Len(T.args) <=> \E i \in DOMAIN T.args : ~Given(T, c, i) /\ i <= First(T)
<1> DEFINE D == DOMAIN T.args
           P == {i \in D : i <= Len(c.args)}
           M == {i \in D : T.args[i] \in DOMAIN c.named /\ Positional(T, c)[i] = Null}
           F == {i \in D : Named(T, c)[i] = Null /\ i > First(T)}
           n == Len(T.args)
<1>1. n \in Nat /\ D = 1 .. n /\ First(T) \in Nat /\ Len(c.args) \in Nat
  BY Passed3
<1>2. IsFiniteSet(D) /\ Cardinality(D) = n
  <2> HIDE DEF n
  <2>1. n \in Int /\ 1 \in Int
    BY <1>1
  <2>2. IsFiniteSet(1 .. n) /\ Cardinality(1 .. n) = IF 1 > n THEN 0 ELSE n - 1 + 1
    BY <2>1, FS_Interval
  <2>3. Cardinality(1 .. n) = n
    BY <1>1, <2>2
  <2> QED
    BY <1>1, <2>2, <2>3
<1>3. P \in SUBSET D /\ M \in SUBSET D /\ F \in SUBSET D
  OBVIOUS
<1>4. \A i \in D : /\ i \in P <=> i <= Len(c.args)
                   /\ i \in M <=> T.args[i] \in DOMAIN c.named /\ ~(i <= Len(c.args))
                   /\ i \in F <=> ~Given(T, c, i) /\ i > First(T)
  BY Passed3
<1>5. P \cap M = {} /\ (P \cup M) \cap F = {}
  BY <1>3, <1>4 DEF Given
<1>6. \A i \in D : i \in (P \cup M) \cup F <=> Given(T, c, i) \/ i > First(T)
  BY <1>4 DEF Given
<1>7. Count(T, c) = Cardinality(P) + Cardinality(M) + Cardinality(F)
  BY DEF Count, Adds
<1> HIDE DEF P, M, F, D, n
<1>8. Cardinality((P \cup M) \cup F) = Cardinality(P) + Cardinality(M) + Cardinality(F)
  <2>1. /\ IsFiniteSet(P) /\ IsFiniteSet(M) /\ IsFiniteSet(F) /\ IsFiniteSet(P \cup M)
        /\ Cardinality(P) \in Nat /\ Cardinality(M) \in Nat /\ Cardinality(F) \in Nat
        /\ Cardinality(P \cup M) \in Nat
    <3>1. IsFiniteSet(P) /\ IsFiniteSet(M) /\ IsFiniteSet(F)
      BY <1>2, <1>3, FS_Subset
    <3>2. IsFiniteSet(P \cup M)
      BY <3>1, FS_Union
    <3> QED
      BY <3>1, <3>2, FS_CardinalityType
  <2>2. Cardinality(P \cap M) = 0 /\ Cardinality((P \cup M) \cap F) = 0
    BY <1>5, FS_EmptySet
  <2>3. Cardinality(P \cup M) = Cardinality(P) + Cardinality(M) - Cardinality(P \cap M)
    BY <2>1, FS_Union
  <2>4. Cardinality((P \cup M) \cup F)
        = Cardinality(P \cup M) + Cardinality(F) - Cardinality((P \cup M) \cap F)
    BY <2>1, FS_Union
  <2> DEFINE a == Cardinality(P)
             b == Cardinality(M)
             e == Cardinality(F)
             ab == Cardinality(P \cup M)
  <2>5. a \in Nat /\ b \in Nat /\ e \in Nat /\ ab = a + b - 0
        /\ Cardinality((P \cup M) \cup F) = ab + e - 0
    BY <2>1, <2>2, <2>3, <2>4
  <2> HIDE DEF a, b, e, ab
  <2>6. Cardinality((P \cup M) \cup F) = a + b + e
    BY <2>5
  <2> QED
    BY <2>6 DEF a, b, e
<1>9. (P \cup M) \cup F \in SUBSET D
  BY <1>3
<1> DEFINE all == (P \cup M) \cup F
<1> HIDE DEF all
<1>10. Cardinality(all) <= n /\ Cardinality(all) \in Nat /\ (Cardinality(all) = n <=> all = D)
  BY <1>2, <1>9, FS_Subset, FS_CardinalityType DEF all
<1>11. Count(T, c) < n <=> all # D
  BY <1>1, <1>7, <1>8, <1>10 DEF all
<1>12. all # D <=> \E i \in D : i \notin all
  BY <1>9 DEF all
<1>13. \A i \in D : i \notin all <=> ~Given(T, c, i) /\ i <= First(T)
  <2>1. \A i \in D : i \in Int
    BY <1>1
  <2> QED
    BY <1>1, <1>6, <2>1 DEF all
<1>14. Count(T, c) < n <=> \E i \in D : ~Given(T, c, i) /\ i <= First(T)
  BY <1>11, <1>12, <1>13
<1> QED
  BY <1>14 DEF D, n

LEMMA RefusedIs ==
  ASSUME NEW T, Signature(T), NEW c, Passes(c)
  PROVE  Refused(T, c) <=> ~Accepts(T, c)
<1>1. \A i \in DOMAIN T.args : Given(T, c, i) \/ i > First(T) <=> ~(~Given(T, c, i) /\ i <= First(T))
  <2>1. First(T) \in Int /\ \A i \in DOMAIN T.args : i \in Int
    BY Passed3
  <2> QED
    BY <2>1
<1>2. DOMAIN Extra(T, c) = DOMAIN c.named \ Range(T.args)
  BY DEF Extra
<1>3. Count(T, c) < Len(T.args) <=> \E i \in DOMAIN T.args : ~Given(T, c, i) /\ i <= First(T)
  BY CountIs
<1>4. (\A i \in DOMAIN T.args : Given(T, c, i) \/ i > First(T)) <=> ~(Count(T, c) < Len(T.args))
  BY <1>1, <1>3
<1>5. (DOMAIN c.named \subseteq Range(T.args)) <=> ~(DOMAIN Extra(T, c) # {})
  BY <1>2
<1>6. (Len(c.args) <= Len(T.args)) <=> ~(Len(c.args) > Len(T.args))
  <2>1. Len(c.args) \in Int /\ Len(T.args) \in Int
    BY Passed3
  <2> QED
    BY <2>1
<1>7. Accepts(T, c) <=> /\ Len(c.args) <= Len(T.args) \/ T.vargs # ""
                        /\ DOMAIN c.named \subseteq Range(T.args) \/ T.kwargs # ""
                        /\ \A i \in DOMAIN T.args : Given(T, c, i) \/ i > First(T)
  BY DEF Accepts, First
<1>8. Refused(T, c) <=> \/ T.vargs = "" /\ Len(c.args) > Len(T.args)
                        \/ T.kwargs = "" /\ DOMAIN Extra(T, c) # {}
                        \/ Count(T, c) < Len(T.args)
  BY DEF Refused
<1> QED
  BY <1>4, <1>5, <1>6, <1>7, <1>8, Zenon

\* The place of a parameter is the one it has in the signature.
LEMMA PlaceIs ==
  ASSUME NEW T, Signature(T), NEW i \in DOMAIN T.args
  PROVE  (CHOOSE j \in DOMAIN T.args : T.args[j] = T.args[i]) = i
<1> DEFINE j == CHOOSE j \in DOMAIN T.args : T.args[j] = T.args[i]
<1>1. j \in DOMAIN T.args /\ T.args[j] = T.args[i]
  OBVIOUS
<1> HIDE DEF j
<1>2. \A a, b \in DOMAIN T.args : T.args[a] = T.args[b] => a = b
  BY DEF Signature, DistinctParameters
<1>3. j = i
  BY <1>1, <1>2
<1> QED
  BY <1>3 DEF j

\* What the local variables hold when a call is accepted.
LEMMA LocalsAre ==
  ASSUME NEW f, Signature(Text[f]), NEW c
  PROVE  /\ DOMAIN Bound(f, c) = Text[f].locals
         /\ \A i \in DOMAIN Text[f].args :
              Bound(f, c)[Text[f].args[i]] = Defaulted(Text[f], c)[i]
         /\ Text[f].vargs # "" =>
              Bound(f, c)[Text[f].vargs] = Tuple(SubSeq(c.args, Len(Text[f].args) + 1, Len(c.args)))
         /\ Text[f].kwargs # "" =>
              Bound(f, c)[Text[f].kwargs] = Map(Extra(Text[f], c))
         /\ \A l \in Text[f].locals \ (Range(Text[f].args) \cup {Text[f].vargs, Text[f].kwargs}) :
              Bound(f, c)[l] = Null
<1> DEFINE T        == Text[f]
           Place(l) == CHOOSE i \in DOMAIN T.args : T.args[i] = l
           more     == SubSeq(c.args, Len(T.args) + 1, Len(c.args))
           At(l)    == IF l \in Range(T.args) THEN Defaulted(T, c)[Place(l)]
                       ELSE IF l = T.vargs THEN Tuple(more)
                       ELSE IF l = T.kwargs THEN Map(Extra(T, c))
                       ELSE Null
<1>1. Bound(f, c) = [l \in T.locals |-> At(l)]
  BY DEF Bound
<1>2. ASSUME NEW i \in DOMAIN T.args
      PROVE  T.args[i] \in T.locals /\ T.args[i] \in Range(T.args) /\ Place(T.args[i]) = i
  <2>1. T.args[i] \in T.locals
    <3>1. T.args \in Seq(T.locals)
      BY DEF Signature
    <3>2. T.args \in [1 .. Len(T.args) -> T.locals] /\ DOMAIN T.args = 1 .. Len(T.args)
      BY <3>1, LenProperties
    <3> QED
      BY <3>2
  <2>2. T.args[i] \in Range(T.args)
    BY DEF Range
  <2> QED
    BY <2>1, <2>2, PlaceIs
<1>3. /\ T.vargs \in T.locals \cup {""} /\ T.kwargs \in T.locals \cup {""}
      /\ T.vargs \notin Range(T.args) /\ T.kwargs \notin Range(T.args)
      /\ T.vargs = T.kwargs => T.vargs = ""
  BY DEF Signature, DistinctParameters
<1> HIDE DEF T, Place, more
<1>4. \A i \in DOMAIN T.args : Bound(f, c)[T.args[i]] = Defaulted(T, c)[i]
  BY <1>1, <1>2
<1>5. T.vargs # "" => Bound(f, c)[T.vargs] = Tuple(more)
  BY <1>1, <1>3
<1>6. T.kwargs # "" => Bound(f, c)[T.kwargs] = Map(Extra(T, c))
  BY <1>1, <1>3
<1>7. \A l \in T.locals \ (Range(T.args) \cup {T.vargs, T.kwargs}) : Bound(f, c)[l] = Null
  BY <1>1
<1>8. DOMAIN Bound(f, c) = T.locals
  BY <1>1
<1> QED
  BY <1>4, <1>5, <1>6, <1>7, <1>8 DEF T, more

\* invoke binds what the reference definition says, for every signature and
\* every call that it accepts.
LEMMA BindsBound ==
  ASSUME NEW f, Signature(Text[f]), NEW c, Passes(c), Accepts(Text[f], c)
  PROVE  Binds(Text[f], c, Bound(f, c))
<1> DEFINE T      == Text[f]
           n      == Len(T.args)
           m      == Len(c.args)
           values == Bound(f, c)
           more   == SubSeq(c.args, n + 1, m)
           After  == [x \in {x \in DOMAIN c.named : \A i \in 1 .. n : T.args[i] # x} |-> c.named[x]]
<1>1. /\ n \in Nat /\ m \in Nat /\ DOMAIN T.args = 1 .. n /\ First(T) \in Nat
      /\ First(T) = n - Len(T.defaults)
  BY Passed3 DEF First
<1>2. /\ DOMAIN values = T.locals
      /\ \A i \in DOMAIN T.args : values[T.args[i]] = Defaulted(T, c)[i]
      /\ T.vargs # "" => values[T.vargs] = Tuple(more)
      /\ T.kwargs # "" => values[T.kwargs] = Map(Extra(T, c))
      /\ \A l \in T.locals \ (Range(T.args) \cup {T.vargs, T.kwargs}) : values[l] = Null
  BY LocalsAre
<1> HIDE DEF values, n, m
<1>3. ASSUME NEW i \in 1 .. n
      PROVE  values[T.args[i]] = IF T.args[i] \in DOMAIN c.named THEN c.named[T.args[i]]
                                 ELSE IF i <= m THEN c.args[i]
                                 ELSE T.defaults[i - (n - Len(T.defaults))]
  <2>1. i \in DOMAIN T.args /\ i \in Int
    BY <1>1
  <2>2. /\ Positional(T, c)[i] = IF i <= m THEN c.args[i] ELSE Null
        /\ Named(T, c)[i] = IF T.args[i] \in DOMAIN c.named THEN c.named[T.args[i]]
                            ELSE Positional(T, c)[i]
        /\ Named(T, c)[i] = Null <=> ~Given(T, c, i)
    BY <2>1, Passed3 DEF m
  <2>3. Defaulted(T, c)[i] = IF Named(T, c)[i] = Null /\ i > First(T) THEN T.defaults[i - First(T)]
                             ELSE Named(T, c)[i]
    BY <2>1 DEF Defaulted
  <2>4. Given(T, c, i) <=> i <= m \/ T.args[i] \in DOMAIN c.named
    BY DEF Given, m
  <2>5. Given(T, c, i) \/ i > First(T)
    BY <2>1, <1>1 DEF Accepts, First
  <2>6. values[T.args[i]] = Defaulted(T, c)[i]
    BY <1>2, <2>1
  <2> HIDE DEF T
  <2>7. CASE Given(T, c, i)
    BY <2>2, <2>3, <2>4, <2>6, <2>7
  <2>8. CASE ~Given(T, c, i)
    <3>1. Defaulted(T, c)[i] = T.defaults[i - First(T)]
      BY <2>2, <2>3, <2>5, <2>8
    <3> QED
      BY <1>1, <2>4, <2>6, <2>8, <3>1
  <2> QED
    BY <2>7, <2>8
<1>4. T.vargs # "" => /\ values[T.vargs].k = "tuple"
                      /\ Len(values[T.vargs].v) = IF m > n THEN m - n ELSE 0
                      /\ \A i \in DOMAIN values[T.vargs].v : values[T.vargs].v[i] = c.args[n + i]
  <2>1. c.args \in Seq(Range(c.args))
    BY DEF Passes, IsSequence
  <2>2. /\ Len(more) = IF m > n THEN m - n ELSE 0
        /\ \A i \in DOMAIN more : more[i] = c.args[n + i]
    <3>1. /\ more \in Seq(Range(c.args))
          /\ Len(more) = IF n + 1 <= m THEN m - (n + 1) + 1 ELSE 0
          /\ \A i \in 1 .. m - (n + 1) + 1 : more[i] = c.args[(n + 1) + i - 1]
      <4>1. DOMAIN c.args = 1 .. m
        BY <2>1, LenProperties DEF m
      <4>2. \A i \in (n + 1) .. m : i \in DOMAIN c.args
        BY <1>1, <4>1
      <4>3. \A i \in (n + 1) .. m : c.args[i] \in Range(c.args)
        BY <4>2 DEF Range
      <4>4. n + 1 \in Int /\ m \in Int
        BY <1>1
      <4> QED
        BY <4>3, <4>4, SubSeqProperties
    <3>2. DOMAIN more = 1 .. Len(more)
      BY <3>1, LenProperties
    <3> HIDE DEF more
    <3>3. \A i \in DOMAIN more : /\ i \in 1 .. m - (n + 1) + 1
                                /\ (n + 1) + i - 1 = n + i
      BY <1>1, <3>1, <3>2
    <3> QED
      BY <1>1, <3>1, <3>3
  <2>3. Tuple(more).k = "tuple" /\ Tuple(more).v = more
    BY DEF Tuple
  <2> HIDE DEF more
  <2>4. T.vargs # "" => values[T.vargs] = Tuple(more)
    BY <1>2
  <2> QED
    BY <2>2, <2>3, <2>4, Zenon
<1>5. T.kwargs # "" => values[T.kwargs] = Map(After)
  <2>1. DOMAIN c.named \ Range(T.args) = {x \in DOMAIN c.named : \A i \in 1 .. n : T.args[i] # x}
    BY <1>1 DEF Range
  <2>2. Extra(T, c) = After
    BY <2>1 DEF Extra
  <2> QED
    BY <1>2, <2>2
<1>6. \A l \in DOMAIN values \ (Range(T.args) \cup {T.vargs, T.kwargs}) : values[l] = Null
  BY <1>2
<1> QED
  BY <1>3, <1>4, <1>5, <1>6 DEF Binds, n, m, values

-----------------------------------------------------------------------------
(* What frames, functions and cells refer to.  A step of one frame must    *)
(* keep what all the others refer to, so that all is one invariant.        *)

\* A value refers to one of the m function objects, if to any.
Sound(v, m) == v.k = "fn" => v.v \in 1 .. m

\* What a frame holds, when m functions, the cells C and the frames L exist.
FrameOK(f, m, C, L) ==
  /\ f.id \in DOMAIN L /\ f.text = L[f.id].text /\ f.text \in Texts
  /\ DOMAIN f.locals = Text[f.text].locals
  /\ \A l \in DOMAIN f.locals : Sound(f.locals[l], m)
  /\ Sound(f.top, m)
  /\ \A l \in DOMAIN f.contexts : f.contexts[l] # 0 => <<f.contexts[l], l>> \in C
  /\ \A x \in DOMAIN f.names : f.names[x] \in C

StackOK(s, m, C, L) == \A n \in 1 .. Len(s) : FrameOK(s[n], m, C, L)

FunctionsOK(F, C, L) ==
  \A k \in 1 .. Len(F) : /\ F[k].text \in Texts /\ F[k].definer \in DOMAIN L
                         /\ \A x \in DOMAIN F[k].closure : F[k].closure[x] \in C

CellsOK(cs, m) == \A c \in DOMAIN cs : c \in (1 .. m) \X Names /\ Sound(cs[c].object, m)

LivesOK(L) ==
  /\ \E S : L \in Seq(S)
  /\ \A i \in DOMAIN L : L[i] = [fn |-> L[i].fn, text |-> L[i].text, values |-> L[i].values]

RefsInv == /\ Len(frames) <= MaxRecursion
           /\ LivesOK(lives)
           /\ StackOK(frames, Len(functions), DOMAIN cells, lives)
           /\ FunctionsOK(functions, DOMAIN cells, lives)
           /\ CellsOK(cells, Len(functions))
           /\ early \subseteq DOMAIN cells

\* The frames of M are those of L, and more.
Extends(M, L) == /\ DOMAIN L \subseteq DOMAIN M
                 /\ \A i \in DOMAIN L : M[i].text = L[i].text

\* What a frame refers to stays there when more is made.
LEMMA FrameStays ==
  ASSUME NEW m \in Nat, NEW k \in Nat, m <= k, NEW C, NEW D, C \subseteq D,
         NEW L, NEW M, Extends(M, L), NEW f, FrameOK(f, m, C, L)
  PROVE  FrameOK(f, k, D, M)
<1>1. \A v : Sound(v, m) => Sound(v, k)
  BY DEF Sound
<1> QED
  BY <1>1 DEF FrameOK, Extends

LEMMA StackStays ==
  ASSUME NEW m \in Nat, NEW k \in Nat, m <= k, NEW C, NEW D, C \subseteq D,
         NEW L, NEW M, Extends(M, L), NEW s, StackOK(s, m, C, L)
  PROVE  StackOK(s, k, D, M)
BY FrameStays DEF StackOK

LEMMA RestStays ==
  ASSUME NEW C, NEW D, C \subseteq D, NEW L, NEW M, Extends(M, L),
         NEW F, FunctionsOK(F, C, L)
  PROVE  FunctionsOK(F, D, M)
BY DEF FunctionsOK, Extends

\* The last frame replaced by one that refers to what exists.
LEMMA StackReplaced ==
  ASSUME NEW s, Shape(s), s # <<>>, NEW m, NEW C, NEW L, StackOK(s, m, C, L),
         NEW f, IsFrame(f), FrameOK(f, m, C, L)
  PROVE  StackOK([s EXCEPT ![Len(s)] = f], m, C, L) /\ Len([s EXCEPT ![Len(s)] = f]) = Len(s)
<1> DEFINE t == [s EXCEPT ![Len(s)] = f]
           n == Len(s)
<1>1. n \in Nat \ {0} /\ Len(t) = n /\ t[n] = f /\ \A i \in 1 .. n - 1 : t[i] = s[i]
  BY ReplaceLast
<1>2. \A i \in 1 .. n : FrameOK(s[i], m, C, L)
  BY DEF StackOK
<1> HIDE DEF t, n
<1>3. \A i \in 1 .. n : i = n \/ i \in 1 .. n - 1
  BY <1>1
<1>4. \A i \in 1 .. n : FrameOK(t[i], m, C, L)
  BY <1>1, <1>2, <1>3
<1>5. StackOK(t, m, C, L)
  BY <1>1, <1>4 DEF StackOK
<1> QED
  BY <1>1, <1>5 DEF t, n

\* What a variable of the program holds is recorded, and nothing else changes.
LEMMA RecordedLives ==
  ASSUME NEW L, LivesOK(L), NEW id \in DOMAIN L, NEW name, NEW value
  PROVE  /\ LivesOK([L EXCEPT ![id].values[name] = value])
         /\ Extends([L EXCEPT ![id].values[name] = value], L)
<1> DEFINE e == [L[id] EXCEPT !.values[name] = value]
           M == [L EXCEPT ![id] = e]
<1>1. PICK S : L \in Seq(S)
  BY DEF LivesOK
<1>2. M \in Seq(S \cup {e}) /\ DOMAIN M = DOMAIN L
  <2>1. L \in Seq(S \cup {e})
    BY <1>1, SeqMonotonic
  <2>2. id \in 1 .. Len(L)
    BY <1>1, LenProperties
  <2>3. e \in S \cup {e}
    OBVIOUS
  <2> HIDE DEF e
  <2> QED
    BY <2>1, <2>2, <2>3, ExceptSeq
<1>3. ASSUME NEW i \in DOMAIN L
      PROVE  M[i] = [fn |-> M[i].fn, text |-> M[i].text, values |-> M[i].values] /\ M[i].text = L[i].text
  <2>1. L[i] = [fn |-> L[i].fn, text |-> L[i].text, values |-> L[i].values]
    BY DEF LivesOK
  <2>2. CASE i = id
    <3>1. e = [fn |-> e.fn, text |-> e.text, values |-> e.values] /\ e.text = L[i].text
      BY <2>1, <2>2
    <3> HIDE DEF e
    <3>2. M[i] = e
      BY <2>2
    <3> QED
      BY <3>1, <3>2
  <2>3. CASE i # id
    <3>1. M[i] = L[i]
      BY <2>3
    <3> QED
      BY <2>1, <3>1
  <2> QED
    BY <2>2, <2>3
<1>4. M = [L EXCEPT ![id].values[name] = value]
  OBVIOUS
<1> HIDE DEF M
<1> QED
  BY <1>2, <1>3, <1>4 DEF LivesOK, Extends

\* One frame more.
LEMMA LongerLives ==
  ASSUME NEW L, LivesOK(L), NEW f, NEW g, NEW values
  PROVE  LET M == Append(L, [fn |-> f, text |-> g, values |-> values])
         IN  /\ LivesOK(M) /\ Extends(M, L)
             /\ Len(L) + 1 \in DOMAIN M /\ M[Len(L) + 1].text = g
<1> DEFINE e == [fn |-> f, text |-> g, values |-> values]
           M == Append(L, e)
           n == Len(L)
<1>1. PICK S : L \in Seq(S)
  BY DEF LivesOK
<1>2. e = [fn |-> e.fn, text |-> e.text, values |-> e.values] /\ e.text = g
  OBVIOUS
<1> HIDE DEF e
<1>3. L \in Seq(S \cup {e})
  BY <1>1, SeqMonotonic
<1>4. /\ n \in Nat /\ DOMAIN L = 1 .. n
      /\ M \in Seq(S \cup {e}) /\ Len(M) = n + 1
      /\ \A i \in 1 .. n : M[i] = L[i]
      /\ M[n + 1] = e
  BY <1>3, AppendProperties, LenProperties
<1>5. DOMAIN M = 1 .. Len(M)
  BY <1>4, LenProperties
<1> HIDE DEF M, n
<1>6. DOMAIN L \subseteq DOMAIN M /\ n + 1 \in DOMAIN M /\ \A i \in DOMAIN M : i \in DOMAIN L \/ i = n + 1
  BY <1>4, <1>5
<1>7. \A i \in DOMAIN L : L[i] = [fn |-> L[i].fn, text |-> L[i].text, values |-> L[i].values]
  BY DEF LivesOK
<1>8. \A i \in DOMAIN M : M[i] = [fn |-> M[i].fn, text |-> M[i].text, values |-> M[i].values]
  BY <1>2, <1>4, <1>6, <1>7
<1>9. LivesOK(M) /\ Extends(M, L)
  BY <1>4, <1>6, <1>8 DEF LivesOK, Extends
<1> QED
  BY <1>2, <1>4, <1>6, <1>9 DEF M, e, n

\* A call gives no variable a function object.
LEMMA BoundSound ==
  ASSUME NEW f, Signature(Text[f]), \A i \in DOMAIN Text[f].defaults : IsData(Text[f].defaults[i]),
         NEW c, Passes(c), NEW m, NEW l \in Text[f].locals
  PROVE  Sound(Bound(f, c)[l], m)
<1> DEFINE T == Text[f]
           Place == CHOOSE i \in DOMAIN T.args : T.args[i] = l
           v == Bound(f, c)[l]
<1>1. \/ l \in Range(T.args) /\ v = Defaulted(T, c)[Place]
      \/ v = Tuple(SubSeq(c.args, Len(T.args) + 1, Len(c.args)))
      \/ v = Map(Extra(T, c))
      \/ v = Null
  BY Zenon DEF Bound
<1>2. \A s : Tuple(s).k # "fn" /\ Map(s).k # "fn"
  BY DEF Tuple, Map
<1>3. Null.k # "fn" /\ \A x : IsData(x) => x.k # "fn"
  BY DEF Null, IsData
<1>4. ASSUME l \in Range(T.args), v = Defaulted(T, c)[Place]
      PROVE  v.k # "fn"
  <2>1. Place \in DOMAIN T.args
    BY <1>4 DEF Range
  <2> HIDE DEF Place
  <2>2. /\ Positional(T, c)[Place] = IF Place <= Len(c.args) THEN c.args[Place] ELSE Null
        /\ Named(T, c)[Place] = IF T.args[Place] \in DOMAIN c.named THEN c.named[T.args[Place]]
                                ELSE Positional(T, c)[Place]
        /\ DOMAIN c.args = 1 .. Len(c.args) /\ Len(c.args) \in Nat
        /\ DOMAIN T.args = 1 .. Len(T.args) /\ Len(T.args) \in Nat
    BY <2>1, Passed3
  <2>3. v = IF Named(T, c)[Place] = Null /\ Place > First(T) THEN T.defaults[Place - First(T)]
            ELSE Named(T, c)[Place]
    BY <1>4, <2>1 DEF Defaulted
  <2>4. Place <= Len(c.args) => Place \in DOMAIN c.args
    BY <2>1, <2>2
  <2>5. Named(T, c)[Place].k # "fn"
    BY <1>3, <2>2, <2>4 DEF Passes
  <2>6. Place > First(T) => Place - First(T) \in DOMAIN T.defaults
    <3> DEFINE d == Len(T.defaults)
               n == Len(T.args)
    <3>1. DOMAIN T.defaults = 1 .. d /\ d \in Nat
      BY LenProperties, Zenon DEF Signature, IsSequence
    <3>2. First(T) = n - d
      BY DEF First
    <3>3. Place \in 1 .. n /\ n \in Nat
      BY <2>1, <2>2
    <3> HIDE DEF d, n
    <3> QED
      BY <3>1, <3>2, <3>3
  <2>7. Place > First(T) => T.defaults[Place - First(T)].k # "fn"
    BY <1>3, <2>6
  <2> QED
    BY <2>3, <2>5, <2>7
<1> HIDE DEF v, Place, T
<1>5. v.k # "fn"
  BY <1>1, <1>2, <1>3, <1>4, Zenon
<1> QED
  BY <1>5 DEF Sound, v

\* What the assumption on the program says of one function.
LEMMA TextIs ==
  ASSUME NEW f \in Texts
  PROVE  /\ Signature(Text[f]) /\ Text[f].inner \subseteq Texts
         /\ \A i \in DOMAIN Text[f].defaults : IsData(Text[f].defaults[i])
         /\ \A c \in Arguments[f] : Passes(c)
         /\ \A l \in Text[f].locals : l \in Names
<1>1. /\ Signature(Text[f]) /\ Text[f].inner \subseteq Texts
      /\ \A i \in DOMAIN Text[f].defaults : IsData(Text[f].defaults[i])
  BY TextsAssumption, Zenon DEF Signature
<1>2. \A c \in Arguments[f] : Passes(c)
  BY TextsAssumption, Zenon DEF Passes
<1>3. Text[f].locals \subseteq Names
  BY DEF Names
<1> QED
  BY <1>1, <1>2, <1>3, Zenon

LEMMA TopOK ==
  ASSUME PointsInv, RefsInv, frames # <<>>
  PROVE  /\ IsFrame(Top) /\ FrameOK(Top, Len(functions), DOMAIN cells, lives)
         /\ Len(frames) \in Nat \ {0} /\ Top = frames[Len(frames)]
         /\ Locals = DOMAIN Top.contexts /\ Locals = DOMAIN Top.locals
         /\ Top.text \in Texts /\ Top.id \in DOMAIN lives
         /\ Len(functions) \in Nat
<1>1. Len(frames) \in Nat \ {0}
  BY DropLast DEF PointsInv
<1>2. IsFrame(Top) /\ FrameOK(Top, Len(functions), DOMAIN cells, lives)
  BY <1>1 DEF PointsInv, Shape, RefsInv, StackOK, Top, Last
<1>3. Len(functions) \in Nat
  BY LenProperties DEF PointsInv
<1> QED
  BY <1>1, <1>2, <1>3 DEF IsFrame, FrameOK, Locals, Top, Last

\* Whatever a name is read from, it refers to a function that exists: a cell
\* that is open is read from a frame that still has the variable.
LEMMA ReadSound ==
  ASSUME PointsInv, RefsInv, frames # <<>>, NEW name
  PROVE  Sound(Value(name), Len(functions))
<1> DEFINE m == Len(functions)
<1>1. FrameOK(Top, m, DOMAIN cells, lives) /\ Locals = DOMAIN Top.locals
  BY TopOK
<1>2. Sound(Null, m)
  BY DEF Sound, Null
<1>3. ASSUME name \in DOMAIN Top.names
      PROVE  Sound(Get(Top.names[name]), m)
  <2> DEFINE c == Top.names[name]
             h == Home(cells[c].home)
  <2>1. c \in DOMAIN cells
    BY <1>1, <1>3 DEF FrameOK
  <2> HIDE DEF c
  <2>2. ASSUME cells[c].home = 0 PROVE Sound(Get(c), m)
    BY <2>1, <2>2 DEF Get, RefsInv, CellsOK
  <2>3. ASSUME cells[c].home # 0 PROVE Sound(Get(c), m)
    <3>1. PICK n \in 1 .. Len(frames) : /\ frames[n].id = cells[c].home
                                        /\ c[2] \in DOMAIN frames[n].contexts
      BY <2>1, <2>3 DEF PointsInv, HeldBy
    <3>2. DOMAIN frames = 1 .. Len(frames)
      BY LenProperties DEF PointsInv, Shape
    <3>3. h \in 1 .. Len(frames) /\ frames[h].id = cells[c].home
      BY <3>1, <3>2 DEF Home
    <3> HIDE DEF h
    <3>4. FrameOK(frames[h], m, DOMAIN cells, lives) /\ FrameOK(frames[n], m, DOMAIN cells, lives)
      BY <3>1, <3>3 DEF RefsInv, StackOK
    <3>5. frames[n].text = frames[h].text
      BY <3>1, <3>3, <3>4 DEF FrameOK
    <3>6. DOMAIN frames[n].contexts = Text[frames[n].text].locals
      BY <3>1 DEF PointsInv, Shape, IsFrame
    <3>7. c[2] \in DOMAIN frames[h].locals
      BY <3>1, <3>4, <3>5, <3>6 DEF FrameOK
    <3>8. Get(c) = frames[h].locals[c[2]]
      BY <2>3 DEF Get, h
    <3> QED
      BY <3>4, <3>7, <3>8 DEF FrameOK
  <2> QED
    BY <2>2, <2>3 DEF c
<1> QED
  BY <1>1, <1>2, <1>3 DEF Value, FrameOK

\* Freezing leaves the same cells, which hold what the variables held.
LEMMA FrozenOK ==
  ASSUME NEW m, CellsOK(cells, m), NEW g, NEW f, NEW names, names \subseteq DOMAIN f.locals,
         \A l \in DOMAIN f.locals : Sound(f.locals[l], m)
  PROVE  /\ DOMAIN Frozen(Held(g, names), f) = DOMAIN cells
         /\ CellsOK(Frozen(Held(g, names), f), m)
<1> DEFINE cs == Frozen(Held(g, names), f)
<1>1. DOMAIN cs = DOMAIN cells
  BY DEF Frozen
<1>2. ASSUME NEW c \in DOMAIN cells
      PROVE  c \in (1 .. m) \X Names /\ Sound(cs[c].object, m)
  <2>1. c \in (1 .. m) \X Names /\ Sound(cells[c].object, m)
    BY DEF CellsOK
  <2>2. CASE c \in Held(g, names)
    <3>1. c[2] \in names
      BY <2>2 DEF Held
    <3>2. cs[c].object = f.locals[c[2]]
      BY <2>2 DEF Frozen
    <3> QED
      BY <2>1, <3>1, <3>2
  <2>3. CASE c \notin Held(g, names)
    <3>1. cs[c] = cells[c]
      BY <2>3 DEF Frozen
    <3> QED
      BY <2>1, <3>1
  <2> QED
    BY <2>2, <2>3
<1> HIDE DEF cs
<1>3. CellsOK(cs, m)
  BY <1>1, <1>2 DEF CellsOK
<1> QED
  BY <1>1, <1>3 DEF cs

\* The cells that a frame holds exist.
LEMMA HeldExist ==
  ASSUME NEW f, NEW m, NEW C, NEW L, FrameOK(f, m, C, L), NEW names, names \subseteq DOMAIN f.contexts
  PROVE  Held(f, names) \subseteq C
BY DEF FrameOK, Held

\* A step that changes the last frame and makes things, but loses nothing.
LEMMA StackBecomes ==
  ASSUME PointsInv, RefsInv, frames # <<>>, NEW f, IsFrame(f), Becomes(f),
         Len(functions') \in Nat, Len(functions) <= Len(functions'),
         DOMAIN cells \subseteq DOMAIN cells', Extends(lives', lives),
         FrameOK(f, Len(functions'), DOMAIN cells', lives')
  PROVE  /\ StackOK(frames', Len(functions'), DOMAIN cells', lives')
         /\ Len(frames') <= MaxRecursion
<1>1. Len(functions) \in Nat
  BY TopOK
<1>2. StackOK(frames, Len(functions'), DOMAIN cells', lives')
  BY <1>1, StackStays DEF RefsInv
<1>3. Shape(frames)
  BY DEF PointsInv
<1>4. StackOK(frames', Len(functions'), DOMAIN cells', lives') /\ Len(frames') = Len(frames)
  <2> DEFINE m == Len(functions')
             C == DOMAIN cells'
             L == lives'
  <2>1. StackOK(frames, m, C, L) /\ FrameOK(f, m, C, L)
    BY <1>2
  <2> HIDE DEF m, C, L
  <2>2. StackOK([frames EXCEPT ![Len(frames)] = f], m, C, L)
        /\ Len([frames EXCEPT ![Len(frames)] = f]) = Len(frames)
    BY <1>3, <2>1, StackReplaced
  <2> QED
    BY <2>2 DEF Becomes, m, C, L
<1> QED
  BY <1>4 DEF RefsInv

\* A step that changes the last frame and makes nothing.
LEMMA RefsBecome ==
  ASSUME PointsInv, RefsInv, frames # <<>>, NEW f, IsFrame(f), Becomes(f),
         FrameOK(f, Len(functions), DOMAIN cells, lives),
         functions' = functions, DOMAIN cells' = DOMAIN cells, CellsOK(cells', Len(functions)),
         LivesOK(lives'), Extends(lives', lives), early' \subseteq DOMAIN cells
  PROVE  RefsInv'
<1>1. Len(functions) \in Nat /\ Len(functions) <= Len(functions)
  BY TopOK
<1>2. FrameOK(f, Len(functions), DOMAIN cells, lives')
  BY <1>1, FrameStays
<1>3. StackOK(frames', Len(functions'), DOMAIN cells', lives') /\ Len(frames') <= MaxRecursion
  BY <1>1, <1>2, StackBecomes
<1>4. FunctionsOK(functions', DOMAIN cells', lives')
  BY RestStays DEF RefsInv
<1> QED
  BY <1>3, <1>4 DEF RefsInv

LEMMA SameLives == Extends(lives, lives)
BY DEF Extends

\* A step that only changes the top of the value stack.
LEMMA RefsPush ==
  ASSUME PointsInv, RefsInv, frames # <<>>, NEW v, Sound(v, Len(functions)), Push(v),
         UNCHANGED <<functions, cells, lives, early>>
  PROVE  RefsInv'
<1> DEFINE f == [Top EXCEPT !.top = v]
<1>1. IsFrame(Top) /\ FrameOK(Top, Len(functions), DOMAIN cells, lives)
  BY TopOK
<1>2. f = [id |-> Top.id, text |-> Top.text, names |-> Top.names, locals |-> Top.locals,
           contexts |-> Top.contexts, top |-> v]
  BY <1>1 DEF IsFrame
<1>3. Becomes(f)
  BY DEF Push
<1> HIDE DEF f
<1>4. IsFrame(f) /\ FrameOK(f, Len(functions), DOMAIN cells, lives)
  BY <1>1, <1>2 DEF IsFrame, FrameOK
<1> QED
  BY <1>3, <1>4, RefsBecome, SameLives DEF RefsInv

\* A step that leaves the frames, and all that they refer to, as they are.
LEMMA RefsSame ==
  ASSUME RefsInv, UNCHANGED <<frames, functions, cells, lives, early>>
  PROVE  RefsInv'
BY DEF RefsInv, StackOK, FunctionsOK, CellsOK, LivesOK

LEMMA RefsInit ==
  ASSUME Init
  PROVE  RefsInv
<1>1. PICK m \in Mains :
        /\ frames = <<NewFrame(1, m, <<>>, NoLocals(m))>>
        /\ lives = <<[fn |-> 0, text |-> m, values |-> NoLocals(m)]>>
  BY DEF Init
<1> DEFINE f == NewFrame(1, m, <<>>, NoLocals(m))
           e == [fn |-> 0, text |-> m, values |-> NoLocals(m)]
<1>2. m \in Texts
  BY TextsAssumption, Zenon
<1>3. Len(<<>>) = 0 /\ DOMAIN <<>> = {}
  <2>1. << >> \in Seq({}) /\ Len(<< >>) = 0
    BY EmptySeq
  <2>2. DOMAIN << >> = 1 .. 0
    BY <2>1, LenProperties
  <2> QED
    BY <2>1, <2>2
<1>4. functions = <<>> /\ cells = <<>> /\ early = {}
  BY DEF Init
<1>5. e = [fn |-> e.fn, text |-> e.text, values |-> e.values] /\ e.text = m
  OBVIOUS
<1>6. /\ f.id = 1 /\ f.text = m /\ f.names = <<>> /\ f.locals = NoLocals(m) /\ f.top = Null
      /\ f.contexts = [l \in Text[m].locals |-> 0]
  BY DEF NewFrame
<1> HIDE DEF e, f
<1>7. lives = <<e>> /\ frames = <<f>>
  BY <1>1 DEF e, f
<1>8. lives \in Seq({e}) /\ DOMAIN lives = {1} /\ lives[1] = e
  BY <1>7
<1>9. LivesOK(lives)
  BY <1>5, <1>8 DEF LivesOK
<1>10. Sound(Null, 0)
  BY DEF Sound, Null
<1>11. FrameOK(f, 0, {}, lives)
  BY <1>2, <1>3, <1>5, <1>6, <1>8, <1>10 DEF FrameOK, NoLocals
<1>12. Len(frames) = 1 /\ frames[1] = f
  BY <1>7
<1>13. StackOK(frames, 0, {}, lives)
  BY <1>11, <1>12 DEF StackOK
<1>14. Len(frames) <= MaxRecursion
  <2>1. MaxRecursion \in Nat \ {0}
    BY TextsAssumption, Zenon
  <2> QED
    BY <1>12, <2>1
<1>15. Len(functions) = 0 /\ DOMAIN cells = {}
  BY <1>3, <1>4
<1>16. FunctionsOK(functions, DOMAIN cells, lives) /\ CellsOK(cells, Len(functions))
  BY <1>15 DEF FunctionsOK, CellsOK
<1> QED
  BY <1>4, <1>9, <1>13, <1>14, <1>15, <1>16 DEF RefsInv

LEMMA RefsLoad ==
  ASSUME PointsInv, RefsInv, Load
  PROVE  RefsInv'
<1>1. frames # <<>> /\ UNCHANGED <<functions, cells, lives, early>>
  BY DEF Load, Runs
<1>2. UNCHANGED frames \/ \E name : Push(Value(name))
  BY DEF Load, Throw
<1>3. CASE UNCHANGED frames
  BY <1>1, <1>3, RefsSame
<1>4. CASE \E name : Push(Value(name))
  <2>1. PICK name : Push(Value(name))
    BY <1>4
  <2>2. Sound(Value(name), Len(functions))
    BY <1>1, ReadSound
  <2> QED
    BY <1>1, <2>1, <2>2, RefsPush
<1> QED
  BY <1>2, <1>3, <1>4

\* What is written to a variable is recorded.
LEMMA RefsRecord ==
  ASSUME PointsInv, RefsInv, frames # <<>>, NEW name, NEW value, Records(name, value)
  PROVE  LivesOK(lives') /\ Extends(lives', lives)
<1>1. Top.id \in DOMAIN lives /\ LivesOK(lives)
  BY TopOK DEF RefsInv
<1>2. lives' = [lives EXCEPT ![Top.id].values[name] = value]
  BY DEF Records
<1> QED
  BY <1>1, <1>2, RecordedLives

LEMMA RefsStore ==
  ASSUME PointsInv, RefsInv, Store
  PROVE  RefsInv'
<1>1. frames # <<>> /\ UNCHANGED <<functions, cells, early>>
  BY DEF Store, Runs
<1>2. PICK name \in Locals : /\ Becomes([Top EXCEPT !.locals[name] = Top.top, !.top = Null])
                             /\ Records(name, Top.top)
  BY DEF Store
<1> DEFINE m == Len(functions)
           f == [Top EXCEPT !.locals[name] = Top.top, !.top = Null]
           v == [Top.locals EXCEPT ![name] = Top.top]
<1>3. IsFrame(Top) /\ FrameOK(Top, m, DOMAIN cells, lives) /\ Locals = DOMAIN Top.locals
  BY <1>1, TopOK
<1>4. f = [id |-> Top.id, text |-> Top.text, names |-> Top.names, locals |-> v,
           contexts |-> Top.contexts, top |-> Null]
  <2> DEFINE g == [Top EXCEPT !.locals[name] = Top.top]
  <2>1. f = [g EXCEPT !.top = Null]
    OBVIOUS
  <2>2. g = [id |-> Top.id, text |-> Top.text, names |-> Top.names, locals |-> v,
             contexts |-> Top.contexts, top |-> Top.top]
    BY <1>3 DEF IsFrame
  <2> HIDE DEF f, g, v
  <2> QED
    BY <2>1, <2>2
<1>5. DOMAIN v = DOMAIN Top.locals /\ \A l \in DOMAIN v : Sound(v[l], m)
  BY <1>3 DEF FrameOK
<1>6. Sound(Null, m)
  BY DEF Sound, Null
<1> HIDE DEF v
<1>7. IsFrame(f) /\ FrameOK(f, m, DOMAIN cells, lives)
  BY <1>3, <1>4, <1>5, <1>6 DEF IsFrame, FrameOK
<1> HIDE DEF f
<1>8. LivesOK(lives') /\ Extends(lives', lives)
  BY <1>1, <1>2, RefsRecord
<1>9. CellsOK(cells', m) /\ early' \subseteq DOMAIN cells /\ DOMAIN cells' = DOMAIN cells
  BY <1>1 DEF RefsInv
<1> QED
  BY <1>1, <1>2, <1>7, <1>8, <1>9, RefsBecome DEF f

LEMMA RefsDelete ==
  ASSUME PointsInv, RefsInv, Delete
  PROVE  RefsInv'
<1>1. frames # <<>> /\ UNCHANGED functions
  BY DEF Delete, Runs
<1>2. PICK name \in Locals :
         IF Top.locals[name] = Null
         THEN UNCHANGED <<frames, cells, lives, early>>
         ELSE LET kept == [Top EXCEPT !.locals[name] = Null, !.contexts[name] = 0]
                  gone == Held(Top, {name})
              IN  /\ Becomes(kept) /\ cells' = Frozen(gone, kept)
                  /\ early' = early \cup gone /\ Records(name, Null)
  BY DEF Delete, Throw
<1>3. CASE Top.locals[name] = Null
  BY <1>1, <1>2, <1>3, RefsSame
<1>4. CASE Top.locals[name] # Null
  <2> DEFINE m == Len(functions)
             f == [Top EXCEPT !.locals[name] = Null, !.contexts[name] = 0]
             v == [Top.locals EXCEPT ![name] = Null]
             x == [Top.contexts EXCEPT ![name] = 0]
             gone == Held(Top, {name})
  <2>1. /\ IsFrame(Top) /\ FrameOK(Top, m, DOMAIN cells, lives)
        /\ Locals = DOMAIN Top.locals /\ Locals = DOMAIN Top.contexts
    BY <1>1, TopOK
  <2>2. f = [id |-> Top.id, text |-> Top.text, names |-> Top.names, locals |-> v,
             contexts |-> x, top |-> Top.top]
    <3> DEFINE g == [Top EXCEPT !.locals[name] = Null]
    <3>1. f = [g EXCEPT !.contexts[name] = 0]
      OBVIOUS
    <3>2. g = [id |-> Top.id, text |-> Top.text, names |-> Top.names, locals |-> v,
               contexts |-> Top.contexts, top |-> Top.top]
      BY <2>1 DEF IsFrame
    <3> HIDE DEF f, g, v
    <3> QED
      BY <3>1, <3>2
  <2>3. Sound(Null, m)
    BY DEF Sound, Null
  <2>4. DOMAIN v = DOMAIN Top.locals /\ \A l \in DOMAIN v : Sound(v[l], m)
    BY <2>1, <2>3 DEF FrameOK
  <2>5. /\ x = [l \in Text[Top.text].locals |-> x[l]]
        /\ DOMAIN x = DOMAIN Top.contexts
        /\ \A l \in DOMAIN x : x[l] # 0 => x[l] = Top.contexts[l]
    BY <2>1 DEF IsFrame
  <2>6. Becomes(f) /\ cells' = Frozen(gone, f) /\ early' = early \cup gone /\ Records(name, Null)
    BY <1>2, <1>4
  <2> HIDE DEF v, x, f
  <2>7. IsFrame(f)
    BY <2>2, <2>5 DEF IsFrame
  <2>8. FrameOK(f, m, DOMAIN cells, lives)
    BY <2>1, <2>2, <2>4, <2>5 DEF FrameOK
  <2>9. LivesOK(lives') /\ Extends(lives', lives)
    BY <1>1, <2>6, RefsRecord
  <2>10. DOMAIN cells' = DOMAIN cells /\ CellsOK(cells', m)
    <3>1. {name} \subseteq DOMAIN f.locals
      BY <2>1, <2>2, <2>4
    <3>2. \A l \in DOMAIN f.locals : Sound(f.locals[l], m)
      BY <2>2, <2>4
    <3>3. CellsOK(cells, m)
      BY DEF RefsInv
    <3> QED
      BY <2>6, <3>1, <3>2, <3>3, FrozenOK
  <2>11. early' \subseteq DOMAIN cells
    BY <2>1, <2>6, HeldExist DEF RefsInv
  <2> QED
    BY <1>1, <2>6, <2>7, <2>8, <2>9, <2>10, <2>11, RefsBecome
<1> QED
  BY <1>3, <1>4

\* One function object more, with the cells of the variables it captures.
LEMMA RefsMakeFunction ==
  ASSUME PointsInv, RefsInv, MakeFunction
  PROVE  RefsInv'
<1> DEFINE m == Len(functions)
           k == m + 1
           C == DOMAIN cells
           D == DOMAIN cells'
<1>1. PICK g \in Text[Top.text].inner :
        /\ functions' = Append(functions, [text |-> g, closure |-> Closure(g), definer |-> Top.id])
        /\ cells' = [c \in {<<k, n>> : n \in Captured(g)} \cup DOMAIN cells |->
                       IF c \in {<<k, n>> : n \in Captured(g)} THEN [home |-> Top.id, object |-> Null]
                       ELSE Frozen(Held(Top, Captured(g)), Top)[c]]
        /\ early' = early \cup Held(Top, Captured(g))
        /\ Becomes([Top EXCEPT !.top = Fn(k),
                      !.contexts = [l \in Locals |-> IF l \in Captured(g) THEN k ELSE @[l]]])
  BY DEF MakeFunction
<1> DEFINE new == {<<k, n>> : n \in Captured(g)}
           old == Frozen(Held(Top, Captured(g)), Top)
           f   == [Top EXCEPT !.top = Fn(k),
                     !.contexts = [l \in Locals |-> IF l \in Captured(g) THEN k ELSE @[l]]]
           x   == [l \in Locals |-> IF l \in Captured(g) THEN k ELSE Top.contexts[l]]
           e   == [text |-> g, closure |-> Closure(g), definer |-> Top.id]
<1>2. frames # <<>> /\ UNCHANGED lives
  BY DEF MakeFunction, Runs
<1>3. /\ IsFrame(Top) /\ FrameOK(Top, m, C, lives)
      /\ Locals = DOMAIN Top.contexts /\ Locals = DOMAIN Top.locals
      /\ Top.text \in Texts /\ Top.id \in DOMAIN lives
      /\ m \in Nat
  BY <1>2, TopOK
<1>4. g \in Texts /\ Locals \subseteq Names
  BY <1>3, TextIs DEF Locals
<1>5. Captured(g) \subseteq Locals
  BY DEF Captured
<1>6. /\ D = new \cup C
      /\ \A c \in new : cells'[c].object = Null
      /\ \A c \in C \ new : cells'[c] = old[c]
  BY <1>1
<1>7. Becomes(f)
  BY <1>1
<1>8. f = [id |-> Top.id, text |-> Top.text, names |-> Top.names, locals |-> Top.locals,
           contexts |-> x, top |-> Fn(k)]
  <2> DEFINE h == [Top EXCEPT !.top = Fn(k)]
  <2>1. h = [id |-> Top.id, text |-> Top.text, names |-> Top.names, locals |-> Top.locals,
             contexts |-> Top.contexts, top |-> Fn(k)]
    BY <1>3 DEF IsFrame
  <2>2. f = [h EXCEPT !.contexts = x]
    BY <2>1
  <2> HIDE DEF h, f, x
  <2> QED
    BY <2>1, <2>2
<1>9. /\ Len(functions') = k
      /\ \A i \in 1 .. m : functions'[i] = functions[i]
      /\ functions'[k] = e
  <2>1. PICK S : functions \in Seq(S)
    BY DEF PointsInv
  <2>2. functions \in Seq(S \cup {e}) /\ functions' = Append(functions, e)
    BY <1>1, <2>1, SeqMonotonic
  <2> HIDE DEF e
  <2> QED
    BY <2>2, AppendProperties
<1>10. k \in Nat /\ m <= k /\ k \in 1 .. k
  <2> HIDE DEF m
  <2> QED
    BY <1>3
<1> HIDE DEF k, f, e, C, D, old
<1>11. IsFrame(f)
  BY <1>8 DEF IsFrame, Locals
<1>12. FrameOK(f, k, D, lives)
  <2>1. \A v : Sound(v, m) => Sound(v, k)
    <3> HIDE DEF m
    <3> QED
      BY <1>3, <1>10 DEF Sound, k
  <2>2. Sound(Fn(k), k)
    BY <1>10 DEF Sound, Fn
  <2>3. \A l \in DOMAIN x : x[l] # 0 => <<x[l], l>> \in D
    <3>1. \A l \in Captured(g) : <<k, l>> \in new
      OBVIOUS
    <3>2. \A l \in Locals : Top.contexts[l] # 0 => <<Top.contexts[l], l>> \in C
      BY <1>3 DEF FrameOK
    <3> HIDE DEF new
    <3> QED
      BY <1>6, <3>1, <3>2
  <2>4. C \subseteq D
    BY <1>6
  <2> HIDE DEF x, new
  <2> QED
    BY <1>3, <1>8, <2>1, <2>2, <2>3, <2>4 DEF FrameOK
<1>13. StackOK(frames', Len(functions'), DOMAIN cells', lives') /\ Len(frames') <= MaxRecursion
  <2>1. C \subseteq D
    BY <1>6
  <2>2. FrameOK(f, Len(functions'), DOMAIN cells', lives')
    BY <1>2, <1>9, <1>12 DEF D
  <2>3. Len(functions') \in Nat /\ Len(functions) <= Len(functions')
    BY <1>9, <1>10
  <2>4. Extends(lives', lives)
    BY <1>2, SameLives
  <2> QED
    BY <1>2, <1>7, <1>11, <2>1, <2>2, <2>3, <2>4, StackBecomes DEF C, D
<1>14. FunctionsOK(functions', DOMAIN cells', lives')
  <2>1. FunctionsOK(functions, C, lives) /\ C \subseteq D
    BY <1>6 DEF RefsInv, C
  <2>2. ASSUME NEW i \in 1 .. m
        PROVE  /\ functions'[i].text \in Texts /\ functions'[i].definer \in DOMAIN lives
               /\ \A n \in DOMAIN functions'[i].closure : functions'[i].closure[n] \in D
    BY <1>9, <2>1 DEF FunctionsOK
  <2>3. /\ functions'[k].text \in Texts /\ functions'[k].definer \in DOMAIN lives
        /\ \A n \in DOMAIN functions'[k].closure : functions'[k].closure[n] \in D
    <3>1. e.text = g /\ e.definer = Top.id /\ e.closure = Closure(g)
      BY DEF e
    <3>2. ASSUME NEW n \in DOMAIN Closure(g) PROVE Closure(g)[n] \in D
      <4>1. /\ n \in FreeVars(g) /\ n \in Locals \cup DOMAIN Top.names
            /\ Closure(g)[n] = IF n \in Locals THEN <<Len(functions) + 1, n>> ELSE Top.names[n]
        BY DEF Closure
      <4>2. CASE n \in Locals
        <5>1. n \in Captured(g) /\ Closure(g)[n] = <<k, n>>
          BY <4>1, <4>2 DEF Captured, k
        <5> QED
          BY <1>6, <5>1
      <4>3. CASE n \notin Locals
        BY <1>3, <2>1, <4>1, <4>3 DEF FrameOK
      <4> QED
        BY <4>2, <4>3
    <3> QED
      BY <1>3, <1>4, <1>9, <3>1, <3>2
  <2>4. \A i \in 1 .. k : i \in 1 .. m \/ i = k
    <3> HIDE DEF m
    <3> QED
      BY <1>3 DEF k
  <2> QED
    BY <1>2, <1>9, <2>2, <2>3, <2>4 DEF FunctionsOK, D
<1>15. CellsOK(cells', Len(functions'))
  <2>1. DOMAIN old = C /\ CellsOK(old, m)
    BY <1>3, <1>5, FrozenOK DEF RefsInv, FrameOK, old, C
  <2>2. ASSUME NEW c \in C PROVE c \in (1 .. k) \X Names /\ Sound(old[c].object, k)
    <3>1. c \in (1 .. m) \X Names /\ Sound(old[c].object, m)
      BY <2>1 DEF CellsOK
    <3>2. \A i \in 1 .. m : i \in 1 .. k
      <4> HIDE DEF m
      <4> QED
        BY <1>3, <1>10
    <3> QED
      BY <3>1, <3>2 DEF Sound
  <2>3. ASSUME NEW c \in new PROVE c \in (1 .. k) \X Names /\ Sound(cells'[c].object, k)
    <3>1. c \in (1 .. k) \X Names
      BY <1>4, <1>5, <1>10
    <3>2. Sound(Null, k)
      BY DEF Sound, Null
    <3> QED
      BY <1>6, <3>1, <3>2
  <2> HIDE DEF new
  <2>4. \A c \in D : c \in (1 .. k) \X Names /\ Sound(cells'[c].object, k)
    BY <1>6, <2>2, <2>3
  <2> QED
    BY <1>9, <2>4 DEF CellsOK, D
<1>16. early' \subseteq DOMAIN cells'
  <2>1. Held(Top, Captured(g)) \subseteq C
    BY <1>3, <1>5, HeldExist
  <2>2. early \subseteq C
    BY DEF RefsInv, C
  <2> QED
    BY <1>1, <1>6, <2>1, <2>2 DEF D
<1> QED
  BY <1>2, <1>13, <1>14, <1>15, <1>16 DEF RefsInv

\* One frame more, with the variables that the call gives it.
LEMMA RefsInvoke ==
  ASSUME PointsInv, RefsInv, Invoke
  PROVE  RefsInv'
<1> DEFINE k  == Top.top.v
           g  == functions[k].text
           id == Len(lives) + 1
           m  == Len(functions)
           C  == DOMAIN cells
<1>1. frames # <<>> /\ Top.top.k = "fn" /\ UNCHANGED <<functions, cells, early>>
  BY DEF Invoke
<1>2. PICK c \in Arguments[g] :
        \/ UNCHANGED <<frames, lives>>
        \/ /\ ~TooDeep
           /\ frames' = Append([frames EXCEPT ![Len(frames)].top = Null],
                               NewFrame(id, g, functions[k].closure, Bound(g, c)))
           /\ lives' = Append(lives, [fn |-> k, text |-> g, values |-> Bound(g, c)])
  BY DEF Invoke, Throw
<1>3. CASE UNCHANGED <<frames, lives>>
  BY <1>1, <1>3, RefsSame
<1>4. CASE /\ ~TooDeep
           /\ frames' = Append([frames EXCEPT ![Len(frames)].top = Null],
                               NewFrame(id, g, functions[k].closure, Bound(g, c)))
           /\ lives' = Append(lives, [fn |-> k, text |-> g, values |-> Bound(g, c)])
  <2> DEFINE f == [Top EXCEPT !.top = Null]
             s == [frames EXCEPT ![Len(frames)] = f]
             e == NewFrame(id, g, functions[k].closure, Bound(g, c))
             n == Len(frames)
  <2>1. /\ IsFrame(Top) /\ FrameOK(Top, m, C, lives) /\ m \in Nat /\ n \in Nat
    BY <1>1, TopOK
  <2>2. k \in 1 .. m
    BY <1>1, <2>1 DEF FrameOK, Sound
  <2>3. g \in Texts /\ \A x \in DOMAIN functions[k].closure : functions[k].closure[x] \in C
    BY <2>2 DEF RefsInv, FunctionsOK
  <2>4. /\ LivesOK(lives') /\ Extends(lives', lives)
        /\ id \in DOMAIN lives' /\ lives'[id].text = g
    BY <1>4, LongerLives DEF RefsInv
  <2>5. f = [id |-> Top.id, text |-> Top.text, names |-> Top.names, locals |-> Top.locals,
             contexts |-> Top.contexts, top |-> Null]
    BY <2>1 DEF IsFrame
  <2>6. Sound(Null, m)
    BY DEF Sound, Null
  <2> HIDE DEF f
  <2>7. IsFrame(f) /\ FrameOK(f, m, C, lives)
    BY <2>1, <2>5, <2>6 DEF IsFrame, FrameOK
  <2>8. StackOK(s, m, C, lives) /\ Len(s) = n
    <3>1. Shape(frames) /\ StackOK(frames, m, C, lives)
      BY DEF PointsInv, RefsInv
    <3> HIDE DEF m, C, n
    <3> QED
      BY <1>1, <2>7, <3>1, StackReplaced DEF n
  <2>9. StackOK(s, m, C, lives')
    <3> HIDE DEF s, m, C
    <3>1. m <= m
      BY <2>1
    <3> QED
      BY <2>1, <2>4, <2>8, <3>1, StackStays
  <2>10. /\ e.id = id /\ e.text = g /\ e.names = functions[k].closure
         /\ e.locals = Bound(g, c) /\ e.top = Null
         /\ e.contexts = [l \in Text[g].locals |-> 0]
    BY DEF NewFrame
  <2>11. FrameOK(e, m, C, lives')
    <3>1. DOMAIN Bound(g, c) = Text[g].locals
      BY DEF Bound
    <3>2. \A l \in Text[g].locals : Sound(Bound(g, c)[l], m)
      <4>1. Signature(Text[g]) /\ Passes(c) /\ \A i \in DOMAIN Text[g].defaults : IsData(Text[g].defaults[i])
        BY <2>3, TextIs
      <4> HIDE DEF g, m
      <4> QED
        BY <4>1, BoundSound
    <3> HIDE DEF e, g, id, m, C
    <3> QED
      BY <2>3, <2>4, <2>6, <2>10, <3>1, <3>2 DEF FrameOK
  <2>12. frames' = Append(s, e)
    BY <1>4 DEF Top, Last, f
  <2>13. Shape(s)
    BY <1>1, <2>7, ReplaceLast DEF PointsInv
  <2> HIDE DEF s, e, n, m, C
  <2>14. /\ Len(frames') = n + 1
         /\ \A i \in 1 .. n : frames'[i] = s[i]
         /\ frames'[n + 1] = e
    <3>1. PICK S : s \in Seq(S)
      BY <2>13 DEF Shape
    <3>2. s \in Seq(S \cup {e})
      BY <3>1, SeqMonotonic
    <3> QED
      BY <2>8, <2>12, <3>2, AppendProperties
  <2>15. StackOK(frames', m, C, lives')
    <3>1. \A i \in 1 .. n + 1 : i \in 1 .. n \/ i = n + 1
      BY <2>1 DEF n
    <3>2. \A i \in 1 .. n : FrameOK(s[i], m, C, lives')
      BY <2>8, <2>9 DEF StackOK
    <3>3. \A i \in 1 .. n + 1 : FrameOK(frames'[i], m, C, lives')
      BY <2>11, <2>14, <3>1, <3>2
    <3> QED
      BY <2>14, <3>3 DEF StackOK
  <2>16. Len(frames') <= MaxRecursion
    <3>1. MaxRecursion \in Nat /\ ~(n >= MaxRecursion) /\ n \in Nat
      BY <1>4, <2>1, TextsAssumption, Zenon DEF TooDeep, n
    <3> QED
      BY <2>14, <3>1
  <2>17. FunctionsOK(functions', DOMAIN cells', lives')
    BY <1>1, <2>4, RestStays DEF RefsInv
  <2> QED
    BY <1>1, <2>4, <2>15, <2>16, <2>17 DEF RefsInv, CellsOK, m, C
<1> QED
  BY <1>2, <1>3, <1>4

\* The last frame leaves; those below refer to what they did.
LEMMA RefsLeave ==
  ASSUME PointsInv, RefsInv, frames # <<>>, UNCHANGED <<functions, lives, early>>,
         cells' = Frozen(Held(Top, Locals), Top),
         StackOK(frames', Len(functions), DOMAIN cells, lives), Len(frames') <= MaxRecursion
  PROVE  RefsInv'
<1>1. FrameOK(Top, Len(functions), DOMAIN cells, lives) /\ Locals = DOMAIN Top.locals
  BY TopOK
<1>2. DOMAIN cells' = DOMAIN cells /\ CellsOK(cells', Len(functions))
  BY <1>1, FrozenOK DEF RefsInv, FrameOK
<1> QED
  BY <1>2 DEF RefsInv, FunctionsOK, LivesOK

LEMMA StackFront ==
  ASSUME PointsInv, RefsInv, frames # <<>>
  PROVE  /\ Shape(Front(frames)) /\ Len(Front(frames)) = Len(frames) - 1
         /\ StackOK(Front(frames), Len(functions), DOMAIN cells, lives)
         /\ Len(Front(frames)) <= MaxRecursion
<1> DEFINE n == Len(frames)
           s == Front(frames)
<1>1. n \in Nat \ {0} /\ Shape(s) /\ Len(s) = n - 1 /\ \A i \in 1 .. n - 1 : s[i] = frames[i]
  BY DropLast DEF PointsInv
<1>2. \A i \in 1 .. n : FrameOK(frames[i], Len(functions), DOMAIN cells, lives)
  BY DEF RefsInv, StackOK
<1>3. MaxRecursion \in Nat /\ n <= MaxRecursion
  BY TextsAssumption, Zenon DEF RefsInv
<1> HIDE DEF s, n
<1>4. \A i \in 1 .. n - 1 : i \in 1 .. n
  BY <1>1
<1>5. \A i \in 1 .. Len(s) : FrameOK(s[i], Len(functions), DOMAIN cells, lives)
  BY <1>1, <1>2, <1>4
<1>6. Len(s) <= MaxRecursion
  BY <1>1, <1>3
<1> QED
  BY <1>1, <1>5, <1>6 DEF StackOK, s, n

LEMMA RefsReturn ==
  ASSUME PointsInv, RefsInv, Return
  PROVE  RefsInv'
<1> DEFINE s == Front(frames)
           n == Len(frames) - 1
           m == Len(functions)
           C == DOMAIN cells
           result == IF Top.top = Null THEN Nothing ELSE Top.top
<1>1. /\ frames # <<>> /\ UNCHANGED <<functions, lives, early>>
      /\ frames' = IF n = 0 THEN <<>> ELSE [s EXCEPT ![n].top = result]
      /\ cells' = Frozen(Held(Top, Locals), Top)
  BY DEF Return, Runs, Leave
<1>2. Shape(s) /\ Len(s) = n /\ StackOK(s, m, C, lives) /\ n <= MaxRecursion
  BY <1>1, StackFront
<1>3. Sound(result, m)
  <2>1. Sound(Nothing, m) /\ Sound(Top.top, m)
    BY <1>1, TopOK DEF Sound, Nothing, FrameOK
  <2> QED
    BY <2>1
<1>4. n \in Nat
  <2>1. Len(frames) \in Nat \ {0}
    BY <1>1, TopOK
  <2> QED
    BY <2>1
<1> HIDE DEF s, n, m, C, result
<1>5. CASE n = 0
  <2>1. frames' = <<>> /\ Len(<<>>) = 0
    BY <1>1, <1>5, EmptySeq
  <2>2. StackOK(frames', m, C, lives) /\ Len(frames') <= MaxRecursion
    BY <1>2, <1>5, <2>1 DEF StackOK
  <2> QED
    BY <1>1, <2>2, RefsLeave DEF m, C
<1>6. CASE n # 0
  <2> DEFINE f == [s[n] EXCEPT !.top = result]
  <2>1. s # <<>>
    <3>1. Len(<<>>) = 0
      BY EmptySeq
    <3> QED
      BY <1>2, <1>6, <3>1
  <2>2. n \in 1 .. Len(s)
    BY <1>2, <1>4, <1>6
  <2>3. IsFrame(s[n]) /\ FrameOK(s[n], m, C, lives)
    BY <1>2, <2>2 DEF Shape, StackOK
  <2>4. f = [id |-> s[n].id, text |-> s[n].text, names |-> s[n].names, locals |-> s[n].locals,
             contexts |-> s[n].contexts, top |-> result]
    BY <2>3 DEF IsFrame
  <2>5. frames' = [s EXCEPT ![Len(s)] = f]
    BY <1>1, <1>2, <1>6
  <2> HIDE DEF f
  <2>6. IsFrame(f) /\ FrameOK(f, m, C, lives)
    BY <1>3, <2>3, <2>4 DEF IsFrame, FrameOK
  <2>7. StackOK(frames', m, C, lives) /\ Len(frames') <= MaxRecursion
    <3>1. /\ StackOK([s EXCEPT ![Len(s)] = f], m, C, lives)
          /\ Len([s EXCEPT ![Len(s)] = f]) = Len(s)
      <4>1. Shape(s) /\ StackOK(s, m, C, lives)
        BY <1>2
      <4> QED
        BY <2>1, <2>6, <4>1, StackReplaced
    <3> QED
      BY <1>2, <2>5, <3>1
  <2> QED
    BY <1>1, <2>7, RefsLeave DEF m, C
<1> QED
  BY <1>5, <1>6

LEMMA RefsUnwind ==
  ASSUME PointsInv, RefsInv, Unwind
  PROVE  RefsInv'
<1>1. /\ frames # <<>> /\ UNCHANGED <<functions, lives, early>>
      /\ frames' = Front(frames) /\ cells' = Frozen(Held(Top, Locals), Top)
  BY DEF Unwind, Handles, Leave
<1> QED
  BY <1>1, StackFront, RefsLeave

LEMMA RefsStep ==
  ASSUME PointsInv, RefsInv, [Next]_vars
  PROVE  RefsInv'
<1>1. \A n : Sound(Number(n), Len(functions)) /\ Sound(Null, Len(functions))
  BY DEF Sound, Number, Null
<1>2. CASE LoadConst
  BY <1>1, <1>2, RefsPush DEF LoadConst, Runs
<1>3. CASE Raise
  BY <1>3, RefsSame DEF Raise, Throw
<1>4. CASE Catch
  BY <1>1, <1>4, RefsPush DEF Catch, Handles
<1>5. CASE UNCHANGED vars
  BY <1>5, RefsSame DEF vars
<1> QED
  BY <1>2, <1>3, <1>4, <1>5, RefsLoad, RefsStore, RefsDelete, RefsMakeFunction, RefsInvoke,
     RefsReturn, RefsUnwind DEF Next

\* Frames, functions and cells refer to what exists, in every behaviour.
THEOREM RefsExist == Spec => [](PointsInv /\ RefsInv)
<1>1. Init => RefsInv
  BY RefsInit
<1>2. PointsInv /\ RefsInv /\ [Next]_vars => RefsInv'
  BY RefsStep
<1> QED
  BY <1>1, <1>2, CellsPointIntoFrames, PTL DEF Spec

\* The exceptions there are.
Errors == {"", "NameError", "TypeError", "RuntimeError", "Error"}

RaisedOK == raised \in Errors

LEMMA RaisedIs == Spec => []RaisedOK
<1>1. Init => RaisedOK
  BY Zenon DEF Init, Errors, RaisedOK
<1>2. RaisedOK /\ [Next]_vars => RaisedOK'
  <2> SUFFICES ASSUME raised \in Errors, [Next]_vars PROVE raised' \in Errors
    BY DEF RaisedOK
  <2>1. "NameError" \in Errors /\ "TypeError" \in Errors /\ "RuntimeError" \in Errors
        /\ "Error" \in Errors /\ "" \in Errors
    BY Zenon DEF Errors
  <2> HIDE DEF Errors
  <2>2. CASE UNCHANGED raised
    BY <2>2
  <2>3. CASE Load
    BY <2>1, <2>3, Zenon DEF Load, Throw
  <2>4. CASE Delete
    BY <2>1, <2>4, Zenon DEF Delete, Throw
  <2>5. CASE Invoke
    BY <2>1, <2>5, Zenon DEF Invoke, Throw
  <2>6. CASE Raise
    BY <2>1, <2>6, Zenon DEF Raise, Throw
  <2>7. CASE Catch
    BY <2>1, <2>7, Zenon DEF Catch
  <2>8. LoadConst \/ Store \/ MakeFunction \/ Return \/ Unwind \/ UNCHANGED vars => UNCHANGED raised
    BY Zenon DEF LoadConst, Store, MakeFunction, Return, Unwind, vars
  <2> QED
    BY <2>2, <2>3, <2>4, <2>5, <2>6, <2>7, <2>8, Zenon DEF Next
<1> QED
  BY <1>1, <1>2, PTL DEF Spec

\* The stack stays within its limit, and nothing refers to a frame, a function
\* object or a cell that was never made, for every program.
THEOREM TypeCorrect == Spec => []TypeOK
<1>1. PointsInv /\ RefsInv /\ RaisedOK => TypeOK
  <2> SUFFICES ASSUME PointsInv, RefsInv, RaisedOK PROVE TypeOK
    OBVIOUS
  <2>1. DOMAIN frames = 1 .. Len(frames)
    BY LenProperties DEF PointsInv, Shape
  <2>2. DOMAIN functions = 1 .. Len(functions) /\ Len(functions) \in Nat
    BY LenProperties DEF PointsInv
  <2>3. ASSUME NEW n \in 1 .. Len(frames)
        PROVE  /\ frames[n].id \in DOMAIN lives /\ frames[n].text = lives[frames[n].id].text
               /\ DOMAIN frames[n].locals = Text[frames[n].text].locals
               /\ \A l \in DOMAIN frames[n].contexts : frames[n].contexts[l] \in 0 .. Len(functions)
    <3>1. FrameOK(frames[n], Len(functions), DOMAIN cells, lives)
      BY DEF RefsInv, StackOK
    <3>2. ASSUME NEW l \in DOMAIN frames[n].contexts
          PROVE  frames[n].contexts[l] \in 0 .. Len(functions)
      <4> DEFINE x == frames[n].contexts[l]
      <4>1. x # 0 => <<x, l>> \in DOMAIN cells
        BY <3>1 DEF FrameOK
      <4>2. DOMAIN cells \subseteq (1 .. Len(functions)) \X Names
        BY DEF RefsInv, CellsOK
      <4> HIDE DEF x
      <4>3. x # 0 => x \in 1 .. Len(functions)
        BY <4>1, <4>2
      <4>4. x \in 0 .. Len(functions)
        BY <2>2, <4>3
      <4> QED
        BY <4>4 DEF x
    <3> QED
      BY <3>1, <3>2 DEF FrameOK
  <2>4. FramesOK
    BY <2>1, <2>3 DEF FramesOK, Ids, RefsInv
  <2>5. \A k \in DOMAIN functions : functions[k].text \in Texts /\ functions[k].definer \in Ids
    BY <2>2 DEF RefsInv, FunctionsOK, Ids
  <2>6. DOMAIN cells \subseteq (DOMAIN functions) \X Names
    BY <2>2 DEF RefsInv, CellsOK
  <2>7. early \subseteq DOMAIN cells
    BY DEF RefsInv
  <2> QED
    BY <2>4, <2>5, <2>6, <2>7, Zenon DEF TypeOK, Errors, RaisedOK
<1> QED
  BY <1>1, RefsExist, RaisedIs, PTL

\* What CallsBind says of one step.
Binding ==
  called' # NoCall =>
    LET T == Text[called'.text]
    IN  IF ~Accepts(T, called') THEN raised' = "TypeError" /\ frames' = frames
        ELSE IF Len(frames) = MaxRecursion THEN raised' = "RuntimeError" /\ frames' = frames
        ELSE /\ raised' = "" /\ Len(frames') = Len(frames) + 1
             /\ Last(frames').text = called'.text
             /\ Binds(T, called', Last(frames').locals)

\* A call.
LEMMA InvokeBinds ==
  ASSUME PointsInv, RefsInv, Invoke
  PROVE  Binding
<1> DEFINE k  == Top.top.v
           g  == functions[k].text
           id == Len(lives) + 1
           s  == [frames EXCEPT ![Len(frames)].top = Null]
<1>1. frames # <<>> /\ Top.top.k = "fn"
  BY DEF Invoke
<1>2. PICK c \in Arguments[g] :
        /\ Runs([text |-> g, args |-> c.args, named |-> c.named])
        /\ IF Refused(Text[g], c) \/ TooDeep
           THEN Throw(IF Refused(Text[g], c) THEN "TypeError" ELSE "RuntimeError")
           ELSE /\ frames' = Append(s, NewFrame(id, g, functions[k].closure, Bound(g, c)))
                /\ UNCHANGED raised
  BY DEF Invoke
<1>3. g \in Texts
  <2>1. FrameOK(Top, Len(functions), DOMAIN cells, lives)
    BY <1>1, TopOK
  <2>2. k \in 1 .. Len(functions)
    BY <1>1, <2>1 DEF FrameOK, Sound
  <2> QED
    BY <2>2 DEF RefsInv, FunctionsOK
<1>4. Signature(Text[g]) /\ Passes(c)
  BY <1>3, TextIs
<1>5. called'.text = g /\ called'.args = c.args /\ called'.named = c.named
  BY <1>2 DEF Runs
<1>6. Accepts(Text[g], called') <=> Accepts(Text[g], c)
  BY <1>5, Zenon DEF Accepts, Given
<1>7. \A values : Binds(Text[g], called', values) <=> Binds(Text[g], c, values)
  <2> DEFINE BindsTo(args, named, values) ==
               LET T == Text[g]
                   n == Len(T.args)
               IN  /\ \A i \in 1 .. n :
                        values[T.args[i]] = IF T.args[i] \in DOMAIN named THEN named[T.args[i]]
                                            ELSE IF i <= Len(args) THEN args[i]
                                            ELSE T.defaults[i - (n - Len(T.defaults))]
                   /\ T.vargs # "" =>
                        /\ values[T.vargs].k = "tuple"
                        /\ Len(values[T.vargs].v) = IF Len(args) > n THEN Len(args) - n ELSE 0
                        /\ \A i \in DOMAIN values[T.vargs].v : values[T.vargs].v[i] = args[n + i]
                   /\ T.kwargs # "" =>
                        values[T.kwargs] = Map([m \in {m \in DOMAIN named : \A i \in 1 .. n : T.args[i] # m}
                                                  |-> named[m]])
                   /\ \A l \in DOMAIN values \ (Range(T.args) \cup {T.vargs, T.kwargs}) : values[l] = Null
  <2>1. \A call, values : Binds(Text[g], call, values) <=> BindsTo(call.args, call.named, values)
    BY Zenon DEF Binds
  <2> HIDE DEF BindsTo, g
  <2> QED
    BY <1>5, <2>1, Zenon
<1>8. Refused(Text[g], c) <=> ~Accepts(Text[g], c)
  BY <1>4, RefusedIs
<1>9. TooDeep <=> Len(frames) = MaxRecursion
  <2>1. Len(frames) \in Nat /\ MaxRecursion \in Nat /\ Len(frames) <= MaxRecursion
    BY <1>1, TopOK, TextsAssumption, Zenon DEF RefsInv
  <2> QED
    BY <2>1 DEF TooDeep
<1>10. raised = ""
  BY <1>2, Zenon DEF Runs
<1>11. ASSUME ~Accepts(Text[g], called')
       PROVE  raised' = "TypeError" /\ frames' = frames
  BY <1>2, <1>6, <1>8, <1>11, Zenon DEF Throw
<1>12. ASSUME Accepts(Text[g], called'), Len(frames) = MaxRecursion
       PROVE  raised' = "RuntimeError" /\ frames' = frames
  BY <1>2, <1>6, <1>8, <1>9, <1>12, Zenon DEF Throw
<1>13. ASSUME Accepts(Text[g], called'), Len(frames) # MaxRecursion
       PROVE  /\ raised' = "" /\ Len(frames') = Len(frames) + 1
              /\ Last(frames').text = g
              /\ Binds(Text[g], called', Last(frames').locals)
  <2> DEFINE f == [Top EXCEPT !.top = Null]
             e == NewFrame(id, g, functions[k].closure, Bound(g, c))
             n == Len(frames)
  <2>1. frames' = Append(s, e) /\ raised' = ""
    BY <1>2, <1>6, <1>8, <1>9, <1>10, <1>13, Zenon
  <2>2. s = [frames EXCEPT ![n] = f]
    BY DEF Top, Last
  <2>3. IsFrame(Top) /\ n \in Nat
    BY <1>1, TopOK
  <2>4. IsFrame(f)
    BY <2>3 DEF IsFrame
  <2>5. Shape(frames)
    BY DEF PointsInv
  <2> HIDE DEF f, s, e
  <2>6. Shape(s) /\ Len(s) = n
    BY <1>1, <2>2, <2>4, <2>5, ReplaceLast
  <2>7. PICK S : s \in Seq(S)
    BY <2>6 DEF Shape
  <2>8. s \in Seq(S \cup {e})
    BY <2>7, SeqMonotonic
  <2>9. Len(frames') = n + 1 /\ frames'[n + 1] = e
    <3>1. Len(Append(s, e)) = Len(s) + 1 /\ Append(s, e)[Len(s) + 1] = e
      BY <2>8, AppendProperties
    <3> QED
      BY <2>1, <2>6, <3>1
  <2>10. Last(frames') = e
    BY <2>9 DEF Last
  <2>11. e.text = g /\ e.locals = Bound(g, c)
    BY DEF e, NewFrame
  <2>12. Binds(Text[g], called', Bound(g, c))
    BY <1>4, <1>6, <1>7, <1>13, BindsBound
  <2> QED
    BY <2>1, <2>9, <2>10, <2>11, <2>12, Zenon
<1> QED
  BY <1>5, <1>11, <1>12, <1>13, Zenon DEF Binding

\* A call binds its arguments, or has no effect but the exception, for every
\* signature and whatever is passed.
THEOREM CallsAreBound == Spec => CallsBind
<1>1. PointsInv /\ RefsInv /\ [Next]_vars => [Binding]_vars
  <2> SUFFICES ASSUME PointsInv, RefsInv, Next PROVE Binding
    OBVIOUS
  <2>1. CASE Invoke
    BY <2>1, InvokeBinds
  <2>2. CASE ~Invoke
    <3>1. called' = NoCall
      BY <2>2, Zenon DEF Next, LoadConst, Load, Store, Delete, MakeFunction, Raise, Return, Unwind,
                         Catch, Runs, Handles
    <3> QED
      BY <3>1, Zenon DEF Binding
  <2> QED
    BY <2>1, <2>2
<1>2. [][Binding]_vars => CallsBind
  BY DEF CallsBind, Binding
<1> QED
  BY <1>1, <1>2, RefsExist, PTL DEF Spec

-----------------------------------------------------------------------------
(* What a name inside of a function object means.  A function object keeps *)
(* to the frame that made it, and a frame to the function it runs: closure *)
(* and frame link up to the variable that the text means.  A cell has what *)
(* that variable holds: while it is open, it points into the frame, and    *)
(* when the frame goes, the cell keeps the last value.                     *)

Up(F, L, k)  == L[F[k].definer].fn
Own(F, L, k) == Text[L[F[k].definer].text].locals

\* The closure of a function object: variables of the frame that made it, and
\* for the others the cells of the function which that frame runs.
LinkOK(F, L, k) ==
  /\ F[k].definer \in DOMAIN L /\ Up(F, L, k) \in Nat /\ Up(F, L, k) < k
  /\ F[k].text \in Text[L[F[k].definer].text].inner
  /\ \A n \in DOMAIN F[k].closure :
       \/ n \in Own(F, L, k) /\ F[k].closure[n] = <<k, n>>
       \/ /\ n \notin Own(F, L, k) /\ Up(F, L, k) # 0
          /\ n \in DOMAIN F[Up(F, L, k)].closure
          /\ F[k].closure[n] = F[Up(F, L, k)].closure[n]
  /\ \A n \in Passed[F[k].text] :
       n \in Own(F, L, k) \/ (Up(F, L, k) # 0 /\ n \in DOMAIN F[Up(F, L, k)].closure)
         => n \in DOMAIN F[k].closure

\* A frame ever made ran a module, or a function object that there was.
RanOK(F, L, i) == /\ L[i].fn \in Nat /\ L[i].fn <= Len(F) /\ L[i].text \in Texts
                  /\ L[i].fn # 0 => L[i].text = F[L[i].fn].text

LinksOK(F, L) == /\ \A i \in DOMAIN L : RanOK(F, L, i)
                 /\ \A k \in 1 .. Len(F) : LinkOK(F, L, k)

\* The variables of a frame are those recorded for it, its names those of the
\* function it runs, and its contexts cells of its own.
OwnOK(f, F, L) ==
  /\ L[f.id].values = f.locals
  /\ f.names = IF L[f.id].fn = 0 THEN <<>> ELSE F[L[f.id].fn].closure
  /\ \A l \in DOMAIN f.contexts : f.contexts[l] # 0 => /\ f.contexts[l] \in 1 .. Len(F)
                                                       /\ F[f.contexts[l]].definer = f.id

Distinct(s) == \A i, j \in 1 .. Len(s) : s[i].id = s[j].id => i = j

Off(s, d) == \A n \in 1 .. Len(s) : s[n].id # d

\* A cell that is not open has the last value of its variable, or was frozen
\* while its frame went on.
CellOK(c, x, s, F, L, gone) ==
  IF x.home # 0 THEN x.home = F[c[1]].definer
  ELSE c \in gone \/ (x.object = L[F[c[1]].definer].values[c[2]] /\ Off(s, F[c[1]].definer))

SeesInv ==
  /\ Len(functions) <= MaxFunctions
  /\ LinksOK(functions, lives)
  /\ \A n \in 1 .. Len(frames) : OwnOK(frames[n], functions, lives)
  /\ Distinct(frames)
  /\ \A c \in DOMAIN cells : CellOK(c, cells[c], frames, functions, lives, early)

\* More function objects, and more frames, of which the old ones keep the
\* text and the function.
MoreFns(G, F) == /\ Len(F) \in Nat /\ Len(G) \in Nat /\ Len(F) <= Len(G)
                 /\ \A k \in 1 .. Len(F) : G[k] = F[k]
MoreRan(M, L) == /\ DOMAIN L \subseteq DOMAIN M
                 /\ \A i \in DOMAIN L : M[i].text = L[i].text /\ M[i].fn = L[i].fn

LEMMA LinksStay ==
  ASSUME NEW F, NEW G, NEW L, NEW M, MoreFns(G, F), MoreRan(M, L), LinksOK(F, L)
  PROVE  /\ \A i \in DOMAIN L : RanOK(G, M, i)
         /\ \A k \in 1 .. Len(F) : LinkOK(G, M, k)
<1>1. ASSUME NEW i \in DOMAIN L PROVE RanOK(G, M, i)
  BY DEF LinksOK, RanOK, MoreFns, MoreRan
<1>2. ASSUME NEW k \in 1 .. Len(F) PROVE LinkOK(G, M, k)
  <2>1. LinkOK(F, L, k) /\ G[k] = F[k] /\ k \in Nat /\ k <= Len(F)
    BY DEF LinksOK, MoreFns
  <2>2. Up(G, M, k) = Up(F, L, k) /\ Own(G, M, k) = Own(F, L, k)
        /\ F[k].definer \in DOMAIN M /\ M[F[k].definer].text = L[F[k].definer].text
    BY <2>1 DEF Up, Own, MoreRan, LinkOK
  <2>3. Up(F, L, k) # 0 => Up(F, L, k) \in 1 .. Len(F)
    BY <2>1 DEF LinkOK, MoreFns
  <2>4. Up(F, L, k) # 0 => G[Up(F, L, k)] = F[Up(F, L, k)]
    BY <2>3 DEF MoreFns
  <2> QED
    BY <2>1, <2>2, <2>4 DEF LinkOK
<1> QED
  BY <1>1, <1>2

LEMMA OwnStays ==
  ASSUME NEW F, NEW G, NEW L, NEW M, MoreFns(G, F), MoreRan(M, L), LinksOK(F, L),
         NEW f, f.id \in DOMAIN L, OwnOK(f, F, L), M[f.id].values = L[f.id].values
  PROVE  OwnOK(f, G, M)
<1>1. M[f.id].fn = L[f.id].fn
  BY DEF MoreRan
<1>2. L[f.id].fn # 0 => G[L[f.id].fn] = F[L[f.id].fn]
  BY DEF LinksOK, RanOK, MoreFns
<1>3. \A k \in 1 .. Len(F) : k \in 1 .. Len(G) /\ G[k] = F[k]
  BY DEF MoreFns
<1> QED
  BY <1>1, <1>2, <1>3 DEF OwnOK

LEMMA CellStays ==
  ASSUME NEW c, NEW x, NEW s, NEW t, NEW F, NEW G, NEW L, NEW M, NEW gone, NEW more,
         CellOK(c, x, s, F, L, gone), G[c[1]].definer = F[c[1]].definer, gone \subseteq more,
         Off(s, F[c[1]].definer) =>
           /\ M[F[c[1]].definer].values[c[2]] = L[F[c[1]].definer].values[c[2]]
           /\ Off(t, F[c[1]].definer)
  PROVE  CellOK(c, x, t, G, M, more)
BY DEF CellOK

\* Frames that differ in no more than the top of the value stack.
Alike(f, g) == /\ f.id = g.id /\ f.text = g.text /\ f.names = g.names
               /\ f.locals = g.locals /\ f.contexts = g.contexts

\* A step that drops frames or replaces the top of a value stack.
LEMMA SeesAlike ==
  ASSUME SeesInv, UNCHANGED <<functions, lives, early>>,
         Len(frames) \in Nat, Len(frames') \in Nat, Len(frames') <= Len(frames),
         \A n \in 1 .. Len(frames') : Alike(frames'[n], frames[n]),
         \A c \in DOMAIN cells' : CellOK(c, cells'[c], frames', functions, lives, early)
  PROVE  SeesInv'
<1>1. \A n \in 1 .. Len(frames') : n \in 1 .. Len(frames) /\ Alike(frames'[n], frames[n])
  OBVIOUS
<1>2. \A n \in 1 .. Len(frames') : OwnOK(frames'[n], functions, lives)
  BY <1>1 DEF SeesInv, OwnOK, Alike
<1>3. Distinct(frames')
  BY <1>1 DEF SeesInv, Distinct, Alike
<1> QED
  BY <1>2, <1>3 DEF SeesInv

\* A step that does nothing to the frames but push a value.
LEMMA SeesPush ==
  ASSUME PointsInv, RefsInv, SeesInv, frames # <<>>, NEW v, Push(v),
         UNCHANGED <<functions, cells, lives, early>>
  PROVE  SeesInv'
<1> DEFINE f == [Top EXCEPT !.top = v]
           n == Len(frames)
<1>1. IsFrame(Top) /\ n \in Nat \ {0} /\ Top = frames[n] /\ Shape(frames)
  BY TopOK DEF PointsInv
<1>2. f = [id |-> Top.id, text |-> Top.text, names |-> Top.names, locals |-> Top.locals,
           contexts |-> Top.contexts, top |-> v]
  BY <1>1 DEF IsFrame
<1>3. frames' = [frames EXCEPT ![n] = f]
  BY DEF Push, Becomes
<1> HIDE DEF f
<1>4. IsFrame(f) /\ Alike(f, Top)
  BY <1>1, <1>2 DEF IsFrame, Alike
<1>5. Len(frames') = n /\ frames'[n] = f /\ \A i \in 1 .. n - 1 : frames'[i] = frames[i]
  BY <1>1, <1>3, <1>4, ReplaceLast
<1> HIDE DEF n
<1>6. \A i \in 1 .. n : i = n \/ i \in 1 .. n - 1
  BY <1>1
<1>7. \A i \in 1 .. n : Alike(frames'[i], frames[i])
  BY <1>1, <1>4, <1>5, <1>6 DEF Alike
<1>8. \A d : Off(frames, d) => Off(frames', d)
  BY <1>5, <1>7 DEF Off, Alike, n
<1>9. \A c \in DOMAIN cells' : CellOK(c, cells'[c], frames', functions, lives, early)
  BY <1>8 DEF SeesInv, CellOK
<1>10. n <= n
  BY <1>1
<1> QED
  BY <1>1, <1>5, <1>7, <1>9, <1>10, SeesAlike DEF n

LEMMA SeesSame ==
  ASSUME SeesInv, UNCHANGED <<frames, functions, cells, lives, early>>
  PROVE  SeesInv'
BY DEF SeesInv

LEMMA SeesInit ==
  ASSUME Init
  PROVE  SeesInv
<1>1. PICK m \in Mains :
        /\ frames = <<NewFrame(1, m, <<>>, NoLocals(m))>>
        /\ lives = <<[fn |-> 0, text |-> m, values |-> NoLocals(m)]>>
  BY DEF Init
<1> DEFINE f == NewFrame(1, m, <<>>, NoLocals(m))
           e == [fn |-> 0, text |-> m, values |-> NoLocals(m)]
<1>2. m \in Texts /\ MaxFunctions \in Nat
  BY TextsAssumption, Zenon
<1>3. Len(<<>>) = 0 /\ DOMAIN <<>> = {}
  <2>1. << >> \in Seq({}) /\ Len(<< >>) = 0
    BY EmptySeq
  <2>2. DOMAIN << >> = 1 .. 0
    BY <2>1, LenProperties
  <2> QED
    BY <2>1, <2>2
<1>4. functions = <<>> /\ cells = <<>>
  BY DEF Init
<1>5. e.fn = 0 /\ e.text = m /\ e.values = NoLocals(m)
  OBVIOUS
<1>6. /\ f.id = 1 /\ f.names = <<>> /\ f.locals = NoLocals(m)
      /\ f.contexts = [l \in Text[m].locals |-> 0]
  BY DEF NewFrame
<1> HIDE DEF e, f
<1>7. lives = <<e>> /\ frames = <<f>>
  BY <1>1 DEF e, f
<1>8. DOMAIN lives = {1} /\ lives[1] = e /\ Len(frames) = 1 /\ frames[1] = f
  BY <1>7
<1>9. LinksOK(functions, lives)
  BY <1>2, <1>3, <1>4, <1>5, <1>8 DEF LinksOK, RanOK
<1>10. OwnOK(f, functions, lives)
  BY <1>5, <1>6, <1>8 DEF OwnOK
<1>11. \A n \in 1 .. Len(frames) : OwnOK(frames[n], functions, lives)
  BY <1>8, <1>10
<1>12. Distinct(frames)
  BY <1>8 DEF Distinct
<1> QED
  BY <1>2, <1>3, <1>4, <1>9, <1>11, <1>12 DEF SeesInv

\* What the frame on top writes to a variable changes no other frame's.
LEMMA RecordsOne ==
  ASSUME PointsInv, RefsInv, frames # <<>>, NEW name, NEW value, Records(name, value)
  PROVE  /\ MoreRan(lives', lives) /\ DOMAIN lives' = DOMAIN lives
         /\ lives'[Top.id].values = [lives[Top.id].values EXCEPT ![name] = value]
         /\ \A i \in DOMAIN lives : i # Top.id => lives'[i] = lives[i]
<1> DEFINE id == Top.id
           L  == lives
           M  == lives'
           e  == [L[id] EXCEPT !.values[name] = value]
           v  == [L[id].values EXCEPT ![name] = value]
<1>1. id \in DOMAIN L /\ LivesOK(L)
  BY TopOK DEF RefsInv
<1>2. M = [L EXCEPT ![id] = e]
  BY DEF Records
<1> HIDE DEF id, L, M
<1>3. L[id] = [fn |-> L[id].fn, text |-> L[id].text, values |-> L[id].values]
  BY <1>1 DEF LivesOK
<1>4. e = [fn |-> L[id].fn, text |-> L[id].text, values |-> v]
  BY <1>3
<1> HIDE DEF e, v
<1>5. /\ DOMAIN M = DOMAIN L /\ M[id] = e
      /\ \A i \in DOMAIN L : i # id => M[i] = L[i]
  BY <1>1, <1>2
<1>6. e.fn = L[id].fn /\ e.text = L[id].text /\ e.values = v
  BY <1>4
<1>7. MoreRan(M, L)
  BY <1>5, <1>6 DEF MoreRan
<1> QED
  BY <1>5, <1>6, <1>7 DEF id, L, M, v

\* The frame on top changes its variables and contexts, and what is recorded
\* of it; functions and frames may be made.
LEMMA SeesBecome ==
  ASSUME PointsInv, RefsInv, SeesInv, frames # <<>>,
         NEW f, IsFrame(f), f.id = Top.id, Becomes(f),
         MoreFns(functions', functions), MoreRan(lives', lives),
         \A i \in DOMAIN lives : i # Top.id => lives'[i].values = lives[i].values,
         OwnOK(f, functions', lives')
  PROVE  /\ Len(frames') = Len(frames)
         /\ \A n \in 1 .. Len(frames') : OwnOK(frames'[n], functions', lives')
         /\ Distinct(frames')
         /\ \A d : Off(frames, d) => d # Top.id /\ Off(frames', d)
<1> DEFINE n == Len(frames)
<1>1. n \in Nat \ {0} /\ Top = frames[n] /\ Shape(frames)
  BY TopOK DEF PointsInv
<1>2. frames' = [frames EXCEPT ![n] = f]
  BY DEF Becomes
<1>3. Len(frames') = n /\ frames'[n] = f /\ \A i \in 1 .. n - 1 : frames'[i] = frames[i]
  BY <1>1, <1>2, ReplaceLast
<1> HIDE DEF n
<1>4. \A i \in 1 .. n : i = n \/ i \in 1 .. n - 1
  BY <1>1
<1>5. \A i \in 1 .. n : frames'[i].id = frames[i].id
  BY <1>1, <1>3, <1>4
<1>6. Distinct(frames) /\ LinksOK(functions, lives)
  BY DEF SeesInv
<1>7. Distinct(frames')
  BY <1>3, <1>5, <1>6 DEF Distinct, n
<1>8. n \in 1 .. n
  BY <1>1
<1>9. \A d : Off(frames, d) => d # Top.id /\ Off(frames', d)
  BY <1>1, <1>3, <1>5, <1>8 DEF Off, n
<1>10. ASSUME NEW i \in 1 .. n - 1 PROVE OwnOK(frames'[i], functions', lives')
  <2>1. i \in 1 .. n /\ i # n
    BY <1>1
  <2>2. frames[i].id # Top.id
    BY <1>1, <1>6, <1>8, <2>1 DEF Distinct, n
  <2>3. OwnOK(frames[i], functions, lives)
    BY <2>1 DEF SeesInv, n
  <2>4. frames[i].id \in DOMAIN lives
    BY <2>1 DEF RefsInv, StackOK, FrameOK, n
  <2>5. lives'[frames[i].id].values = lives[frames[i].id].values
    BY <2>2, <2>4
  <2>6. OwnOK(frames[i], functions', lives')
    BY <1>6, <2>3, <2>4, <2>5, OwnStays
  <2> QED
    BY <1>3, <2>6
<1>11. \A i \in 1 .. n : OwnOK(frames'[i], functions', lives')
  BY <1>3, <1>4, <1>10
<1> QED
  BY <1>3, <1>7, <1>9, <1>11 DEF n

LEMMA SameFns ==
  ASSUME PointsInv
  PROVE  MoreFns(functions, functions)
<1>1. Len(functions) \in Nat
  BY LenProperties DEF PointsInv
<1> QED
  BY <1>1 DEF MoreFns

LEMMA SeesStore ==
  ASSUME PointsInv, RefsInv, SeesInv, Store
  PROVE  SeesInv'
<1>1. frames # <<>> /\ UNCHANGED <<functions, cells, early>>
  BY DEF Store, Runs
<1>2. PICK name \in Locals : /\ Becomes([Top EXCEPT !.locals[name] = Top.top, !.top = Null])
                             /\ Records(name, Top.top)
  BY DEF Store
<1> DEFINE f == [Top EXCEPT !.locals[name] = Top.top, !.top = Null]
           v == [Top.locals EXCEPT ![name] = Top.top]
<1>3. /\ IsFrame(Top) /\ Top.id \in DOMAIN lives /\ LivesOK(lives)
      /\ Len(frames) \in Nat \ {0} /\ Top = frames[Len(frames)]
  BY <1>1, TopOK DEF RefsInv
<1>4. f = [id |-> Top.id, text |-> Top.text, names |-> Top.names, locals |-> v,
           contexts |-> Top.contexts, top |-> Null]
  <2> DEFINE g == [Top EXCEPT !.locals[name] = Top.top]
  <2>1. f = [g EXCEPT !.top = Null]
    OBVIOUS
  <2>2. g = [id |-> Top.id, text |-> Top.text, names |-> Top.names, locals |-> v,
             contexts |-> Top.contexts, top |-> Top.top]
    BY <1>3 DEF IsFrame
  <2> HIDE DEF f, g, v
  <2> QED
    BY <2>1, <2>2
<1>5. OwnOK(Top, functions, lives)
  <2>1. Len(frames) \in 1 .. Len(frames)
    BY <1>3
  <2> QED
    BY <1>3, <2>1 DEF SeesInv
<1>6. /\ MoreRan(lives', lives)
      /\ lives'[Top.id].values = [lives[Top.id].values EXCEPT ![name] = Top.top]
      /\ \A i \in DOMAIN lives : i # Top.id => lives'[i] = lives[i]
  BY <1>1, <1>2, RecordsOne
<1>7. lives'[Top.id].values = v
  BY <1>5, <1>6 DEF OwnOK
<1> HIDE DEF v
<1>8. IsFrame(f) /\ f.id = Top.id /\ OwnOK(f, functions, lives')
  BY <1>3, <1>4, <1>5, <1>6, <1>7 DEF IsFrame, OwnOK, MoreRan
<1> HIDE DEF f
<1>9. MoreFns(functions, functions)
  BY SameFns
<1>10. /\ \A n \in 1 .. Len(frames') : OwnOK(frames'[n], functions, lives')
       /\ Distinct(frames')
       /\ \A d : Off(frames, d) => d # Top.id /\ Off(frames', d)
  BY <1>1, <1>2, <1>6, <1>8, <1>9, SeesBecome DEF f
<1>11. LinksOK(functions, lives')
  <2>1. LinksOK(functions, lives)
    BY DEF SeesInv
  <2>2. DOMAIN lives' = DOMAIN lives
    BY <1>2 DEF Records
  <2> QED
    BY <1>6, <1>9, <2>1, <2>2, LinksStay DEF LinksOK
<1>12. ASSUME NEW c \in DOMAIN cells
       PROVE  CellOK(c, cells[c], frames', functions, lives', early)
  <2>1. CellOK(c, cells[c], frames, functions, lives, early)
    BY DEF SeesInv
  <2>2. functions[c[1]].definer \in DOMAIN lives
    BY DEF RefsInv, CellsOK, FunctionsOK
  <2>3. Off(frames, functions[c[1]].definer) =>
          /\ lives'[functions[c[1]].definer].values[c[2]] = lives[functions[c[1]].definer].values[c[2]]
          /\ Off(frames', functions[c[1]].definer)
    BY <1>6, <1>10, <2>2
  <2> QED
    BY <2>1, <2>3, CellStays
<1> QED
  BY <1>1, <1>10, <1>11, <1>12 DEF SeesInv

\* Freezing cells while the frame goes on: they are given up.
LEMMA FrozenEarly ==
  ASSUME PointsInv, RefsInv, SeesInv, NEW gone, NEW f, NEW t, NEW G, NEW M, NEW more,
         early \subseteq more, gone \subseteq more,
         \A k \in 1 .. Len(functions) : G[k] = functions[k],
         \A d \in DOMAIN lives : Off(frames, d) => M[d].values = lives[d].values /\ Off(t, d)
  PROVE  \A c \in DOMAIN cells : CellOK(c, Frozen(gone, f)[c], t, G, M, more)
<1> SUFFICES ASSUME NEW c \in DOMAIN cells
             PROVE  CellOK(c, Frozen(gone, f)[c], t, G, M, more)
  OBVIOUS
<1>1. CASE c \in gone
  <2>1. Frozen(gone, f)[c].home = 0
    BY <1>1 DEF Frozen
  <2> QED
    BY <1>1, <2>1 DEF CellOK
<1>2. CASE c \notin gone
  <2> DEFINE F == functions
             L == lives
             x == cells[c]
  <2>1. Frozen(gone, f)[c] = x
    BY <1>2 DEF Frozen
  <2>2. CellOK(c, x, frames, F, L, early)
    BY DEF SeesInv
  <2>3. c[1] \in 1 .. Len(F)
    BY DEF RefsInv, CellsOK
  <2>4. G[c[1]].definer = F[c[1]].definer /\ F[c[1]].definer \in DOMAIN L
    BY <2>3 DEF RefsInv, FunctionsOK
  <2>5. Off(frames, F[c[1]].definer) =>
          /\ M[F[c[1]].definer].values[c[2]] = L[F[c[1]].definer].values[c[2]]
          /\ Off(t, F[c[1]].definer)
    BY <2>4
  <2> HIDE DEF F, L, x
  <2>6. CellOK(c, x, t, G, M, more)
    BY <2>2, <2>4, <2>5, CellStays
  <2> QED
    BY <2>1, <2>6
<1> QED
  BY <1>1, <1>2

LEMMA TopOwn ==
  ASSUME PointsInv, RefsInv, SeesInv, frames # <<>>
  PROVE  OwnOK(Top, functions, lives)
<1>1. Len(frames) \in 1 .. Len(frames) /\ Top = frames[Len(frames)]
  <2>1. Len(frames) \in Nat \ {0} /\ Top = frames[Len(frames)]
    BY TopOK
  <2> QED
    BY <2>1
<1> QED
  BY <1>1 DEF SeesInv

LEMMA SeesDelete ==
  ASSUME PointsInv, RefsInv, SeesInv, Delete
  PROVE  SeesInv'
<1>1. frames # <<>> /\ UNCHANGED functions
  BY DEF Delete, Runs
<1>2. PICK name \in Locals :
         IF Top.locals[name] = Null
         THEN UNCHANGED <<frames, cells, lives, early>>
         ELSE LET kept == [Top EXCEPT !.locals[name] = Null, !.contexts[name] = 0]
                  gone == Held(Top, {name})
              IN  /\ Becomes(kept) /\ cells' = Frozen(gone, kept)
                  /\ early' = early \cup gone /\ Records(name, Null)
  BY DEF Delete, Throw
<1>3. CASE Top.locals[name] = Null
  BY <1>1, <1>2, <1>3, SeesSame
<1>4. CASE Top.locals[name] # Null
  <2> DEFINE f == [Top EXCEPT !.locals[name] = Null, !.contexts[name] = 0]
             v == [Top.locals EXCEPT ![name] = Null]
             x == [Top.contexts EXCEPT ![name] = 0]
             gone == Held(Top, {name})
  <2>1. /\ IsFrame(Top) /\ Locals = DOMAIN Top.contexts /\ OwnOK(Top, functions, lives)
        /\ Top.id \in DOMAIN lives
    BY <1>1, TopOK, TopOwn
  <2>2. f = [id |-> Top.id, text |-> Top.text, names |-> Top.names, locals |-> v,
             contexts |-> x, top |-> Top.top]
    <3> DEFINE g == [Top EXCEPT !.locals[name] = Null]
    <3>1. f = [g EXCEPT !.contexts[name] = 0]
      OBVIOUS
    <3>2. g = [id |-> Top.id, text |-> Top.text, names |-> Top.names, locals |-> v,
               contexts |-> Top.contexts, top |-> Top.top]
      BY <2>1 DEF IsFrame
    <3> HIDE DEF f, g, v
    <3> QED
      BY <3>1, <3>2
  <2>3. /\ x = [l \in Text[Top.text].locals |-> x[l]]
        /\ DOMAIN x = DOMAIN Top.contexts
        /\ \A l \in DOMAIN x : x[l] # 0 => x[l] = Top.contexts[l]
    BY <2>1 DEF IsFrame
  <2>4. Becomes(f) /\ cells' = Frozen(gone, f) /\ early' = early \cup gone /\ Records(name, Null)
    BY <1>2, <1>4
  <2>5. /\ MoreRan(lives', lives) /\ DOMAIN lives' = DOMAIN lives
        /\ lives'[Top.id].values = [lives[Top.id].values EXCEPT ![name] = Null]
        /\ \A i \in DOMAIN lives : i # Top.id => lives'[i] = lives[i]
    BY <1>1, <2>4, RecordsOne
  <2>6. lives'[Top.id].values = v
    BY <2>1, <2>5 DEF OwnOK
  <2> HIDE DEF v, x, f
  <2>7. IsFrame(f) /\ f.id = Top.id /\ OwnOK(f, functions, lives')
    <3>1. IsFrame(f) /\ f.id = Top.id
      BY <2>2, <2>3 DEF IsFrame
    <3>2. lives'[Top.id].fn = lives[Top.id].fn
      BY <2>1, <2>5 DEF MoreRan
    <3>3. f.locals = v /\ f.names = Top.names /\ f.contexts = x
      BY <2>2
    <3>4. \A l \in DOMAIN x : x[l] # 0 => x[l] \in 1 .. Len(functions) /\ functions[x[l]].definer = Top.id
      BY <2>1, <2>3 DEF OwnOK
    <3>5. Top.names = IF lives'[Top.id].fn = 0 THEN <<>> ELSE functions[lives'[Top.id].fn].closure
      BY <2>1, <3>2 DEF OwnOK
    <3> QED
      BY <2>6, <3>1, <3>3, <3>4, <3>5 DEF OwnOK
  <2>8. MoreFns(functions, functions)
    BY SameFns
  <2>9. /\ \A n \in 1 .. Len(frames') : OwnOK(frames'[n], functions, lives')
        /\ Distinct(frames')
        /\ \A d : Off(frames, d) => d # Top.id /\ Off(frames', d)
    BY <1>1, <2>4, <2>5, <2>7, <2>8, SeesBecome
  <2>10. LinksOK(functions, lives')
    <3>1. LinksOK(functions, lives)
      BY DEF SeesInv
    <3> QED
      BY <2>5, <2>8, <3>1, LinksStay DEF LinksOK
  <2>11. \A c \in DOMAIN cells : CellOK(c, cells'[c], frames', functions, lives', early')
    <3>1. early \subseteq early' /\ gone \subseteq early'
      BY <2>4
    <3>2. \A d \in DOMAIN lives : Off(frames, d) => lives'[d].values = lives[d].values /\ Off(frames', d)
      BY <2>5, <2>9
    <3> HIDE DEF gone
    <3> QED
      BY <2>4, <3>1, <3>2, FrozenEarly
  <2>12. DOMAIN cells' = DOMAIN cells
    BY <2>4 DEF Frozen
  <2> QED
    BY <1>1, <2>9, <2>10, <2>11, <2>12 DEF SeesInv
<1> QED
  BY <1>3, <1>4

\* A new function object links to the frame that makes it.
LEMMA LinkMade ==
  ASSUME PointsInv, RefsInv, SeesInv, frames # <<>>, NEW g \in Text[Top.text].inner,
         NEW G, MoreFns(G, functions),
         LET k == Len(functions) + 1
         IN  G[k].text = g /\ G[k].closure = Closure(g) /\ G[k].definer = Top.id
  PROVE  LinkOK(G, lives, Len(functions) + 1)
<1> DEFINE k == Len(functions) + 1
           d == Top.id
           u == lives[d].fn
<1>1. /\ d \in DOMAIN lives /\ Top.text = lives[d].text /\ Len(functions) \in Nat
      /\ OwnOK(Top, functions, lives) /\ RanOK(functions, lives, d)
  BY TopOK, TopOwn DEF SeesInv, LinksOK, FrameOK
<1>2. Own(G, lives, k) = Locals /\ Up(G, lives, k) = u
  BY <1>1 DEF Own, Up, Locals
<1>3. u \in Nat /\ u < k /\ k \in Nat
  BY <1>1 DEF RanOK
<1>4. u # 0 => Top.names = G[u].closure
  <2>1. u # 0 => u \in 1 .. Len(functions)
    BY <1>1 DEF RanOK
  <2> QED
    BY <1>1, <2>1 DEF OwnOK, MoreFns
<1>5. u = 0 => DOMAIN Top.names = {}
  <2>1. << >> \in Seq({}) /\ Len(<< >>) = 0
    BY EmptySeq
  <2>2. DOMAIN << >> = 1 .. 0
    BY <2>1, LenProperties
  <2> QED
    BY <1>1, <2>2 DEF OwnOK
<1>6. /\ G[k].text = g /\ G[k].closure = Closure(g) /\ G[k].definer = d
      /\ g \in Text[lives[d].text].inner
  BY <1>1
<1>7. /\ DOMAIN Closure(g) = FreeVars(g) \cap (Locals \cup DOMAIN Top.names)
      /\ \A n \in DOMAIN Closure(g) : Closure(g)[n] = IF n \in Locals THEN <<k, n>> ELSE Top.names[n]
  BY DEF Closure
<1>8. FreeVars(g) = Passed[g]
  BY DEF FreeVars
<1> HIDE DEF k, d, u
<1>9. ASSUME NEW n \in DOMAIN Closure(g)
      PROVE  \/ n \in Locals /\ Closure(g)[n] = <<k, n>>
             \/ /\ n \notin Locals /\ u # 0
                /\ n \in DOMAIN G[u].closure /\ Closure(g)[n] = G[u].closure[n]
  BY <1>4, <1>5, <1>7
<1>10. \A n \in Passed[g] : n \in Locals \/ (u # 0 /\ n \in DOMAIN G[u].closure) => n \in DOMAIN Closure(g)
  BY <1>4, <1>7, <1>8
<1>11. LinkOK(G, lives, k)
  BY <1>1, <1>2, <1>3, <1>6, <1>9, <1>10 DEF LinkOK
<1> QED
  BY <1>11 DEF k

LEMMA SeesMakeFunction ==
  ASSUME PointsInv, RefsInv, SeesInv, MakeFunction
  PROVE  SeesInv'
<1> DEFINE m == Len(functions)
           k == m + 1
<1>1. PICK g \in Text[Top.text].inner :
        /\ functions' = Append(functions, [text |-> g, closure |-> Closure(g), definer |-> Top.id])
        /\ cells' = [c \in {<<k, n>> : n \in Captured(g)} \cup DOMAIN cells |->
                       IF c \in {<<k, n>> : n \in Captured(g)} THEN [home |-> Top.id, object |-> Null]
                       ELSE Frozen(Held(Top, Captured(g)), Top)[c]]
        /\ early' = early \cup Held(Top, Captured(g))
        /\ Becomes([Top EXCEPT !.top = Fn(k),
                      !.contexts = [l \in Locals |-> IF l \in Captured(g) THEN k ELSE @[l]]])
  BY DEF MakeFunction
<1> DEFINE new  == {<<k, n>> : n \in Captured(g)}
           gone == Held(Top, Captured(g))
           old  == Frozen(gone, Top)
           f    == [Top EXCEPT !.top = Fn(k),
                      !.contexts = [l \in Locals |-> IF l \in Captured(g) THEN k ELSE @[l]]]
           x    == [l \in Locals |-> IF l \in Captured(g) THEN k ELSE Top.contexts[l]]
           e    == [text |-> g, closure |-> Closure(g), definer |-> Top.id]
<1>2. frames # <<>> /\ UNCHANGED lives /\ m < MaxFunctions
  BY DEF MakeFunction, Runs
<1>3. /\ IsFrame(Top) /\ Locals = DOMAIN Top.contexts /\ m \in Nat
      /\ OwnOK(Top, functions, lives) /\ Top.id \in DOMAIN lives
  BY <1>2, TopOK, TopOwn
<1>4. MaxFunctions \in Nat
  BY TextsAssumption, Zenon
<1>5. f = [id |-> Top.id, text |-> Top.text, names |-> Top.names, locals |-> Top.locals,
           contexts |-> x, top |-> Fn(k)]
  <2> DEFINE h == [Top EXCEPT !.top = Fn(k)]
  <2>1. h = [id |-> Top.id, text |-> Top.text, names |-> Top.names, locals |-> Top.locals,
             contexts |-> Top.contexts, top |-> Fn(k)]
    BY <1>3 DEF IsFrame
  <2>2. f = [h EXCEPT !.contexts = x]
    BY <2>1
  <2> HIDE DEF h, f, x
  <2> QED
    BY <2>1, <2>2
<1>6. /\ Len(functions') = k
      /\ \A i \in 1 .. m : functions'[i] = functions[i]
      /\ functions'[k] = e
  <2>1. PICK S : functions \in Seq(S)
    BY DEF PointsInv
  <2>2. functions \in Seq(S \cup {e}) /\ functions' = Append(functions, e)
    BY <1>1, <2>1, SeqMonotonic
  <2> HIDE DEF e
  <2> QED
    BY <2>2, AppendProperties
<1>7. k \in Nat /\ m <= k /\ k <= MaxFunctions /\ k \in 1 .. k /\ \A i \in 1 .. k : i = k \/ i \in 1 .. m
  <2> HIDE DEF m
  <2> QED
    BY <1>2, <1>3, <1>4
<1>8. MoreFns(functions', functions)
  BY <1>3, <1>6, <1>7 DEF MoreFns
<1>9. MoreRan(lives', lives)
  BY <1>2 DEF MoreRan
<1>10. e.text = g /\ e.closure = Closure(g) /\ e.definer = Top.id
  OBVIOUS
<1>11. /\ DOMAIN cells' = new \cup DOMAIN cells
       /\ \A c \in new : cells'[c].home = Top.id
       /\ \A c \in DOMAIN cells \ new : cells'[c] = old[c]
       /\ early' = early \cup gone /\ Becomes(f)
  BY <1>1
<1>12. LinkOK(functions', lives', k)
  <2>1. functions'[k].text = g /\ functions'[k].closure = Closure(g) /\ functions'[k].definer = Top.id
    BY <1>6, <1>10
  <2>2. LinkOK(functions', lives, k)
    BY <1>2, <1>8, <2>1, LinkMade
  <2> QED
    BY <1>2, <2>2
<1>13. LinksOK(functions', lives')
  <2>1. LinksOK(functions, lives) /\ DOMAIN lives' = DOMAIN lives
    BY <1>2 DEF SeesInv
  <2>2. /\ \A i \in DOMAIN lives : RanOK(functions', lives', i)
        /\ \A i \in 1 .. m : LinkOK(functions', lives', i)
    BY <1>8, <1>9, <2>1, LinksStay
  <2> HIDE DEF k, m
  <2> QED
    BY <1>6, <1>7, <1>12, <2>1, <2>2 DEF LinksOK
<1> HIDE DEF f
<1>14. IsFrame(f) /\ f.id = Top.id /\ f.locals = Top.locals /\ f.names = Top.names /\ f.contexts = x
  BY <1>5 DEF IsFrame, Locals
<1>15. OwnOK(f, functions', lives')
  <2>1. OwnOK(Top, functions', lives')
    <3>1. lives'[Top.id].values = lives[Top.id].values /\ LinksOK(functions, lives)
      BY <1>2 DEF SeesInv
    <3> QED
      BY <1>3, <1>8, <1>9, <3>1, OwnStays
  <2>2. \A l \in DOMAIN x : x[l] = k \/ (l \in DOMAIN Top.contexts /\ x[l] = Top.contexts[l])
    BY <1>3
  <2> HIDE DEF x, k
  <2>3. \A l \in DOMAIN x : x[l] # 0 => x[l] \in 1 .. Len(functions') /\ functions'[x[l]].definer = Top.id
    BY <1>6, <1>7, <1>10, <2>1, <2>2 DEF OwnOK
  <2> QED
    BY <1>14, <2>1, <2>3 DEF OwnOK
<1>16. /\ \A n \in 1 .. Len(frames') : OwnOK(frames'[n], functions', lives')
       /\ Distinct(frames')
       /\ \A d : Off(frames, d) => d # Top.id /\ Off(frames', d)
  BY <1>2, <1>8, <1>9, <1>11, <1>14, <1>15, SeesBecome
<1>17. \A c \in DOMAIN cells : CellOK(c, old[c], frames', functions', lives', early')
  <2>1. early \subseteq early' /\ gone \subseteq early'
    BY <1>11
  <2>2. \A d \in DOMAIN lives : Off(frames, d) => lives'[d].values = lives[d].values /\ Off(frames', d)
    BY <1>2, <1>16
  <2>3. \A i \in 1 .. Len(functions) : functions'[i] = functions[i]
    BY <1>6
  <2> HIDE DEF gone
  <2> QED
    BY <2>1, <2>2, <2>3, FrozenEarly DEF old
<1>18. ASSUME NEW c \in new PROVE CellOK(c, cells'[c], frames', functions', lives', early')
  <2>1. c[1] = k
    OBVIOUS
  <2>2. functions'[c[1]].definer = Top.id /\ cells'[c].home = Top.id
    BY <1>6, <1>10, <1>11, <2>1
  <2>3. Top.id # 0
    <3>1. \A i \in DOMAIN lives : i \in Nat \ {0}
      <4>1. PICK S : lives \in Seq(S)
        BY DEF RefsInv, LivesOK
      <4>2. DOMAIN lives = 1 .. Len(lives) /\ Len(lives) \in Nat
        BY <4>1, LenProperties
      <4> QED
        BY <4>2
    <3> QED
      BY <1>3, <3>1
  <2> QED
    BY <2>2, <2>3 DEF CellOK
<1> HIDE DEF new, old, k, m
<1>19. \A c \in DOMAIN cells' : CellOK(c, cells'[c], frames', functions', lives', early')
  BY <1>11, <1>17, <1>18
<1> QED
  BY <1>6, <1>7, <1>13, <1>16, <1>19 DEF SeesInv

\* The call of a function object: a frame more, which is no other's.
LEMMA SeesInvoke ==
  ASSUME PointsInv, RefsInv, SeesInv, Invoke
  PROVE  SeesInv'
<1> DEFINE k  == Top.top.v
           g  == functions[k].text
           id == Len(lives) + 1
<1>1. frames # <<>> /\ Top.top.k = "fn" /\ UNCHANGED <<functions, cells, early>>
  BY DEF Invoke
<1>2. PICK c \in Arguments[g] :
        \/ UNCHANGED <<frames, lives>>
        \/ /\ frames' = Append([frames EXCEPT ![Len(frames)].top = Null],
                               NewFrame(id, g, functions[k].closure, Bound(g, c)))
           /\ lives' = Append(lives, [fn |-> k, text |-> g, values |-> Bound(g, c)])
  BY DEF Invoke, Throw
<1>3. CASE UNCHANGED <<frames, lives>>
  BY <1>1, <1>3, SeesSame
<1>4. CASE /\ frames' = Append([frames EXCEPT ![Len(frames)].top = Null],
                               NewFrame(id, g, functions[k].closure, Bound(g, c)))
           /\ lives' = Append(lives, [fn |-> k, text |-> g, values |-> Bound(g, c)])
  <2> DEFINE f == [Top EXCEPT !.top = Null]
             n == Len(frames)
             s == [frames EXCEPT ![n] = f]
             e == NewFrame(id, g, functions[k].closure, Bound(g, c))
             r == [fn |-> k, text |-> g, values |-> Bound(g, c)]
             L == lives
             M == lives'
  <2>1. /\ IsFrame(Top) /\ FrameOK(Top, Len(functions), DOMAIN cells, lives) /\ n \in Nat \ {0}
        /\ Top = frames[n] /\ Len(functions) \in Nat /\ Shape(frames)
    BY <1>1, TopOK DEF PointsInv
  <2>2. k \in 1 .. Len(functions) /\ k \in Nat \ {0} /\ k <= Len(functions)
    <3>1. k \in 1 .. Len(functions)
      BY <1>1, <2>1 DEF FrameOK, Sound
    <3> HIDE DEF k
    <3> QED
      BY <2>1, <3>1
  <2>3. g \in Texts
    BY <2>2 DEF RefsInv, FunctionsOK
  <2>4. f = [id |-> Top.id, text |-> Top.text, names |-> Top.names, locals |-> Top.locals,
             contexts |-> Top.contexts, top |-> Null]
    BY <2>1 DEF IsFrame
  <2> HIDE DEF f
  <2>5. IsFrame(f) /\ Alike(f, Top)
    BY <2>1, <2>4 DEF IsFrame, Alike
  <2>6. /\ Shape(s) /\ Len(s) = n /\ s[n] = f /\ \A i \in 1 .. n - 1 : s[i] = frames[i]
    BY <1>1, <2>1, <2>5, ReplaceLast
  <2>7. frames' = Append(s, e) /\ M = Append(L, r)
    BY <1>4 DEF Top, Last, f
  <2>8. /\ e.id = id /\ e.names = functions[k].closure /\ e.locals = Bound(g, c)
        /\ e.contexts = [l \in Text[g].locals |-> 0]
    BY DEF NewFrame
  <2>9. r.fn = k /\ r.text = g /\ r.values = Bound(g, c)
    OBVIOUS
  <2> HIDE DEF s, e, r, n, g, k, M
  <2>10. /\ Len(frames') = n + 1
         /\ \A i \in 1 .. n : frames'[i] = s[i]
         /\ frames'[n + 1] = e
    <3>1. PICK S : s \in Seq(S)
      BY <2>6 DEF Shape
    <3>2. s \in Seq(S \cup {e})
      BY <3>1, SeqMonotonic
    <3> QED
      BY <2>6, <2>7, <3>2, AppendProperties
  <2>11. /\ Len(L) \in Nat /\ DOMAIN L = 1 .. Len(L) /\ DOMAIN M = 1 .. Len(L) + 1
         /\ \A i \in 1 .. Len(L) : M[i] = L[i]
         /\ M[id] = r
    <3>1. PICK S : L \in Seq(S)
      BY DEF RefsInv, LivesOK
    <3>2. L \in Seq(S \cup {r})
      BY <3>1, SeqMonotonic
    <3>3. /\ M \in Seq(S \cup {r}) /\ Len(M) = Len(L) + 1
          /\ \A i \in 1 .. Len(L) : M[i] = L[i]
          /\ M[id] = r
      BY <2>7, <3>2, AppendProperties
    <3> QED
      BY <3>2, <3>3, LenProperties
  <2>12. id \notin DOMAIN L /\ id \in DOMAIN M /\ DOMAIN L \subseteq DOMAIN M
         /\ \A i \in DOMAIN M : i \in DOMAIN L \/ i = id
    <3> DEFINE h == Len(L)
    <3>1. h \in Nat /\ DOMAIN L = 1 .. h /\ DOMAIN M = 1 .. h + 1 /\ id = h + 1
      BY <2>11
    <3> HIDE DEF h, id, L
    <3> QED
      BY <3>1
  <2>13. \A i \in DOMAIN L : M[i] = L[i]
    BY <2>11
  <2> HIDE DEF id, L
  <2>14. MoreRan(M, L)
    BY <2>12, <2>13 DEF MoreRan
  <2>15. MoreFns(functions, functions)
    BY SameFns
  <2>16. LinksOK(functions, L)
    BY DEF SeesInv, L
  <2>17. LinksOK(functions, M)
    <3>1. RanOK(functions, M, id)
      BY <2>2, <2>3, <2>9, <2>11 DEF RanOK, g
    <3>2. /\ \A i \in DOMAIN L : RanOK(functions, M, i)
          /\ \A i \in 1 .. Len(functions) : LinkOK(functions, M, i)
      BY <2>14, <2>15, <2>16, LinksStay
    <3> QED
      BY <2>12, <3>1, <3>2 DEF LinksOK
  <2>18. \A i \in 1 .. n : i = n \/ i \in 1 .. n - 1
    BY <2>1
  <2>19. \A i \in 1 .. n : Alike(frames'[i], frames[i])
    BY <2>1, <2>5, <2>6, <2>10, <2>18 DEF Alike
  <2>20. \A i \in 1 .. n : frames[i].id \in DOMAIN L
    BY DEF RefsInv, StackOK, FrameOK, n, L
  <2>21. ASSUME NEW i \in 1 .. n PROVE OwnOK(frames'[i], functions, M)
    <3>1. OwnOK(frames[i], functions, L)
      BY DEF SeesInv, n, L
    <3>2. M[frames[i].id].values = L[frames[i].id].values
      BY <2>13, <2>20
    <3>3. OwnOK(frames[i], functions, M)
      BY <2>14, <2>15, <2>16, <2>20, <3>1, <3>2, OwnStays
    <3> QED
      BY <2>19, <3>3 DEF OwnOK, Alike
  <2>22. OwnOK(e, functions, M)
    BY <2>2, <2>8, <2>9, <2>11 DEF OwnOK
  <2>23. \A i \in 1 .. n + 1 : i \in 1 .. n \/ i = n + 1
    BY <2>1
  <2>24. \A i \in 1 .. Len(frames') : OwnOK(frames'[i], functions, M)
    BY <2>10, <2>21, <2>22, <2>23
  <2>25. \A i \in 1 .. n : frames'[i].id = frames[i].id /\ frames'[i].id # id
    BY <2>12, <2>19, <2>20 DEF Alike
  <2>26. Distinct(frames')
    <3>1. \A i, j \in 1 .. n : frames[i].id = frames[j].id => i = j
      BY DEF SeesInv, Distinct, n
    <3> QED
      BY <2>8, <2>10, <2>23, <2>25, <3>1 DEF Distinct
  <2>27. \A d \in DOMAIN L : Off(frames, d) => Off(frames', d)
    BY <2>8, <2>10, <2>12, <2>23, <2>25 DEF Off, n
  <2>28. ASSUME NEW x \in DOMAIN cells PROVE CellOK(x, cells[x], frames', functions, M, early)
    <3>1. CellOK(x, cells[x], frames, functions, L, early)
      BY DEF SeesInv, L
    <3>2. functions[x[1]].definer \in DOMAIN L
      BY DEF RefsInv, CellsOK, FunctionsOK, L
    <3>3. Off(frames, functions[x[1]].definer) =>
            /\ M[functions[x[1]].definer].values[x[2]] = L[functions[x[1]].definer].values[x[2]]
            /\ Off(frames', functions[x[1]].definer)
      BY <2>13, <2>27, <3>2
    <3> QED
      BY <3>1, <3>3, CellStays
  <2> QED
    BY <1>1, <2>17, <2>24, <2>26, <2>28 DEF SeesInv, M
<1> QED
  BY <1>2, <1>3, <1>4

\* The frame on top leaves.  The cells that it held take the last values of
\* its variables, and it is on the stack no more.
LEMMA SeesLeave ==
  ASSUME PointsInv, RefsInv, SeesInv, frames # <<>>, UNCHANGED <<functions, lives, early>>,
         cells' = Frozen(Held(Top, Locals), Top), Len(frames') = Len(frames) - 1,
         \A n \in 1 .. Len(frames) - 1 : Alike(frames'[n], frames[n])
  PROVE  SeesInv'
<1> DEFINE n == Len(frames)
           gone == Held(Top, Locals)
<1>1. /\ n \in Nat \ {0} /\ Top = frames[n] /\ OwnOK(Top, functions, lives)
      /\ Locals = DOMAIN Top.contexts
  BY TopOK, TopOwn
<1>2. Len(frames') = n - 1 /\ \A i \in 1 .. n - 1 : Alike(frames'[i], frames[i])
  OBVIOUS
<1>3. \A i \in 1 .. n - 1 : frames[i].id # Top.id
  <2>1. Distinct(frames)
    BY DEF SeesInv
  <2>2. \A i \in 1 .. n - 1 : i \in 1 .. n /\ n \in 1 .. n /\ i # n
    <3> HIDE DEF n
    <3> QED
      BY <1>1
  <2> QED
    BY <1>1, <2>1, <2>2 DEF Distinct
<1>4. Off(frames', Top.id)
  BY <1>2, <1>3 DEF Off, Alike
<1>5. \A d : Off(frames, d) => Off(frames', d)
  <2>1. \A i \in 1 .. n - 1 : i \in 1 .. n
    <3> HIDE DEF n
    <3> QED
      BY <1>1
  <2> QED
    BY <1>2, <2>1 DEF Off, Alike
<1>6. ASSUME NEW c \in DOMAIN cells
      PROVE  CellOK(c, cells'[c], frames', functions, lives, early)
  <2>1. CASE c \in gone
    <3>1. PICK l \in Locals : Top.contexts[l] # 0 /\ c = <<Top.contexts[l], l>>
      BY <2>1 DEF Held
    <3>2. functions[c[1]].definer = Top.id /\ c[2] = l
      BY <1>1, <3>1 DEF OwnOK
    <3>3. cells'[c].home = 0 /\ cells'[c].object = Top.locals[l]
      BY <2>1, <3>1 DEF Frozen
    <3>4. Top.locals[l] = lives[Top.id].values[l]
      BY <1>1 DEF OwnOK
    <3> QED
      BY <1>4, <3>2, <3>3, <3>4 DEF CellOK
  <2>2. CASE c \notin gone
    <3>1. cells'[c] = cells[c]
      BY <2>2 DEF Frozen
    <3>2. CellOK(c, cells[c], frames, functions, lives, early)
      BY DEF SeesInv
    <3> QED
      BY <1>5, <3>1, <3>2 DEF CellOK
  <2> QED
    BY <2>1, <2>2
<1>7. DOMAIN cells' = DOMAIN cells
  BY DEF Frozen
<1>8. Len(frames') \in Nat /\ Len(frames') <= Len(frames)
  <2> HIDE DEF n
  <2>1. n - 1 \in Nat /\ n - 1 <= n
    BY <1>1
  <2> QED
    BY <1>2, <2>1 DEF n
<1> QED
  BY <1>1, <1>2, <1>6, <1>7, <1>8, SeesAlike

LEMMA SeesReturn ==
  ASSUME PointsInv, RefsInv, SeesInv, Return
  PROVE  SeesInv'
<1> DEFINE s == Front(frames)
           n == Len(frames) - 1
           result == IF Top.top = Null THEN Nothing ELSE Top.top
           f == [s[n] EXCEPT !.top = result]
<1>1. /\ frames # <<>> /\ UNCHANGED <<functions, lives, early>>
      /\ frames' = IF n = 0 THEN <<>> ELSE [s EXCEPT ![n] = f]
      /\ cells' = Frozen(Held(Top, Locals), Top)
  BY DEF Return, Runs, Leave
<1>2. Shape(s) /\ Len(s) = n /\ n \in Nat /\ \A i \in 1 .. n : s[i] = frames[i]
  <2>1. /\ Shape(s) /\ Len(frames) \in Nat \ {0} /\ Len(s) = Len(frames) - 1
        /\ \A i \in 1 .. Len(frames) - 1 : s[i] = frames[i]
    BY <1>1, DropLast DEF PointsInv
  <2>2. n \in Nat
    BY <2>1
  <2> QED
    BY <2>1, <2>2
<1> HIDE DEF s, n, result
<1>3. Len(frames') = n /\ \A i \in 1 .. n : Alike(frames'[i], frames[i])
  <2>1. CASE n = 0
    <3>1. Len(<<>>) = 0
      BY EmptySeq
    <3>2. frames' = <<>>
      BY <1>1, <2>1
    <3> QED
      BY <2>1, <3>1, <3>2
  <2>2. CASE n # 0
    <3>1. s # <<>>
      <4>1. Len(<<>>) = 0
        BY EmptySeq
      <4> QED
        BY <1>2, <2>2, <4>1
    <3>2. n \in 1 .. n /\ \A i \in 1 .. n : i = n \/ i \in 1 .. n - 1
      BY <1>2, <2>2
    <3>3. IsFrame(s[n])
      BY <1>2, <3>2 DEF Shape
    <3>4. f = [id |-> s[n].id, text |-> s[n].text, names |-> s[n].names, locals |-> s[n].locals,
               contexts |-> s[n].contexts, top |-> result]
      BY <3>3 DEF IsFrame
    <3> HIDE DEF f
    <3>5. IsFrame(f) /\ Alike(f, s[n])
      BY <3>3, <3>4 DEF IsFrame, Alike
    <3>6. frames' = [s EXCEPT ![Len(s)] = f]
      BY <1>1, <1>2, <2>2
    <3>7. Len(frames') = n /\ frames'[n] = f /\ \A i \in 1 .. n - 1 : frames'[i] = s[i]
      BY <1>2, <3>1, <3>5, <3>6, ReplaceLast
    <3> QED
      BY <1>2, <3>2, <3>5, <3>7 DEF Alike
  <2> QED
    BY <2>1, <2>2
<1> QED
  BY <1>1, <1>3, SeesLeave DEF n

LEMMA SeesUnwind ==
  ASSUME PointsInv, RefsInv, SeesInv, Unwind
  PROVE  SeesInv'
<1>1. /\ frames # <<>> /\ UNCHANGED <<functions, lives, early>>
      /\ frames' = Front(frames) /\ cells' = Frozen(Held(Top, Locals), Top)
  BY DEF Unwind, Handles, Leave
<1>2. /\ Len(frames') = Len(frames) - 1
      /\ \A n \in 1 .. Len(frames) - 1 : frames'[n] = frames[n]
  BY <1>1, DropLast DEF PointsInv
<1> QED
  BY <1>1, <1>2, SeesLeave DEF Alike

LEMMA SeesStep ==
  ASSUME PointsInv, RefsInv, SeesInv, [Next]_vars
  PROVE  SeesInv'
<1>1. CASE LoadConst
  BY <1>1, SeesPush DEF LoadConst, Runs
<1>2. CASE Load
  <2>1. frames # <<>> /\ UNCHANGED <<functions, cells, lives, early>>
    BY <1>2 DEF Load, Runs
  <2>2. UNCHANGED frames \/ \E name : Push(Value(name))
    BY <1>2 DEF Load, Throw
  <2> QED
    BY <2>1, <2>2, SeesPush, SeesSame
<1>3. CASE Raise
  BY <1>3, SeesSame DEF Raise, Throw
<1>4. CASE Catch
  BY <1>4, SeesPush DEF Catch, Handles
<1>5. CASE UNCHANGED vars
  BY <1>5, SeesSame DEF vars
<1> QED
  BY <1>1, <1>2, <1>3, <1>4, <1>5, SeesStore, SeesDelete, SeesMakeFunction, SeesInvoke,
     SeesReturn, SeesUnwind DEF Next

\* Closures, frames and cells stay linked, in every behaviour.
THEOREM ClosuresLink == Spec => [](PointsInv /\ RefsInv /\ SeesInv)
<1>1. Init => SeesInv
  BY SeesInit
<1>2. PointsInv /\ RefsInv /\ SeesInv /\ [Next]_vars => SeesInv'
  BY SeesStep
<1> QED
  BY <1>1, <1>2, RefsExist, PTL DEF Spec

-----------------------------------------------------------------------------
(* From the links to what a name means: down the chain of definitions, the *)
(* closure has the cell of the owner's variable.                           *)

\* One step of Owner, with the owners r that names have further out.
OwnerStep(k, r) ==
  [name \in Names |->
     IF k = 0 \/ k > Len(functions) THEN 0
     ELSE IF name \in Text[lives[functions[k].definer].text].locals THEN functions[k].definer
     ELSE r[name]]

Out(k) == lives[functions[k].definer].fn

\* Owner is well-defined, since a function object is younger than the one
\* that its definer runs.
LEMMA OwnerIs ==
  ASSUME PointsInv, RefsInv, SeesInv, NEW k \in 0 .. MaxFunctions
  PROVE  Owner[k] = OwnerStep(k, Owner[Out(k)])
<1> DEFINE m  == MaxFunctions
           Rec(O, n) == O = [i \in 0 .. n |-> OwnerStep(i, O[Out(i)])]
           S == {n \in Nat : \E O : Rec(O, n)}
<1>1. m \in Nat /\ Len(functions) \in Nat
  BY TextsAssumption, LenProperties, Zenon DEF PointsInv
<1>2. ASSUME NEW i \in Nat, i # 0, i <= Len(functions)
      PROVE  Out(i) \in Nat /\ Out(i) < i
  <2>1. i \in 1 .. Len(functions)
    BY <1>1, <1>2
  <2> QED
    BY <2>1 DEF SeesInv, LinksOK, LinkOK, Up, Out
<1>3. ASSUME NEW i \in Nat, i = 0 \/ i > Len(functions), NEW p, NEW q
      PROVE  OwnerStep(i, p) = OwnerStep(i, q)
  BY <1>3 DEF OwnerStep
<1>4. 0 \in S
  <2> DEFINE O == [i \in 0 .. 0 |-> OwnerStep(0, 0)]
  <2>1. \A i \in 0 .. 0 : i = 0 /\ i \in Nat
    OBVIOUS
  <2>2. \A i \in 0 .. 0 : OwnerStep(0, 0) = OwnerStep(i, O[Out(i)])
    BY <1>3, <2>1
  <2>3. Rec(O, 0)
    BY <2>2
  <2> HIDE DEF O, Rec
  <2> QED
    BY <2>3
<1>5. ASSUME NEW n \in Nat, n \in S PROVE n + 1 \in S
  <2>1. PICK O : Rec(O, n)
    BY <1>5
  <2> DEFINE P == [i \in 0 .. n + 1 |-> IF i \in 0 .. n THEN O[i] ELSE OwnerStep(i, O[Out(i)])]
  <2>2. \A i \in 0 .. n : P[i] = O[i] /\ O[i] = OwnerStep(i, O[Out(i)])
    BY <2>1
  <2>3. DOMAIN P = 0 .. n + 1 /\ \A i \in 0 .. n + 1 : P[i] = OwnerStep(i, O[Out(i)])
    BY <2>2
  <2>4. P = [i \in 0 .. n + 1 |-> P[i]]
    OBVIOUS
  <2> HIDE DEF P, Rec
  <2>5. ASSUME NEW i \in 0 .. n + 1 PROVE P[i] = OwnerStep(i, P[Out(i)])
    <3>1. CASE i # 0 /\ i <= Len(functions)
      <4>1. Out(i) \in 0 .. n
        BY <1>2, <3>1
      <4> QED
        BY <2>2, <2>3, <4>1
    <3>2. CASE ~(i # 0 /\ i <= Len(functions))
      <4>1. i \in Nat /\ (i = 0 \/ i > Len(functions))
        BY <1>1, <3>2
      <4> QED
        BY <1>3, <2>3, <4>1
    <3> QED
      BY <3>1, <3>2
  <2>6. Rec(P, n + 1)
    BY <2>4, <2>5 DEF Rec
  <2> QED
    BY <2>6
<1>6. m \in S
  <2> HIDE DEF S
  <2>1. Nat \subseteq S
    BY <1>4, <1>5, NatInd
  <2> QED
    BY <1>1, <2>1
<1>7. PICK O : Rec(O, m)
  BY <1>6
<1>8. Owner = CHOOSE f : f = [i \in 0 .. MaxFunctions |-> OwnerStep(i, f[Out(i)])]
  BY Zenon DEF Owner, OwnerStep, Out
<1>9. Rec(Owner, m)
  BY <1>7, <1>8
<1> QED
  BY <1>9

\* The names of an inner function are passed on, and so are its own.
LEMMA PassedOn ==
  ASSUME NEW f \in Texts
  PROVE  /\ Text[f].named \subseteq Passed[f]
         /\ \A g \in Text[f].inner : Passed[g] \subseteq Passed[f]
<1> DEFINE Closed(S) == \A h \in S : Text[h].inner \subseteq S
<1>1. \A g \in Texts : Inside[g] = {h \in Texts : \A S \in SUBSET Texts : g \in S /\ Closed(S) => h \in S}
  BY DEF Inside
<1>2. \A g \in Texts : Passed[g] = UNION {Text[h].named : h \in Inside[g]}
  BY DEF Passed
<1>3. Text[f].inner \subseteq Texts
  BY TextIs
<1>4. f \in Inside[f]
  BY <1>1
<1>5. ASSUME NEW g \in Text[f].inner PROVE Inside[g] \subseteq Inside[f]
  <2>1. g \in Texts
    BY <1>3
  <2>2. \A S \in SUBSET Texts : f \in S /\ Closed(S) => g \in S /\ Closed(S)
    OBVIOUS
  <2> HIDE DEF Closed
  <2> QED
    BY <1>1, <2>1, <2>2
<1> QED
  BY <1>2, <1>3, <1>4, <1>5

\* What the closure of a function object holds, and that it holds all that it
\* should.
ClosureOK(k) ==
  LET F == functions
  IN  /\ \A n \in DOMAIN F[k].closure : /\ n \in Names
                                        /\ F[k].closure[n][2] = n
                                        /\ F[F[k].closure[n][1]].definer = Owner[k][n]
      /\ \A n \in Names : n \in Passed[F[k].text] /\ Owner[k][n] # 0 => n \in DOMAIN F[k].closure

LEMMA ClosuresOK ==
  ASSUME PointsInv, RefsInv, SeesInv
  PROVE  \A k \in 1 .. Len(functions) : ClosureOK(k)
<1> DEFINE F == functions
           L == lives
           m == Len(F)
           T == {k \in 1 .. m : ~ClosureOK(k)}
<1>1. m \in Nat /\ m <= MaxFunctions /\ MaxFunctions \in Nat
  BY TextsAssumption, LenProperties, Zenon DEF PointsInv, SeesInv
<1>2. \A k \in 0 .. m : k \in 0 .. MaxFunctions
  <2> HIDE DEF m
  <2> QED
    BY <1>1
<1>3. \A k \in 0 .. m : Owner[k] = OwnerStep(k, Owner[Out(k)])
  BY <1>2, OwnerIs
<1>4. ASSUME NEW k \in 1 .. m, \A j \in 1 .. m : j < k => ClosureOK(j)
      PROVE  ClosureOK(k)
  <2> DEFINE d == F[k].definer
             u == Out(k)
             own == Text[L[d].text].locals
             g == F[k].text
  <2>1. LinkOK(F, L, k) /\ d \in DOMAIN L
    BY DEF SeesInv, LinksOK, LinkOK
  <2>2. u = Up(F, L, k) /\ own = Own(F, L, k)
    BY DEF Up, Own, Out
  <2>3. u \in Nat /\ u < k
    BY <2>1, <2>2 DEF LinkOK
  <2>4. RanOK(F, L, d)
    BY <2>1 DEF SeesInv, LinksOK
  <2>5. L[d].text \in Texts /\ (u # 0 => L[d].text = F[u].text)
    BY <2>4 DEF RanOK, Out
  <2>6. own \subseteq Names
    BY <2>5 DEF Names
  <2>7. u # 0 => u \in 1 .. m /\ ClosureOK(u)
    <3> HIDE DEF m, u
    <3> QED
      BY <1>1, <1>4, <2>3
  <2>8. k \in 0 .. m /\ 0 \in 0 .. m /\ k # 0 /\ ~(k > m)
    <3> HIDE DEF m
    <3> QED
      BY <1>1
  <2>9. \A n \in Names : Owner[k][n] = IF n \in own THEN d ELSE Owner[u][n]
    <3>1. Owner[k] = OwnerStep(k, Owner[u])
      BY <1>3, <2>8
    <3> QED
      BY <2>8, <3>1 DEF OwnerStep
  <2>10. \A n \in Names : Owner[0][n] = 0
    <3>1. Owner[0] = OwnerStep(0, Owner[Out(0)])
      BY <1>3, <2>8
    <3> QED
      BY <3>1 DEF OwnerStep
  <2>11. /\ g \in Text[L[d].text].inner
         /\ \A n \in DOMAIN F[k].closure :
              \/ n \in own /\ F[k].closure[n] = <<k, n>>
              \/ /\ n \notin own /\ u # 0
                 /\ n \in DOMAIN F[u].closure /\ F[k].closure[n] = F[u].closure[n]
         /\ \A n \in Passed[g] : n \in own \/ (u # 0 /\ n \in DOMAIN F[u].closure) => n \in DOMAIN F[k].closure
    BY <2>1, <2>2 DEF LinkOK
  <2>12. u # 0 => Passed[g] \subseteq Passed[F[u].text]
    BY <2>5, <2>11, PassedOn
  <2>13. u # 0 =>
           /\ \A n \in DOMAIN F[u].closure : /\ n \in Names /\ F[u].closure[n][2] = n
                                             /\ F[F[u].closure[n][1]].definer = Owner[u][n]
           /\ \A n \in Names : n \in Passed[F[u].text] /\ Owner[u][n] # 0 => n \in DOMAIN F[u].closure
    BY <2>7 DEF ClosureOK
  <2>14. d = F[k].definer
    OBVIOUS
  <2> HIDE DEF F, L, m, d, u, own, g
  <2>15. ASSUME NEW n \in DOMAIN F[k].closure
         PROVE  n \in Names /\ F[k].closure[n][2] = n /\ F[F[k].closure[n][1]].definer = Owner[k][n]
    <3>1. CASE n \in own /\ F[k].closure[n] = <<k, n>>
      <4>1. n \in Names /\ Owner[k][n] = d
        BY <2>6, <2>9, <3>1
      <4>2. F[k].closure[n][1] = k /\ F[k].closure[n][2] = n
        BY <3>1
      <4> QED
        BY <2>14, <4>1, <4>2
    <3>2. CASE n \notin own /\ u # 0 /\ n \in DOMAIN F[u].closure /\ F[k].closure[n] = F[u].closure[n]
      BY <2>9, <2>13, <3>2
    <3> QED
      BY <2>11, <3>1, <3>2
  <2>16. ASSUME NEW n \in Names, n \in Passed[g], Owner[k][n] # 0
         PROVE  n \in DOMAIN F[k].closure
    BY <2>9, <2>10, <2>11, <2>12, <2>13, <2>16
  <2> QED
    BY <2>15, <2>16 DEF ClosureOK, F, g
<1>5. ASSUME T # {} PROVE FALSE
  <2>1. T \in SUBSET Nat
    OBVIOUS
  <2>2. PICK k \in T : \A j \in T : k <= j
    <3> HIDE DEF T
    <3> QED
      BY <1>5, <2>1, NatMin
  <2>3. \A j \in 1 .. m : j < k => ClosureOK(j)
    <3>1. k \in Nat /\ \A j \in 1 .. m : j \in Nat /\ (~ClosureOK(j) => k <= j)
      BY <2>2
    <3> HIDE DEF T, m
    <3> QED
      BY <3>1
  <2> QED
    BY <1>4, <2>2, <2>3
<1> QED
  BY <1>5

LEMMA SeesIs ==
  ASSUME PointsInv, RefsInv, SeesInv
  PROVE  SeesVariable
<1>1. DOMAIN functions = 1 .. Len(functions)
  BY LenProperties DEF PointsInv
<1> SUFFICES ASSUME NEW k \in 1 .. Len(functions),
                    NEW name \in Text[functions[k].text].named, Owner[k][name] # 0
             PROVE  /\ name \in DOMAIN functions[k].closure
                    /\ \/ functions[k].closure[name] \in early
                       \/ Get(functions[k].closure[name]) = lives[Owner[k][name]].values[name]
  BY <1>1 DEF SeesVariable
<1> DEFINE c == functions[k].closure[name]
           d == Owner[k][name]
<1>2. functions[k].text \in Texts /\ \A n \in DOMAIN functions[k].closure : functions[k].closure[n] \in DOMAIN cells
  BY DEF RefsInv, FunctionsOK
<1>3. name \in Names /\ name \in Passed[functions[k].text]
  BY <1>2, PassedOn DEF Names
<1>4. ClosureOK(k)
  BY ClosuresOK
<1>5. name \in DOMAIN functions[k].closure
  BY <1>3, <1>4 DEF ClosureOK
<1>6. c[2] = name /\ functions[c[1]].definer = d /\ c \in DOMAIN cells
  BY <1>2, <1>4, <1>5 DEF ClosureOK
<1>7. CellOK(c, cells[c], frames, functions, lives, early)
  BY <1>6 DEF SeesInv
<1> HIDE DEF c, d
<1>8. ASSUME cells[c].home = 0
      PROVE  c \in early \/ Get(c) = lives[d].values[name]
  BY <1>6, <1>7, <1>8 DEF CellOK, Get
<1>9. ASSUME cells[c].home # 0
      PROVE  Get(c) = lives[d].values[name]
  <2> DEFINE h == Home(cells[c].home)
  <2>1. cells[c].home = d
    BY <1>6, <1>7, <1>9 DEF CellOK
  <2>2. \E n \in 1 .. Len(frames) : frames[n].id = cells[c].home
    BY <1>6, <1>9 DEF PointsInv, HeldBy
  <2>3. DOMAIN frames = 1 .. Len(frames)
    BY LenProperties DEF PointsInv, Shape
  <2>4. h \in 1 .. Len(frames) /\ frames[h].id = cells[c].home
    BY <2>2, <2>3 DEF Home
  <2> HIDE DEF h
  <2>5. frames[h].locals = lives[d].values
    BY <2>1, <2>4 DEF SeesInv, OwnOK
  <2>6. Get(c) = lives[d].values[name]
    BY <1>6, <1>9, <2>5 DEF Get, h
  <2> QED
    BY <2>6
<1> QED
  BY <1>5, <1>8, <1>9 DEF c, d

\* A name in a function means the variable of the function around it in the
\* text, of the very call that made the function object, and has its value,
\* however many functions lie between, and whether its frame is there or gone.
THEOREM NamesMean == Spec => []SeesVariable
BY ClosuresLink, SeesIs, PTL
=============================================================================
