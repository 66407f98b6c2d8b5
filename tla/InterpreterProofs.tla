-------------------------- MODULE InterpreterProofs --------------------------
(***************************************************************************)
(* A code object that is certified is executed without an internal error,  *)
(* and each address is reached with one height of the stack, whatever      *)
(* calls return and throw, and however many there are.                     *)
(*                                                                         *)
(* The invariant says that the shape of the state is one the certificate   *)
(* has at pc or, while an exception is under way, that the block which     *)
(* will handle it goes on with such a shape.  To know the kinds of values  *)
(* it says of each value what it is made of, down to the numbers and       *)
(* exceptions in it (Datum).                                               *)
(***************************************************************************)
EXTENDS Verifier, Lines

-----------------------------------------------------------------------------
(* Sequences of anything. *)

IsList(s) == \E S : s \in Seq(S)

LEMMA ListIs ==
  ASSUME NEW s, IsList(s)
  PROVE  /\ Len(s) \in Nat /\ DOMAIN s = 1 .. Len(s)
         /\ Len(s) = 0 <=> s = <<>>
         /\ s \in Seq({s[i] : i \in 1 .. Len(s)})
<1>1. PICK S : s \in Seq(S)
  BY DEF IsList
<1>2. Len(s) \in Nat /\ DOMAIN s = 1 .. Len(s) /\ s \in [1 .. Len(s) -> S]
  BY <1>1, LenProperties
<1>3. Len(s) = 0 <=> s = <<>>
  BY <1>1, EmptySeq
<1>4. s \in [1 .. Len(s) -> {s[i] : i \in 1 .. Len(s)}]
  BY <1>2
<1>5. s \in Seq({s[i] : i \in 1 .. Len(s)})
  BY <1>2, <1>4
<1> QED
  BY <1>2, <1>3, <1>5

\* Two sequences are made of the elements of a common set.
LEMMA CommonSet ==
  ASSUME NEW s, IsList(s), NEW t, IsList(t)
  PROVE  \E S : s \in Seq(S) /\ t \in Seq(S)
<1>1. PICK S : s \in Seq(S)
  BY DEF IsList
<1>2. PICK T : t \in Seq(T)
  BY DEF IsList
<1>3. s \in Seq(S \cup T) /\ t \in Seq(S \cup T)
  BY <1>1, <1>2, SeqMonotonic
<1> QED
  BY <1>3

LEMMA ListOf ==
  ASSUME NEW n \in Nat, NEW s, s = [i \in 1 .. n |-> s[i]]
  PROVE  IsList(s) /\ Len(s) = n
<1>1. s \in [1 .. n -> {s[i] : i \in 1 .. n}]
  OBVIOUS
<1>2. s \in Seq({s[i] : i \in 1 .. n}) /\ Len(s) = n
  BY <1>1
<1> QED
  BY <1>2 DEF IsList

LEMMA ListEqual ==
  ASSUME NEW s, IsList(s), NEW t, IsList(t), Len(s) = Len(t),
         \A i \in 1 .. Len(s) : s[i] = t[i]
  PROVE  s = t
<1>1. PICK S : s \in Seq(S) /\ t \in Seq(S)
  BY CommonSet
<1> QED
  BY <1>1, SeqEqual

LEMMA ConcatList ==
  ASSUME NEW s, IsList(s), NEW t, IsList(t)
  PROVE  /\ IsList(s \o t) /\ Len(s \o t) = Len(s) + Len(t)
         /\ \A i \in 1 .. Len(s) + Len(t) : (s \o t)[i] = IF i <= Len(s) THEN s[i] ELSE t[i - Len(s)]
<1>1. PICK S : s \in Seq(S) /\ t \in Seq(S)
  BY CommonSet
<1>2. /\ s \o t \in Seq(S)
      /\ Len(s \o t) = Len(s) + Len(t)
      /\ \A i \in 1 .. Len(s) + Len(t) : (s \o t)[i] = IF i <= Len(s) THEN s[i] ELSE t[i - Len(s)]
  BY <1>1, ConcatProperties
<1> QED
  BY <1>2 DEF IsList

LEMMA AppendList ==
  ASSUME NEW s, IsList(s), NEW e
  PROVE  /\ IsList(Append(s, e)) /\ Len(Append(s, e)) = Len(s) + 1
         /\ \A i \in 1 .. Len(s) : Append(s, e)[i] = s[i]
         /\ Append(s, e)[Len(s) + 1] = e
<1>1. PICK S : s \in Seq(S)
  BY DEF IsList
<1>2. s \in Seq(S \cup {e}) /\ e \in S \cup {e}
  BY <1>1, SeqMonotonic
<1>3. Append(s, e) \in Seq(S \cup {e}) /\ Len(Append(s, e)) = Len(s) + 1
  BY <1>2
<1>4. \A i \in 1 .. Len(s) : Append(s, e)[i] = s[i]
  BY <1>2
<1>5. Append(s, e)[Len(s) + 1] = e
  BY <1>2
<1> QED
  BY <1>3, <1>4, <1>5 DEF IsList

LEMMA SubList ==
  ASSUME NEW s, IsList(s), NEW m \in 1 .. Len(s) + 1, NEW n \in m - 1 .. Len(s)
  PROVE  /\ IsList(SubSeq(s, m, n)) /\ Len(SubSeq(s, m, n)) = n - m + 1
         /\ \A i \in 1 .. n - m + 1 : SubSeq(s, m, n)[i] = s[m + i - 1]
<1>1. /\ Len(s) \in Nat /\ DOMAIN s = 1 .. Len(s)
      /\ m \in Int /\ n \in Int
  BY ListIs
<1> DEFINE S == {s[i] : i \in 1 .. Len(s)}
<1>2. \A i \in m .. n : s[i] \in S
  BY <1>1
<1> HIDE DEF S
<1>3. /\ SubSeq(s, m, n) \in Seq(S)
      /\ Len(SubSeq(s, m, n)) = IF m <= n THEN n - m + 1 ELSE 0
      /\ \A i \in 1 .. n - m + 1 : SubSeq(s, m, n)[i] = s[m + i - 1]
  BY <1>1, <1>2, SubSeqProperties
<1> QED
  BY <1>1, <1>3 DEF IsList

LEMMA ExceptList ==
  ASSUME NEW s, IsList(s), NEW i \in 1 .. Len(s), NEW e
  PROVE  /\ IsList([s EXCEPT ![i] = e]) /\ Len([s EXCEPT ![i] = e]) = Len(s)
         /\ \A j \in 1 .. Len(s) : [s EXCEPT ![i] = e][j] = IF j = i THEN e ELSE s[j]
<1>1. PICK S : s \in Seq(S)
  BY DEF IsList
<1>2. s \in Seq(S \cup {e}) /\ e \in S \cup {e}
  BY <1>1, SeqMonotonic
<1>3. /\ [s EXCEPT ![i] = e] \in Seq(S \cup {e})
      /\ Len([s EXCEPT ![i] = e]) = Len(s)
      /\ \A j \in 1 .. Len(s) : [s EXCEPT ![i] = e][j] = IF j = i THEN e ELSE s[j]
  BY <1>2, ExceptSeq
<1> QED
  BY <1>3 DEF IsList

LEMMA TailList ==
  ASSUME NEW s, IsList(s), s # <<>>
  PROVE  /\ IsList(Tail(s)) /\ Len(Tail(s)) = Len(s) - 1 /\ Len(s) >= 1
         /\ \A i \in 1 .. Len(s) - 1 : Tail(s)[i] = s[i + 1]
         /\ Head(s) = s[1]
<1>1. PICK S : s \in Seq(S)
  BY DEF IsList
<1>2. /\ Tail(s) \in Seq(S)
      /\ Len(Tail(s)) = Len(s) - 1
      /\ \A i \in 1 .. Len(Tail(s)) : Tail(s)[i] = s[i + 1]
  BY <1>1, HeadTailProperties
<1>3. Head(s) = s[1] /\ Len(s) >= 1 /\ Len(s) \in Nat
  BY <1>1
<1> QED
  BY <1>2, <1>3 DEF IsList

-----------------------------------------------------------------------------
(* Values, when n exceptions have been made. *)

\* V has with a value all that it contains.
Closed(V, n) == \A y \in V : /\ y.k \in {"val", "seq", "exc"} /\ y.v \in Int
                             /\ y.k = "exc" => y.v \in 1 .. n
                             /\ y.items \in Seq(V)

\* What a variable may hold.
Datum(x, n) == \E V : x \in V /\ Closed(V, n)
Data(s, n)  == IsList(s) /\ \A i \in 1 .. Len(s) : Datum(s[i], n)

HasKind(x, kind, n) == /\ kind \in {"plain", "iter", "type"}
                       /\ kind = "plain" => Datum(x, n)
                       /\ kind = "iter"  => x.k = "iter" /\ Data(x.items, n)
                       /\ kind = "type"  => x.k = "type"

LEMMA DatumIs ==
  ASSUME NEW n \in Nat, NEW x, Datum(x, n)
  PROVE  /\ x.k \in {"val", "seq", "exc"} /\ x.v \in Int
         /\ x.k = "exc" => x.v \in 1 .. n
         /\ x.k # "none"
         /\ Data(x.items, n)
<1>1. PICK V : x \in V /\ Closed(V, n)
  BY DEF Datum
<1>2. x.items \in Seq(V)
  BY <1>1 DEF Closed
<1>3. \A i \in 1 .. Len(x.items) : x.items[i] \in V
  BY <1>2
<1>4. Data(x.items, n)
  BY <1>1, <1>2, <1>3 DEF Data, Datum, IsList
<1>5. /\ x.k \in {"val", "seq", "exc"} /\ x.v \in Int
      /\ x.k = "exc" => x.v \in 1 .. n
  BY <1>1 DEF Closed
<1> QED
  BY <1>4, <1>5

LEMMA DatumGrows ==
  ASSUME NEW n \in Nat, NEW m \in Nat, n <= m, NEW x, Datum(x, n)
  PROVE  Datum(x, m)
<1>1. PICK V : x \in V /\ Closed(V, n)
  BY DEF Datum
<1>2. Closed(V, m)
  BY <1>1 DEF Closed
<1> QED
  BY <1>1, <1>2 DEF Datum

LEMMA DataGrow ==
  ASSUME NEW n \in Nat, NEW m \in Nat, n <= m, NEW s, Data(s, n)
  PROVE  Data(s, m)
BY DatumGrows DEF Data

LEMMA NumberDatum ==
  ASSUME NEW n \in Nat, NEW v \in Int
  PROVE  Datum(Val(v), n) /\ Val(v).k = "val"
<1>1. Val(v).k = "val" /\ Val(v).v = v /\ Val(v).items = <<>>
  BY DEF Val, Null
<1>2. Closed({Val(v)}, n)
  BY <1>1, EmptySeq DEF Closed
<1> QED
  BY <1>1, <1>2 DEF Datum

LEMMA ExceptionDatum ==
  ASSUME NEW n \in Nat, NEW x \in 1 .. n
  PROVE  Datum(Exc(x), n)
<1>1. Exc(x).k = "exc" /\ Exc(x).v = x /\ Exc(x).items = <<>> /\ x \in Int
  BY DEF Exc, Null
<1>2. <<>> \in Seq({Exc(x)})
  BY EmptySeq
<1>3. Closed({Exc(x)}, n)
  BY <1>1, <1>2 DEF Closed
<1> QED
  BY <1>3 DEF Datum

LEMMA SequenceDatum ==
  ASSUME NEW n \in Nat, NEW s, Data(s, n)
  PROVE  Datum(Holding("seq", s), n)
<1> DEFINE H    == Holding("seq", s)
           W(i) == CHOOSE V : s[i] \in V /\ Closed(V, n)
           U    == UNION {W(i) : i \in 1 .. Len(s)}
<1>1. H.k = "seq" /\ H.v = 0 /\ H.items = s
  BY DEF Holding, Null
<1>2. \A i \in 1 .. Len(s) : s[i] \in W(i) /\ Closed(W(i), n)
  BY DEF Data, Datum
<1>3. \A i \in 1 .. Len(s) : s[i] \in U
  BY <1>2
<1>4. ASSUME NEW y \in U
      PROVE  /\ y.k \in {"val", "seq", "exc"} /\ y.v \in Int
             /\ y.k = "exc" => y.v \in 1 .. n
             /\ y.items \in Seq(U \cup {H})
  <2>1. PICK i \in 1 .. Len(s) : y \in W(i)
    BY <1>4
  <2>2. Closed(W(i), n) /\ W(i) \subseteq U \cup {H}
    BY <1>2
  <2> HIDE DEF W, U, H
  <2>3. /\ y.k \in {"val", "seq", "exc"} /\ y.v \in Int
        /\ y.k = "exc" => y.v \in 1 .. n
        /\ y.items \in Seq(W(i))
    BY <2>1, <2>2 DEF Closed
  <2>4. y.items \in Seq(U \cup {H})
    BY <2>2, <2>3, SeqMonotonic
  <2> QED
    BY <2>3, <2>4
<1>5. s \in Seq(U \cup {H})
  <2>1. Len(s) \in Nat /\ s \in Seq({s[i] : i \in 1 .. Len(s)})
    BY ListIs DEF Data
  <2>2. {s[i] : i \in 1 .. Len(s)} \subseteq U \cup {H}
    BY <1>3
  <2> HIDE DEF U, H
  <2> QED
    BY <2>1, <2>2, SeqMonotonic
<1> HIDE DEF U, H
<1>6. Closed(U \cup {H}, n)
  BY <1>1, <1>4, <1>5 DEF Closed
<1>7. Datum(H, n)
  BY <1>6 DEF Datum
<1> QED
  BY <1>7 DEF H

\* What a for loop and unpacking go over.
LEMMA ItemsData ==
  ASSUME NEW n \in Nat, NEW x, Datum(x, n)
  PROVE  Data(Items(x), n)
<1>1. x.v \in Int /\ Data(x.items, n)
  BY DatumIs
<1>2. CASE x.k = "seq"
  BY <1>1, <1>2 DEF Items
<1>3. CASE x.k # "seq"
  <2> DEFINE s == [i \in 1 .. x.v |-> Val(x.v - i)]
             m == IF x.v >= 0 THEN x.v ELSE 0
  <2>1. m \in Nat /\ 1 .. x.v = 1 .. m
    BY <1>1
  <2>2. \A i \in 1 .. x.v : s[i] = Val(x.v - i) /\ x.v - i \in Int
    BY <1>1
  <2>3. s = [i \in 1 .. m |-> s[i]]
    BY <2>1
  <2> HIDE DEF s, m
  <2>4. IsList(s) /\ Len(s) = m
    BY <2>1, <2>3, ListOf
  <2>5. \A i \in 1 .. Len(s) : Datum(s[i], n)
    BY <2>1, <2>2, <2>4, NumberDatum
  <2>6. Items(x) = s
    BY <1>3 DEF Items, s
  <2> QED
    BY <2>4, <2>5, <2>6 DEF Data
<1> QED
  BY <1>2, <1>3

LEMMA KindGrows ==
  ASSUME NEW n \in Nat, NEW m \in Nat, n <= m, NEW x, NEW kind, HasKind(x, kind, n)
  PROVE  HasKind(x, kind, m)
BY DatumGrows, DataGrow DEF HasKind

-----------------------------------------------------------------------------
(* The stack and the kinds of its values. *)

Fits(st, kinds, n) == /\ IsList(st) /\ IsList(kinds) /\ Len(kinds) = Len(st)
                      /\ \A m \in 1 .. Len(st) : HasKind(st[m], kinds[m], n)

LEMMA FitsGrows ==
  ASSUME NEW n \in Nat, NEW m \in Nat, n <= m, NEW st, NEW kinds, Fits(st, kinds, n)
  PROVE  Fits(st, kinds, m)
BY KindGrows DEF Fits

LEMMA FitsConcat ==
  ASSUME NEW n, NEW st, NEW kinds, Fits(st, kinds, n), NEW more, NEW others, Fits(more, others, n)
  PROVE  Fits(st \o more, kinds \o others, n)
<1>1. /\ IsList(st) /\ IsList(kinds) /\ IsList(more) /\ IsList(others)
      /\ Len(kinds) = Len(st) /\ Len(others) = Len(more) /\ Len(st) \in Nat /\ Len(more) \in Nat
  BY ListIs DEF Fits
<1>2. /\ IsList(st \o more) /\ Len(st \o more) = Len(st) + Len(more)
      /\ \A i \in 1 .. Len(st) + Len(more) :
           (st \o more)[i] = IF i <= Len(st) THEN st[i] ELSE more[i - Len(st)]
  BY <1>1, ConcatList
<1>3. /\ IsList(kinds \o others) /\ Len(kinds \o others) = Len(st) + Len(more)
      /\ \A i \in 1 .. Len(st) + Len(more) :
           (kinds \o others)[i] = IF i <= Len(st) THEN kinds[i] ELSE others[i - Len(st)]
  <2>1. /\ IsList(kinds \o others) /\ Len(kinds \o others) = Len(kinds) + Len(others)
        /\ \A i \in 1 .. Len(kinds) + Len(others) :
             (kinds \o others)[i] = IF i <= Len(kinds) THEN kinds[i] ELSE others[i - Len(kinds)]
    BY <1>1, ConcatList
  <2> QED
    BY <1>1, <2>1
<1>4. ASSUME NEW i \in 1 .. Len(st) + Len(more)
      PROVE  HasKind((st \o more)[i], (kinds \o others)[i], n)
  <2>1. CASE i <= Len(st)
    <3>1. i \in 1 .. Len(st)
      BY <1>1, <2>1
    <3> QED
      BY <1>2, <1>3, <2>1, <3>1 DEF Fits
  <2>2. CASE ~ (i <= Len(st))
    <3>1. i - Len(st) \in 1 .. Len(more)
      BY <1>1, <2>2
    <3> QED
      BY <1>2, <1>3, <2>2, <3>1 DEF Fits
  <2> QED
    BY <2>1, <2>2
<1> QED
  BY <1>2, <1>3, <1>4 DEF Fits

LEMMA FitsSub ==
  ASSUME NEW n, NEW st, NEW kinds, Fits(st, kinds, n), NEW m \in 0 .. Len(st)
  PROVE  Fits(SubSeq(st, 1, m), SubSeq(kinds, 1, m), n) /\ Len(SubSeq(kinds, 1, m)) = m
<1>1. /\ IsList(st) /\ IsList(kinds) /\ Len(kinds) = Len(st) /\ Len(st) \in Nat
      /\ 1 \in 1 .. Len(st) + 1 /\ m \in 1 - 1 .. Len(st)
  BY ListIs DEF Fits
<1>2. /\ IsList(SubSeq(st, 1, m)) /\ Len(SubSeq(st, 1, m)) = m - 1 + 1
      /\ \A i \in 1 .. m - 1 + 1 : SubSeq(st, 1, m)[i] = st[1 + i - 1]
  BY <1>1, SubList
<1>3. /\ IsList(SubSeq(kinds, 1, m)) /\ Len(SubSeq(kinds, 1, m)) = m - 1 + 1
      /\ \A i \in 1 .. m - 1 + 1 : SubSeq(kinds, 1, m)[i] = kinds[1 + i - 1]
  BY <1>1, SubList
<1>4. \A i \in 1 .. m : i \in 1 .. Len(st) /\ i \in 1 .. m - 1 + 1 /\ 1 + i - 1 = i
  BY <1>1
<1>5. m - 1 + 1 = m
  BY <1>1
<1>6. \A i \in 1 .. m : HasKind(SubSeq(st, 1, m)[i], SubSeq(kinds, 1, m)[i], n)
  BY <1>2, <1>3, <1>4 DEF Fits
<1> QED
  BY <1>2, <1>3, <1>5, <1>6 DEF Fits

LEMMA OneList ==
  ASSUME NEW x
  PROVE  IsList(<<x>>) /\ Len(<<x>>) = 1 /\ <<x>>[1] = x
<1>1. <<x>> \in Seq({x})
  OBVIOUS
<1> QED
  BY <1>1 DEF IsList

LEMMA FitsOne ==
  ASSUME NEW n, NEW x, NEW kind, HasKind(x, kind, n)
  PROVE  Fits(<<x>>, <<kind>>, n)
<1>1. /\ IsList(<<x>>) /\ Len(<<x>>) = 1 /\ <<x>>[1] = x
      /\ IsList(<<kind>>) /\ Len(<<kind>>) = 1 /\ <<kind>>[1] = kind
  BY OneList
<1>2. \A m \in 1 .. 1 : HasKind(<<x>>[m], <<kind>>[m], n)
  BY <1>1
<1> HIDE DEF IsList
<1> QED
  BY <1>1, <1>2, Zenon DEF Fits

LEMMA FitsPush ==
  ASSUME NEW n, NEW st, NEW kinds, Fits(st, kinds, n), NEW x, NEW kind, HasKind(x, kind, n)
  PROVE  Fits(Append(st, x), kinds \o <<kind>>, n)
<1>1. Fits(<<x>>, <<kind>>, n)
  BY FitsOne
<1>2. Fits(st \o <<x>>, kinds \o <<kind>>, n)
  BY <1>1, FitsConcat
<1>3. IsList(st) /\ IsList(<<x>>) /\ Len(<<x>>) = 1 /\ <<x>>[1] = x /\ Len(st) \in Nat
  BY <1>1, ListIs DEF Fits
<1>4. Append(st, x) = st \o <<x>>
  <2>1. /\ IsList(st \o <<x>>) /\ Len(st \o <<x>>) = Len(st) + 1
        /\ \A i \in 1 .. Len(st) + 1 : (st \o <<x>>)[i] = IF i <= Len(st) THEN st[i] ELSE <<x>>[i - Len(st)]
    BY <1>3, ConcatList
  <2>2. /\ IsList(Append(st, x)) /\ Len(Append(st, x)) = Len(st) + 1
        /\ \A i \in 1 .. Len(st) : Append(st, x)[i] = st[i]
        /\ Append(st, x)[Len(st) + 1] = x
    BY <1>3, AppendList
  <2>3. ASSUME NEW i \in 1 .. Len(st) + 1 PROVE (st \o <<x>>)[i] = Append(st, x)[i]
    <3>1. CASE i <= Len(st)
      <4>1. i \in 1 .. Len(st)
        BY <1>3, <3>1
      <4> QED
        BY <2>1, <2>2, <3>1, <4>1
    <3>2. CASE ~ (i <= Len(st))
      <4>1. i = Len(st) + 1 /\ i - Len(st) = 1
        BY <1>3, <3>2
      <4> QED
        BY <1>3, <2>1, <2>2, <3>2, <4>1
    <3> QED
      BY <3>1, <3>2
  <2> QED
    BY <2>1, <2>2, <2>3, ListEqual
<1> QED
  BY <1>2, <1>4

LEMMA PlainIs ==
  ASSUME NEW n \in Nat, NEW s, Data(s, n)
  PROVE  Fits(s, Plain(Len(s)), n)
<1>1. IsList(s) /\ Len(s) \in Nat
  BY ListIs DEF Data
<1>2. \A i \in 1 .. Len(s) : Plain(Len(s))[i] = "plain"
  BY DEF Plain
<1>3. Plain(Len(s)) = [i \in 1 .. Len(s) |-> Plain(Len(s))[i]]
  BY DEF Plain
<1>4. IsList(Plain(Len(s))) /\ Len(Plain(Len(s))) = Len(s)
  BY <1>1, <1>3, ListOf
<1> QED
  BY <1>1, <1>2, <1>4 DEF Fits, Data, HasKind

LEMMA OnePlain == Plain(1) = <<"plain">>
<1>1. Plain(1) = [i \in 1 .. 1 |-> Plain(1)[i]] /\ Plain(1)[1] = "plain"
  BY DEF Plain
<1>2. IsList(Plain(1)) /\ Len(Plain(1)) = 1
  BY <1>1, ListOf
<1>3. IsList(<<"plain">>) /\ Len(<<"plain">>) = 1 /\ <<"plain">>[1] = "plain"
  BY OneList
<1> QED
  BY <1>1, <1>2, <1>3, ListEqual

-----------------------------------------------------------------------------
(* Exceptions, blocks, variables, and the shape of a state. *)

HeapOK(h) ==
  IsList(h) /\ \A x \in 1 .. Len(h) : /\ h[x] = [type |-> h[x].type, parent |-> h[x].parent]
                                      /\ h[x].parent \in 0 .. Len(h)
                                      /\ h[x].type # "InternalError"

\* A block that has fired holds an exception.
BlockOK(b, n) ==
  /\ b = [sp |-> b.sp, flags |-> b.flags, exception |-> b.exception,
          except |-> b.except, finally |-> b.finally]
  /\ b.sp \in Nat /\ b.flags \subseteq {"FIRED", "CAUGHT", "FINALLY"}
  /\ b.exception \in 0 .. n
  /\ "FIRED" \in b.flags => b.exception # None

BlocksOK(B, n) == IsList(B) /\ \A m \in 1 .. Len(B) : BlockOK(B[m], n)

Variable(x, n)  == x = Null \/ Datum(x, n)
LocalsOK(L, n)  == DOMAIN L = Locals /\ \A l \in Locals : Variable(L[l], n)
TraceOK(tr)     == IsList(tr) /\ \A m \in 1 .. Len(tr) : tr[m].v \in Values \cup {0, -1}

\* What a step may change besides stack and pc.
StateOK(h, B, L, r, tr) == /\ HeapOK(h) /\ BlocksOK(B, Len(h)) /\ LocalsOK(L, Len(h))
                           /\ Variable(r, Len(h)) /\ TraceOK(tr)

Forget(b)            == [b EXCEPT !.exception = None]
View(B)              == [m \in DOMAIN B |-> Forget(B[m])]
ShapeOf(kinds, B, r) == Shape(kinds, View(B), ~ IsNull(r))

LEMMA BlocksGrow ==
  ASSUME NEW n \in Nat, NEW m \in Nat, n <= m, NEW B, BlocksOK(B, n)
  PROVE  BlocksOK(B, m)
<1>1. ASSUME NEW i \in 1 .. Len(B) PROVE BlockOK(B[i], m)
  <2> DEFINE b == B[i]
  <2>1. BlockOK(b, n)
    BY DEF BlocksOK
  <2> HIDE DEF b
  <2>2. BlockOK(b, m)
    BY <2>1 DEF BlockOK
  <2> QED
    BY <2>2 DEF b
<1> QED
  BY <1>1 DEF BlocksOK

LEMMA VariableGrows ==
  ASSUME NEW n \in Nat, NEW m \in Nat, n <= m, NEW x, Variable(x, n)
  PROVE  Variable(x, m)
BY DatumGrows DEF Variable

LEMMA HeapAppend ==
  ASSUME NEW h, HeapOK(h), NEW type, type # "InternalError"
  PROVE  LET more == Append(h, [type |-> type, parent |-> None])
         IN  HeapOK(more) /\ Len(more) = Len(h) + 1 /\ Len(h) \in Nat
<1> DEFINE e    == [type |-> type, parent |-> None]
           more == Append(h, e)
<1>1. e = [type |-> e.type, parent |-> e.parent] /\ e.parent = 0 /\ e.type # "InternalError"
  BY DEF None
<1> HIDE DEF e
<1>2. IsList(h) /\ Len(h) \in Nat
  BY ListIs DEF HeapOK
<1>3. /\ IsList(more) /\ Len(more) = Len(h) + 1
      /\ \A i \in 1 .. Len(h) : more[i] = h[i]
      /\ more[Len(h) + 1] = e
  BY <1>2, AppendList
<1> HIDE DEF more
<1>4. ASSUME NEW x \in 1 .. Len(h) + 1
      PROVE  /\ more[x] = [type |-> more[x].type, parent |-> more[x].parent]
             /\ more[x].parent \in 0 .. Len(h) + 1 /\ more[x].type # "InternalError"
  <2>1. CASE x = Len(h) + 1
    BY <1>1, <1>2, <1>3, <2>1
  <2>2. CASE x # Len(h) + 1
    <3>1. x \in 1 .. Len(h)
      BY <1>2, <2>2
    <3>2. more[x] = h[x] /\ h[x].parent \in 0 .. Len(h)
      BY <1>3, <3>1 DEF HeapOK
    <3>3. h[x].parent \in 0 .. Len(h) + 1
      BY <1>2, <3>2
    <3>4. /\ h[x] = [type |-> h[x].type, parent |-> h[x].parent]
          /\ h[x].type # "InternalError"
      BY <3>1 DEF HeapOK
    <3> QED
      BY <3>2, <3>3, <3>4
  <2> QED
    BY <2>1, <2>2
<1>5. HeapOK(more)
  BY <1>3, <1>4 DEF HeapOK
<1> QED
  BY <1>2, <1>3, <1>5 DEF more, e

\* Another exception does not make what is there worse.
LEMMA StateGrows ==
  ASSUME NEW h, NEW B, NEW L, NEW r, NEW tr, StateOK(h, B, L, r, tr),
         NEW st, NEW kinds, Fits(st, kinds, Len(h)),
         NEW more, HeapOK(more), Len(h) <= Len(more)
  PROVE  StateOK(more, B, L, r, tr) /\ Fits(st, kinds, Len(more))
<1>1. Len(h) \in Nat /\ Len(more) \in Nat
  BY ListIs DEF StateOK, HeapOK
<1>2. BlocksOK(B, Len(more))
  BY <1>1, BlocksGrow DEF StateOK
<1>3. LocalsOK(L, Len(more)) /\ Variable(r, Len(more))
  BY <1>1, VariableGrows DEF StateOK, LocalsOK
<1> QED
  BY <1>1, <1>2, <1>3, FitsGrows DEF StateOK

LEMMA HeapParent ==
  ASSUME NEW h, HeapOK(h), NEW y, NEW x \in 0 .. Len(h)
  PROVE  HeapOK([h EXCEPT ![y].parent = x]) /\ Len([h EXCEPT ![y].parent = x]) = Len(h)
<1> DEFINE g == [h EXCEPT ![y].parent = x]
           e == [h[y] EXCEPT !.parent = x]
<1>1. IsList(h) /\ Len(h) \in Nat /\ DOMAIN h = 1 .. Len(h)
  BY ListIs DEF HeapOK
<1>2. h = [i \in 1 .. Len(h) |-> h[i]]
  BY <1>1, LenProperties DEF IsList
<1>3. g = [h EXCEPT ![y] = e]
  OBVIOUS
<1>4. CASE y \in 1 .. Len(h)
  <2>1. h[y] = [type |-> h[y].type, parent |-> h[y].parent] /\ h[y].type # "InternalError"
    BY <1>4 DEF HeapOK
  <2>2. e = [type |-> h[y].type, parent |-> x]
    BY <2>1
  <2>3. e = [type |-> e.type, parent |-> e.parent] /\ e.parent = x /\ e.type # "InternalError"
    BY <2>1, <2>2
  <2> HIDE DEF e
  <2>4. /\ IsList([h EXCEPT ![y] = e]) /\ Len([h EXCEPT ![y] = e]) = Len(h)
        /\ \A j \in 1 .. Len(h) : [h EXCEPT ![y] = e][j] = IF j = y THEN e ELSE h[j]
    BY <1>1, <1>4, ExceptList
  <2> HIDE DEF g
  <2>5. IsList(g) /\ Len(g) = Len(h) /\ \A j \in 1 .. Len(h) : g[j] = IF j = y THEN e ELSE h[j]
    BY <1>3, <2>4
  <2>6. \A j \in 1 .. Len(h) : /\ g[j] = [type |-> g[j].type, parent |-> g[j].parent]
                               /\ g[j].parent \in 0 .. Len(h) /\ g[j].type # "InternalError"
    BY <2>3, <2>5 DEF HeapOK
  <2>7. HeapOK(g) /\ Len(g) = Len(h)
    BY <2>5, <2>6 DEF HeapOK
  <2> QED
    BY <2>7 DEF g
<1>5. CASE y \notin 1 .. Len(h)
  <2>1. g = h
    BY <1>1, <1>2, <1>5
  <2> QED
    BY <2>1
<1> QED
  BY <1>4, <1>5

\* A block and what a shape says of it.
LEMMA ForgetIs ==
  ASSUME NEW n, NEW b, BlockOK(b, n)
  PROVE  /\ Forget(b) = [sp |-> b.sp, flags |-> b.flags, exception |-> None,
                         except |-> b.except, finally |-> b.finally]
         /\ Forget(b).sp = b.sp /\ Forget(b).flags = b.flags
         /\ Forget(b).except = b.except /\ Forget(b).finally = b.finally
<1>1. Forget(b) = [sp |-> b.sp, flags |-> b.flags, exception |-> None,
                   except |-> b.except, finally |-> b.finally]
  BY DEF BlockOK, Forget
<1> QED
  BY <1>1

LEMMA ViewIs ==
  ASSUME NEW n, NEW B, BlocksOK(B, n)
  PROVE  /\ IsList(View(B)) /\ Len(View(B)) = Len(B) /\ Len(B) \in Nat
         /\ \A m \in 1 .. Len(B) : /\ View(B)[m] = Forget(B[m])
                                   /\ View(B)[m].sp = B[m].sp /\ View(B)[m].flags = B[m].flags
                                   /\ View(B)[m].except = B[m].except
                                   /\ View(B)[m].finally = B[m].finally
<1>1. IsList(B) /\ Len(B) \in Nat /\ DOMAIN B = 1 .. Len(B)
  BY ListIs DEF BlocksOK
<1>2. /\ View(B) = [m \in 1 .. Len(B) |-> View(B)[m]]
      /\ \A m \in 1 .. Len(B) : View(B)[m] = Forget(B[m])
  BY <1>1 DEF View
<1>3. IsList(View(B)) /\ Len(View(B)) = Len(B)
  BY <1>1, <1>2, ListOf
<1>4. \A m \in 1 .. Len(B) : BlockOK(B[m], n)
  BY DEF BlocksOK
<1> QED
  BY <1>1, <1>2, <1>3, <1>4, ForgetIs

LEMMA ViewSub ==
  ASSUME NEW n, NEW B, BlocksOK(B, n), NEW m \in 0 .. Len(B)
  PROVE  /\ BlocksOK(SubSeq(B, 1, m), n) /\ Len(SubSeq(B, 1, m)) = m
         /\ View(SubSeq(B, 1, m)) = SubSeq(View(B), 1, m)
         /\ \A i \in 1 .. m : SubSeq(B, 1, m)[i] = B[i]
<1> DEFINE A == SubSeq(B, 1, m)
           V == SubSeq(View(B), 1, m)
<1>1. /\ IsList(B) /\ IsList(View(B)) /\ Len(View(B)) = Len(B) /\ Len(B) \in Nat
      /\ 1 \in 1 .. Len(B) + 1 /\ m \in 1 - 1 .. Len(B) /\ m - 1 + 1 = m
      /\ \A i \in 1 .. Len(B) : View(B)[i] = Forget(B[i])
  <2>1. IsList(B)
    BY DEF BlocksOK
  <2> QED
    BY <2>1, ViewIs
<1>2. IsList(A) /\ Len(A) = m /\ \A i \in 1 .. m : A[i] = B[i]
  <2>1. /\ IsList(A) /\ Len(A) = m - 1 + 1
        /\ \A i \in 1 .. m - 1 + 1 : A[i] = B[1 + i - 1]
    BY <1>1, SubList
  <2> QED
    BY <1>1, <2>1
<1>3. IsList(V) /\ Len(V) = m /\ \A i \in 1 .. m : V[i] = View(B)[i]
  <2>1. /\ IsList(V) /\ Len(V) = m - 1 + 1
        /\ \A i \in 1 .. m - 1 + 1 : V[i] = View(B)[1 + i - 1]
    <3>1. 1 \in 1 .. Len(View(B)) + 1 /\ m \in 1 - 1 .. Len(View(B))
      BY <1>1
    <3> QED
      BY <1>1, <3>1, SubList
  <2> QED
    BY <1>1, <2>1
<1> HIDE DEF A, V
<1>4. BlocksOK(A, n)
  BY <1>1, <1>2 DEF BlocksOK
<1>5. View(A) = V
  <2>1. /\ IsList(View(A)) /\ Len(View(A)) = m
        /\ \A i \in 1 .. m : View(A)[i] = Forget(A[i])
    BY <1>2, <1>4, ViewIs
  <2>2. \A i \in 1 .. m : View(A)[i] = V[i]
    BY <1>1, <1>2, <1>3, <2>1
  <2> QED
    BY <1>3, <2>1, <2>2, ListEqual
<1> QED
  BY <1>2, <1>4, <1>5 DEF A, V

LEMMA ViewAppend ==
  ASSUME NEW n, NEW B, BlocksOK(B, n), NEW b, BlockOK(b, n), b.exception = None
  PROVE  BlocksOK(Append(B, b), n) /\ View(Append(B, b)) = Append(View(B), b)
<1> DEFINE A == Append(B, b)
           V == Append(View(B), b)
<1>1. /\ IsList(B) /\ IsList(View(B)) /\ Len(View(B)) = Len(B) /\ Len(B) \in Nat
      /\ \A i \in 1 .. Len(B) : View(B)[i] = Forget(B[i])
  <2>1. IsList(B)
    BY DEF BlocksOK
  <2> QED
    BY <2>1, ViewIs
<1>2. /\ IsList(A) /\ Len(A) = Len(B) + 1
      /\ \A i \in 1 .. Len(B) : A[i] = B[i]
      /\ A[Len(B) + 1] = b
  BY <1>1, AppendList
<1>3. /\ IsList(V) /\ Len(V) = Len(B) + 1
      /\ \A i \in 1 .. Len(B) : V[i] = View(B)[i]
      /\ V[Len(B) + 1] = b
  BY <1>1, AppendList
<1> HIDE DEF A, V
<1>4. Forget(b) = b
  BY ForgetIs DEF BlockOK
<1>5. BlocksOK(A, n)
  <2>1. ASSUME NEW i \in 1 .. Len(B) + 1 PROVE BlockOK(A[i], n)
    <3>1. CASE i = Len(B) + 1
      BY <1>2, <3>1
    <3>2. CASE i # Len(B) + 1
      <4>1. i \in 1 .. Len(B)
        BY <1>1, <3>2
      <4> QED
        BY <1>2, <4>1 DEF BlocksOK
    <3> QED
      BY <3>1, <3>2
  <2> QED
    BY <1>2, <2>1 DEF BlocksOK
<1>6. View(A) = V
  <2>1. /\ IsList(View(A)) /\ Len(View(A)) = Len(B) + 1
        /\ \A i \in 1 .. Len(B) + 1 : View(A)[i] = Forget(A[i])
    BY <1>2, <1>5, ViewIs
  <2>2. ASSUME NEW i \in 1 .. Len(B) + 1 PROVE View(A)[i] = V[i]
    <3>1. CASE i = Len(B) + 1
      BY <1>2, <1>3, <1>4, <2>1, <3>1
    <3>2. CASE i # Len(B) + 1
      <4>1. i \in 1 .. Len(B)
        BY <1>1, <3>2
      <4> QED
        BY <1>1, <1>2, <1>3, <2>1, <4>1
    <3> QED
      BY <3>1, <3>2
  <2> QED
    BY <1>3, <2>1, <2>2, ListEqual
<1> QED
  BY <1>5, <1>6 DEF A, V

\* One block is replaced.
LEMMA ViewChanged ==
  ASSUME NEW n, NEW B, BlocksOK(B, n), NEW j \in 1 .. Len(B), NEW b, BlockOK(b, n)
  PROVE  /\ BlocksOK([B EXCEPT ![j] = b], n) /\ Len([B EXCEPT ![j] = b]) = Len(B)
         /\ View([B EXCEPT ![j] = b]) = [View(B) EXCEPT ![j] = Forget(b)]
<1> DEFINE A == [B EXCEPT ![j] = b]
           v == Forget(b)
           V == [View(B) EXCEPT ![j] = v]
<1>1. /\ IsList(B) /\ IsList(View(B)) /\ Len(View(B)) = Len(B) /\ Len(B) \in Nat
      /\ \A i \in 1 .. Len(B) : View(B)[i] = Forget(B[i])
  <2>1. IsList(B)
    BY DEF BlocksOK
  <2> QED
    BY <2>1, ViewIs
<1>2. IsList(A) /\ Len(A) = Len(B) /\ \A i \in 1 .. Len(B) : A[i] = IF i = j THEN b ELSE B[i]
  <2>1. IsList(B)
    BY <1>1
  <2> HIDE DEF v, V
  <2>2. \A e : /\ IsList([B EXCEPT ![j] = e]) /\ Len([B EXCEPT ![j] = e]) = Len(B)
              /\ \A i \in 1 .. Len(B) : [B EXCEPT ![j] = e][i] = IF i = j THEN e ELSE B[i]
    BY <2>1, ExceptList
  <2> QED
    BY <2>2
<1>3. IsList(V) /\ Len(V) = Len(B) /\ \A i \in 1 .. Len(B) : V[i] = IF i = j THEN v ELSE View(B)[i]
  <2>1. j \in 1 .. Len(View(B))
    BY <1>1
  <2> HIDE DEF v
  <2>2. /\ IsList(V) /\ Len(V) = Len(View(B))
        /\ \A i \in 1 .. Len(View(B)) : V[i] = IF i = j THEN v ELSE View(B)[i]
    BY <1>1, <2>1, ExceptList
  <2> QED
    BY <1>1, <2>2
<1>4. v = Forget(b)
  OBVIOUS
<1> HIDE DEF A, V, v
<1>5. BlocksOK(A, n)
  BY <1>2 DEF BlocksOK
<1>6. View(A) = V
  <2>1. /\ IsList(View(A)) /\ Len(View(A)) = Len(B)
        /\ \A i \in 1 .. Len(B) : View(A)[i] = Forget(A[i])
    BY <1>2, <1>5, ViewIs
  <2>2. \A i \in 1 .. Len(B) : View(A)[i] = V[i]
    BY <1>1, <1>2, <1>3, <1>4, <2>1
  <2> QED
    BY <1>3, <2>1, <2>2, ListEqual
<1> QED
  BY <1>2, <1>5, <1>6 DEF A, V, v


-----------------------------------------------------------------------------
(* The block that handles an exception. *)

LEMMA ShapeIs ==
  ASSUME NEW kinds, NEW B, NEW p
  PROVE  /\ Shape(kinds, B, p).kinds = kinds /\ Shape(kinds, B, p).blocks = B
         /\ Shape(kinds, B, p).pending = p
BY DEF Shape

Spent(b) == {"FIRED", "FINALLY"} \subseteq b.flags

LEMMA LastIs ==
  ASSUME NEW n \in Nat, NEW I \in SUBSET (1 .. n), NEW j, j = IF I # {} THEN Max(I) ELSE 0
  PROVE  j \in 0 .. n /\ (j # 0 => j \in I) /\ \A i \in I : i <= j
<1>1. CASE I = {}
  BY <1>1
<1>2. CASE I # {}
  <2> DEFINE T == {n - i : i \in I}
  <2>1. \A i \in I : i \in Nat /\ 1 <= i /\ i <= n /\ n - i \in Nat
    <3>1. \A i \in 1 .. n : i \in Nat /\ 1 <= i /\ i <= n /\ n - i \in Nat
      OBVIOUS
    <3>2. \A i \in I : i \in 1 .. n
      OBVIOUS
    <3> QED
      BY <3>1, <3>2
  <2>2. T \in SUBSET Nat /\ T # {}
    BY <1>2, <2>1
  <2>3. PICK x \in T : \A m \in T : x <= m
    BY <2>2, NatMin
  <2>4. PICK k \in I : x = n - k
    BY <2>3
  <2>5. \A i \in I : k >= i
    <3> SUFFICES ASSUME NEW i \in I PROVE k >= i
      OBVIOUS
    <3>1. n - k <= n - i
      BY <2>3, <2>4
    <3>2. k \in Nat /\ i \in Nat
      BY <2>1
    <3> QED
      BY <3>1, <3>2
  <2> HIDE DEF T
  <2>6. \E y \in I : \A i \in I : y >= i
    BY <2>5
  <2>7. j \in I /\ \A i \in I : j >= i
    <3>1. j = CHOOSE y \in I : \A i \in I : y >= i
      BY <1>2 DEF Max
    <3> QED
      BY <2>6, <3>1
  <2>8. \A i \in I : i <= j
    BY <2>1, <2>7
  <2> QED
    BY <2>1, <2>7, <2>8
<1> QED
  BY <1>1, <1>2

\* Catching of the shape, in terms of the blocks themselves.
LEMMA CatchingIs ==
  ASSUME NEW n, NEW B, BlocksOK(B, n), NEW s, s.blocks = View(B)
  PROVE  /\ Catching(s) \in 0 .. Len(B)
         /\ Catching(s) # 0 => ~ Spent(B[Catching(s)])
         /\ \A i \in 1 .. Len(B) : ~ Spent(B[i]) => i <= Catching(s)
<1> DEFINE I == {i \in 1 .. Len(B) : ~ Spent(B[i])}
<1>1. /\ Len(View(B)) = Len(B) /\ Len(B) \in Nat
      /\ \A i \in 1 .. Len(B) : View(B)[i].flags = B[i].flags
  BY ViewIs
<1>2. I = {i \in 1 .. Len(s.blocks) : ~ {"FIRED", "FINALLY"} \subseteq s.blocks[i].flags}
  BY <1>1 DEF Spent
<1>3. Catching(s) = IF I # {} THEN Max(I) ELSE 0
  BY <1>2, Zenon DEF Catching, SelectLastInSeq
<1>4. I \in SUBSET (1 .. Len(B))
  OBVIOUS
<1>5. /\ Catching(s) \in 0 .. Len(B)
      /\ Catching(s) # 0 => Catching(s) \in I
      /\ \A i \in I : i <= Catching(s)
  <2> HIDE DEF I
  <2> QED
    BY <1>1, <1>3, <1>4, LastIs
<1> QED
  BY <1>5

\* Where the state of these blocks goes on, when the j-th of them handles it.
HandledBy(kinds, V, p, j) ==
  IF j = 0 THEN {}
  ELSE {<<Handler(V[j]), Shape(SubSeq(kinds, 1, V[j].sp), [SubSeq(V, 1, j) EXCEPT ![j] = Fired(V[j])], p)>>}

LEMMA HandledIs ==
  ASSUME NEW kinds, NEW V, NEW p, NEW j, j = Catching(Shape(kinds, V, p))
  PROVE  Handled(Shape(kinds, V, p)) = HandledBy(kinds, V, p, j)
<1>1. /\ Shape(kinds, V, p).kinds = kinds /\ Shape(kinds, V, p).blocks = V
      /\ Shape(kinds, V, p).pending = p
  BY ShapeIs
<1> QED
  BY <1>1 DEF Handled, HandledBy

\* The block on top handles it.
LEMMA HandledHere ==
  ASSUME NEW n, NEW B, BlocksOK(B, n), NEW kinds, NEW r, NEW j \in 1 .. Len(B), Len(B) <= j,
         ~ Spent(B[j]), NEW b, BlockOK(b, n), Forget(b) = Fired(Forget(B[j]))
  PROVE  Handled(ShapeOf(kinds, B, r)) =
           {<<Handler(B[j]), ShapeOf(SubSeq(kinds, 1, B[j].sp), [B EXCEPT ![j] = b], r)>>}
<1> DEFINE p == ~ IsNull(r)
           V == View(B)
           s == Shape(kinds, V, p)
<1>1. s.blocks = View(B)
  BY ShapeIs
<1>2. /\ Len(B) \in Nat /\ V[j] = Forget(B[j]) /\ IsList(V) /\ Len(V) = Len(B)
      /\ V[j].sp = B[j].sp /\ V[j].flags = B[j].flags
      /\ V[j].except = B[j].except /\ V[j].finally = B[j].finally
  BY ViewIs
<1>3. Catching(s) = j /\ j # 0
  <2> HIDE DEF s
  <2>1. Catching(s) \in 0 .. Len(B) /\ j <= Catching(s)
    BY <1>1, CatchingIs
  <2> QED
    BY <1>2, <2>1
<1>4. SubSeq(V, 1, j) = V
  <2>1. Len(V) = j
    BY <1>2
  <2>2. PICK S : V \in Seq(S)
    BY <1>2 DEF IsList
  <2> QED
    BY <2>1, <2>2, SubSeqFull
<1>5. View([B EXCEPT ![j] = b]) = [V EXCEPT ![j] = Forget(b)]
  BY ViewChanged
<1>6. Handler(V[j]) = Handler(B[j])
  BY <1>2 DEF Handler
<1> HIDE DEF p, V
<1>7. Handled(s) = HandledBy(kinds, V, p, j)
  BY <1>3, HandledIs
<1>8. HandledBy(kinds, V, p, j) =
        {<<Handler(B[j]), Shape(SubSeq(kinds, 1, B[j].sp), [V EXCEPT ![j] = Forget(b)], p)>>}
  BY <1>2, <1>3, <1>4, <1>6, Zenon DEF HandledBy
<1>9. ShapeOf(kinds, B, r) = s
  BY DEF ShapeOf, s, V, p
<1>10. ShapeOf(SubSeq(kinds, 1, B[j].sp), [B EXCEPT ![j] = b], r) =
         Shape(SubSeq(kinds, 1, B[j].sp), [V EXCEPT ![j] = Forget(b)], p)
  BY <1>5 DEF ShapeOf, p
<1> HIDE DEF s
<1> QED
  BY <1>7, <1>8, <1>9, <1>10

\* The block on top is spent, and the next one has to handle it.
LEMMA HandledBelow ==
  ASSUME NEW n, NEW B, BlocksOK(B, n), NEW kinds, NEW r, NEW m, m = Len(B), m # 0, Spent(B[m])
  PROVE  Handled(ShapeOf(kinds, SubSeq(B, 1, m - 1), r)) = Handled(ShapeOf(kinds, B, r))
<1> DEFINE p == ~ IsNull(r)
           A == SubSeq(B, 1, m - 1)
           s == Shape(kinds, View(B), p)
           t == Shape(kinds, View(A), p)
           j == Catching(s)
           k == Catching(t)
<1>1. m \in Nat /\ m - 1 \in 0 .. Len(B) /\ IsList(View(B)) /\ Len(View(B)) = m
  BY ViewIs
<1>2. /\ BlocksOK(A, n) /\ Len(A) = m - 1 /\ View(A) = SubSeq(View(B), 1, m - 1)
      /\ \A i \in 1 .. m - 1 : A[i] = B[i]
  BY <1>1, ViewSub
<1>a. BlocksOK(A, n)
  BY <1>2
<1>3. s.blocks = View(B) /\ t.blocks = View(A)
  BY ShapeIs
<1>4. ShapeOf(kinds, A, r) = t /\ ShapeOf(kinds, B, r) = s
  BY DEF ShapeOf
<1> HIDE DEF A
<1>5. /\ j \in 0 .. m /\ (j # 0 => ~ Spent(B[j]))
      /\ \A i \in 1 .. m : ~ Spent(B[i]) => i <= j
  <2> HIDE DEF s
  <2> QED
    BY <1>3, CatchingIs
<1>6. /\ k \in 0 .. m - 1 /\ (k # 0 => ~ Spent(A[k]))
      /\ \A i \in 1 .. m - 1 : ~ Spent(A[i]) => i <= k
  <2> HIDE DEF t
  <2> QED
    BY <1>2, <1>3, CatchingIs
<1> HIDE DEF s, t, j, k
<1>7. j # m /\ j \in 0 .. m - 1
  BY <1>1, <1>5
<1>8. j = k
  <2>1. j <= k
    <3>1. CASE j = 0
      BY <1>6, <3>1
    <3>2. CASE j # 0
      <4>1. j \in 1 .. m - 1 /\ ~ Spent(A[j])
        BY <1>1, <1>2, <1>5, <1>7, <3>2
      <4> QED
        BY <1>6, <4>1
    <3> QED
      BY <3>1, <3>2
  <2>2. k <= j
    <3>1. CASE k = 0
      BY <1>5, <3>1
    <3>2. CASE k # 0
      <4>1. k \in 1 .. m - 1 /\ k \in 1 .. m /\ ~ Spent(B[k])
        BY <1>1, <1>2, <1>6, <3>2
      <4> QED
        BY <1>5, <4>1
    <3> QED
      BY <3>1, <3>2
  <2> QED
    BY <1>1, <1>5, <1>6, <2>1, <2>2
<1>9. Handled(s) = HandledBy(kinds, View(B), p, j)
  BY HandledIs DEF s, j
<1>10. Handled(t) = HandledBy(kinds, View(A), p, j)
  <2>1. Handled(t) = HandledBy(kinds, View(A), p, k)
    BY HandledIs DEF t, k
  <2> QED
    BY <1>8, <2>1
<1>11. HandledBy(kinds, View(A), p, j) = HandledBy(kinds, View(B), p, j)
  <2>1. CASE j = 0
    BY <2>1 DEF HandledBy
  <2>2. CASE j # 0
    <3>1. j \in 1 .. m - 1 /\ m - 1 \in 1 .. m /\ m - 1 \in Nat
      BY <1>1, <1>7, <2>2
    <3>2. PICK S : View(B) \in Seq(S)
      BY <1>1 DEF IsList
    <3>3. SubSeq(View(A), 1, j) = SubSeq(View(B), 1, j)
      <4>1. /\ 1 \in 1 .. Len(View(B)) /\ m - 1 \in 1 .. Len(View(B))
            /\ 1 \in 1 .. (m - 1) - 1 + 1 /\ j \in 1 .. (m - 1) - 1 + 1
            /\ 1 + 1 - 1 = 1 /\ 1 + j - 1 = j
        BY <1>1, <3>1
      <4>2. SubSeq(SubSeq(View(B), 1, m - 1), 1, j) = SubSeq(View(B), 1 + 1 - 1, 1 + j - 1)
        BY <3>2, <4>1, SubSeqOfSubSeq
      <4> QED
        BY <1>2, <4>1, <4>2
    <3>4. View(A)[j] = View(B)[j]
      <4>1. j \in 1 .. Len(A) /\ j \in 1 .. Len(B) /\ A[j] = B[j]
        BY <1>1, <1>2, <3>1
      <4>2. View(A)[j] = Forget(A[j])
        BY <1>a, <4>1, ViewIs
      <4>3. View(B)[j] = Forget(B[j])
        BY <4>1, ViewIs
      <4> QED
        BY <4>1, <4>2, <4>3
    <3> QED
      BY <3>3, <3>4, Zenon DEF HandledBy
  <2> QED
    BY <2>1, <2>2
<1> QED
  BY <1>4, <1>9, <1>10, <1>11 DEF A

-----------------------------------------------------------------------------
(* The invariant. *)

\* Where the call stands: the shape s belongs to the certificate P at the address
\* a or, with an exception x under way, where the block is that handles it.
Place(P, a, s, x, st) ==
  st = "running" => IF x = None THEN In(<<a, s>>, P)
                                ELSE Covered(s) /\ \A y \in Handled(s) : In(y, P)

DepthOK(P, d) == \A a \in DOMAIN d : a \in DOMAIN P /\ \E s \in P[a] : d[a] = Height(s)

Good == /\ status \in {"running", "returned", "raised"}
        /\ thrown \in 0 .. Len(heap)
        /\ StateOK(heap, blocks, locals, returnValue, trace)
        /\ \E kinds : /\ Fits(stack, kinds, Len(heap))
                      /\ Place(Certificate[call], pc, ShapeOf(kinds, blocks, returnValue), thrown, status)

Inv == /\ call \in 1 .. Len(Codes) /\ code = Codes[call].ins
       /\ DepthOK(Certificate[call], depth)
       /\ Good

\* An instruction is about to be executed.
Ready(i, a, s, P) == Sound(i, s) /\ \A x \in Flow(i, a, s) : In(x, P)

At(kinds) == /\ Fits(stack, kinds, Len(heap))
             /\ Ready(Ins, pc, ShapeOf(kinds, blocks, returnValue), Certificate[call])
             /\ status = "running" /\ thrown = None

LEMMA CertifiedIs ==
  ASSUME NEW c \in 1 .. Len(Codes)
  PROVE  Certified(Codes[c].ins, Certificate[c])
BY CertificateAssumption

LEMMA Instructions ==
  ASSUME Inv, Step
  PROVE  /\ Instruction /\ UNCHANGED <<call, code>>
         /\ DepthOK(Certificate[call], depth')
         /\ \E kinds : At(kinds)
<1> DEFINE P == Certificate[call]
<1>1. status = "running" /\ thrown = None /\ pc \in DOMAIN code
      /\ depth' = [a \in DOMAIN depth \cup {pc} |-> IF a = pc THEN Len(stack) ELSE depth[a]]
  BY DEF Step
<1>2. PICK kinds : Fits(stack, kinds, Len(heap))
                   /\ Place(P, pc, ShapeOf(kinds, blocks, returnValue), thrown, status)
  BY DEF Inv, Good
<1> DEFINE s == ShapeOf(kinds, blocks, returnValue)
<1>3. Certified(code, P)
  BY CertifiedIs DEF Inv
<1>4. Height(s) = Len(stack)
  BY <1>2, ShapeIs DEF ShapeOf, Height, Fits
<1> HIDE DEF P, s
<1>5. In(<<pc, s>>, P)
  BY <1>1, <1>2 DEF Place, s
<1>6. pc \in DOMAIN P /\ s \in P[pc]
  BY <1>5 DEF In
<1>7. Sound(Ins, s) /\ \A x \in Flow(Ins, pc, s) : In(x, P)
  BY <1>3, <1>6 DEF Certified, Ins
<1>8. At(kinds)
  BY <1>1, <1>2, <1>7 DEF At, Ready, s, P
<1>9. DepthOK(P, depth')
  <2>1. DepthOK(P, depth)
    BY DEF Inv, P
  <2>2. DOMAIN depth' = DOMAIN depth \cup {pc}
    BY <1>1
  <2>3. \A a \in DOMAIN depth' : depth'[a] = IF a = pc THEN Len(stack) ELSE depth[a]
    BY <1>1
  <2> QED
    BY <1>4, <1>6, <2>1, <2>2, <2>3 DEF DepthOK
<1>10. Instruction
  <2>1. Needs[Ins.op] <= Height(s)
    BY <1>7 DEF Sound
  <2>2. ~ (Len(stack) < Needs[Ins.op])
    <3>1. Len(stack) \in Nat
      BY <1>2, ListIs DEF Fits
    <3>2. Needs[Ins.op] \in Nat
      <4>1. Ins.op \in DOMAIN Needs
        BY <1>7 DEF Sound
      <4> QED
        BY <4>1 DEF Needs
    <3> QED
      BY <1>4, <2>1, <3>1, <3>2
  <2> QED
    BY <2>2 DEF Step
<1>11. UNCHANGED <<call, code>>
  BY DEF Step
<1> QED
  BY <1>8, <1>9, <1>10, <1>11 DEF P

LEMMA PopIs ==
  ASSUME NEW kinds, NEW B, NEW r, NEW n
  PROVE  /\ Pop(ShapeOf(kinds, B, r), n) = ShapeOf(SubSeq(kinds, 1, Len(kinds) - n), B, r)
         /\ Height(ShapeOf(kinds, B, r)) = Len(kinds)
         /\ ShapeOf(kinds, B, r).kinds = kinds /\ ShapeOf(kinds, B, r).blocks = View(B)
         /\ ShapeOf(kinds, B, r).pending = (~ IsNull(r))
BY ShapeIs DEF ShapeOf, Pop, Height

LEMMA PushIs ==
  ASSUME NEW kinds, NEW B, NEW r, NEW more
  PROVE  Push(ShapeOf(kinds, B, r), more) = ShapeOf(kinds \o more, B, r)
BY ShapeIs DEF ShapeOf, Push

LEMMA DropIs ==
  ASSUME NEW n, NEW st, NEW kinds, Fits(st, kinds, n), NEW m \in 0 .. Len(st)
  PROVE  /\ Fits(SubSeq(st, 1, Len(st) - m), SubSeq(kinds, 1, Len(kinds) - m), n)
         /\ Len(kinds) = Len(st) /\ Len(st) \in Nat
<1>1. Len(kinds) = Len(st) /\ Len(st) \in Nat /\ Len(st) - m \in 0 .. Len(st)
  BY ListIs DEF Fits
<1> QED
  BY <1>1, FitsSub

\* A step that only moves on, and one that throws an exception.
LEMMA MovesOn ==
  ASSUME Good, status = "running", thrown = None, UNCHANGED call,
         UNCHANGED <<blocks, returnValue, heap, thrown, status, trace>>,
         LocalsOK(locals', Len(heap)),
         NEW kinds, Fits(stack', kinds, Len(heap)),
         In(<<pc', ShapeOf(kinds, blocks, returnValue)>>, Certificate[call])
  PROVE  Good'
<1>1. StateOK(heap', blocks', locals', returnValue', trace')
  BY DEF Good, StateOK
<1>2. Place(Certificate[call'], pc', ShapeOf(kinds, blocks', returnValue'), thrown', status')
  BY DEF Place
<1> QED
  BY <1>1, <1>2 DEF Good

LEMMA Throws ==
  ASSUME Good, status = "running", UNCHANGED call,
         UNCHANGED <<blocks, returnValue, status>>,
         LocalsOK(locals', Len(heap)), TraceOK(trace'),
         NEW type, type # "InternalError", Throw(type),
         NEW kinds, Fits(stack', kinds, Len(heap)),
         Covered(ShapeOf(kinds, blocks, returnValue)),
         \A x \in Handled(ShapeOf(kinds, blocks, returnValue)) : In(x, Certificate[call])
  PROVE  Good'
<1>1. heap' = Append(heap, [type |-> type, parent |-> None]) /\ thrown' = Len(heap) + 1
  BY DEF Throw, New
<1>2. HeapOK(heap)
  BY DEF Good, StateOK
<1>3. HeapOK(heap') /\ Len(heap') = Len(heap) + 1 /\ Len(heap) \in Nat
  BY <1>1, <1>2, HeapAppend
<1>4. StateOK(heap, blocks, locals', returnValue, trace')
  BY DEF Good, StateOK
<1>5. StateOK(heap', blocks, locals', returnValue, trace') /\ Fits(stack', kinds, Len(heap'))
  <2>1. Len(heap) <= Len(heap')
    BY <1>3
  <2> QED
    BY <1>3, <1>4, <2>1, StateGrows
<1>6. thrown' # None /\ thrown' \in 0 .. Len(heap')
  BY <1>1, <1>3 DEF None
<1>7. Place(Certificate[call'], pc', ShapeOf(kinds, blocks', returnValue'), thrown', status')
  BY <1>6 DEF Place
<1> QED
  BY <1>5, <1>6, <1>7 DEF Good

\* The value on top of the stack, where it is an ordinary one.
LEMMA TopIs ==
  ASSUME NEW kinds, At(kinds), Ins.op \in Ordinary
  PROVE  /\ Datum(Top, Len(heap)) /\ Len(stack) >= 1
         /\ Fits(Drop(1), SubSeq(kinds, 1, Len(kinds) - 1), Len(heap))
         /\ Pop(ShapeOf(kinds, blocks, returnValue), 1)
              = ShapeOf(SubSeq(kinds, 1, Len(kinds) - 1), blocks, returnValue)
<1> DEFINE s == ShapeOf(kinds, blocks, returnValue)
<1>1. Fits(stack, kinds, Len(heap)) /\ Sound(Ins, s)
  BY DEF At, Ready
<1>2. /\ Len(kinds) = Len(stack) /\ Len(stack) \in Nat
      /\ \A m \in 1 .. Len(stack) : HasKind(stack[m], kinds[m], Len(heap))
  BY <1>1, ListIs DEF Fits
<1>3. Height(s) = Len(kinds) /\ s.kinds = kinds
  BY PopIs
<1> HIDE DEF s
<1>4. 1 \in 0 .. Height(s) /\ \A m \in Height(s) - 1 + 1 .. Height(s) : s.kinds[m] = "plain"
  BY <1>1 DEF Sound
<1>5. Len(stack) >= 1 /\ 1 \in 0 .. Len(stack) /\ Len(stack) \in 1 .. Len(stack)
      /\ Len(stack) \in Height(s) - 1 + 1 .. Height(s)
  BY <1>2, <1>3, <1>4
<1>6. HasKind(stack[Len(stack)], "plain", Len(heap))
  BY <1>2, <1>3, <1>4, <1>5
<1>7. Datum(Top, Len(heap))
  BY <1>6 DEF HasKind, Top, Last
<1>8. Fits(Drop(1), SubSeq(kinds, 1, Len(kinds) - 1), Len(heap))
  BY <1>1, <1>5, DropIs DEF Drop
<1> QED
  BY <1>5, <1>7, <1>8, PopIs

LEMMA StoreLocalKeeps ==
  ASSUME Inv, NEW kinds, At(kinds), UNCHANGED call, StoreLocal
  PROVE  Good'
<1> DEFINE s == ShapeOf(kinds, blocks, returnValue)
<1>1. Ins.op = "STOR_LOCAL" /\ Ins.op \in Ordinary
  BY DEF StoreLocal, Is, Ordinary
<1>2. /\ Datum(Top, Len(heap))
      /\ Fits(Drop(1), SubSeq(kinds, 1, Len(kinds) - 1), Len(heap))
      /\ Pop(s, 1) = ShapeOf(SubSeq(kinds, 1, Len(kinds) - 1), blocks, returnValue)
  BY <1>1, TopIs
<1>3. In(<<pc + Ins.size, Pop(s, 1)>>, Certificate[call])
  BY <1>1 DEF At, Ready, Flow, Binaries
<1>4. LocalsOK(locals', Len(heap))
  <2>1. LocalsOK(locals, Len(heap)) /\ locals' = [locals EXCEPT ![Ins.a] = Top]
    BY DEF Inv, Good, StateOK, StoreLocal
  <2> QED
    BY <1>2, <2>1 DEF LocalsOK, Variable
<1> QED
  BY <1>2, <1>3, <1>4, MovesOn DEF Inv, At, StoreLocal, Advance

LEMMA PlainPush ==
  ASSUME NEW n, NEW st, NEW kinds, Fits(st, kinds, n), NEW x, Datum(x, n)
  PROVE  Fits(Append(st, x), kinds \o Plain(1), n)
<1>1. HasKind(x, "plain", n)
  BY DEF HasKind
<1>2. Fits(Append(st, x), kinds \o <<"plain">>, n)
  BY <1>1, FitsPush
<1> QED
  BY <1>2, OnePlain

LEMMA AtIs ==
  ASSUME Inv, NEW kinds, At(kinds)
  PROVE  /\ Good /\ status = "running" /\ thrown = None
         /\ HeapOK(heap) /\ Len(heap) \in Nat
         /\ LocalsOK(locals, Len(heap)) /\ TraceOK(trace)
         /\ BlocksOK(blocks, Len(heap)) /\ Variable(returnValue, Len(heap))
         /\ Fits(stack, kinds, Len(heap)) /\ Len(kinds) = Len(stack) /\ Len(stack) \in Nat
         /\ Covered(ShapeOf(kinds, blocks, returnValue))
<1>1. Good /\ StateOK(heap, blocks, locals, returnValue, trace)
  BY DEF Inv, Good
<1>2. /\ HeapOK(heap) /\ LocalsOK(locals, Len(heap)) /\ TraceOK(trace)
      /\ BlocksOK(blocks, Len(heap)) /\ Variable(returnValue, Len(heap))
  BY <1>1 DEF StateOK
<1>3. Len(heap) \in Nat
  BY <1>2, ListIs DEF HeapOK
<1>4. Fits(stack, kinds, Len(heap)) /\ status = "running" /\ thrown = None
  BY DEF At
<1>5. Len(kinds) = Len(stack) /\ Len(stack) \in Nat
  BY <1>4, ListIs DEF Fits
<1>6. Covered(ShapeOf(kinds, blocks, returnValue))
  BY DEF At, Ready, Sound
<1> QED
  BY <1>1, <1>2, <1>3, <1>4, <1>5, <1>6

LEMMA CallKeeps ==
  ASSUME Inv, NEW kinds, At(kinds), UNCHANGED call, Call
  PROVE  Good'
<1> DEFINE s == ShapeOf(kinds, blocks, returnValue)
           P == Certificate[call]
<1>1. Ins.op = "CALL"
  BY DEF Call, Is
<1>2. /\ Good /\ status = "running" /\ thrown = None
      /\ Len(heap) \in Nat /\ LocalsOK(locals, Len(heap)) /\ TraceOK(trace)
      /\ Fits(stack, kinds, Len(heap)) /\ Covered(s)
  BY AtIs
<1>3. In(<<pc + Ins.size, Push(s, Plain(1))>>, P)
  BY <1>1 DEF At, Ready, Flow, Binaries
<1>4. Ins.a \in MayThrow => \A x \in Handled(s) : In(x, P)
  BY <1>1 DEF At, Ready, Flow, Binaries
<1>5. PICK v \in IF Len(trace) >= MaxCalls THEN {0} ELSE Values \cup (IF Ins.a \in MayThrow THEN {-1} ELSE {}) :
        /\ trace' = Append(trace, [id |-> Ins.a, v |-> v])
        /\ IF v = -1 THEN Throw("B") /\ UNCHANGED stack
           ELSE stack' = Append(stack, Val(v)) /\ UNCHANGED <<heap, thrown>>
  BY DEF Call
<1>6. v \in Values \cup {0, -1} /\ v \in Int /\ (v = -1 => Ins.a \in MayThrow)
  <2>1. CASE Len(trace) >= MaxCalls
    BY <1>5, <2>1
  <2>2. CASE ~ (Len(trace) >= MaxCalls)
    BY <1>5, <2>2, ValuesAssumption
  <2> QED
    BY <2>1, <2>2
<1>7. TraceOK(trace')
  <2> DEFINE e == [id |-> Ins.a, v |-> v]
  <2>1. e.v = v
    OBVIOUS
  <2> HIDE DEF e
  <2>2. IsList(trace) /\ trace' = Append(trace, e)
    BY <1>2, <1>5 DEF TraceOK, e
  <2>3. /\ IsList(trace') /\ Len(trace') = Len(trace) + 1 /\ Len(trace) \in Nat
        /\ \A i \in 1 .. Len(trace) : trace'[i] = trace[i]
        /\ trace'[Len(trace) + 1] = e
    BY <2>2, AppendList, ListIs
  <2>4. \A m \in 1 .. Len(trace) + 1 : m \in 1 .. Len(trace) \/ m = Len(trace) + 1
    BY <2>3
  <2>5. \A m \in 1 .. Len(trace) + 1 : trace'[m].v \in Values \cup {0, -1}
    BY <1>2, <1>6, <2>1, <2>3, <2>4 DEF TraceOK
  <2> QED
    BY <2>3, <2>5 DEF TraceOK
<1>8. CASE v = -1
  <2>1. Throw("B") /\ UNCHANGED stack /\ \A x \in Handled(s) : In(x, P)
    BY <1>4, <1>5, <1>6, <1>8
  <2> QED
    BY <1>2, <1>7, <2>1, Throws DEF Call
<1>9. CASE v # -1
  <2>1. Fits(stack', kinds \o Plain(1), Len(heap))
    BY <1>2, <1>5, <1>6, <1>9, NumberDatum, PlainPush
  <2>2. In(<<pc', ShapeOf(kinds \o Plain(1), blocks, returnValue)>>, P)
    BY <1>3, PushIs DEF Call, Advance
  <2>3. UNCHANGED <<blocks, returnValue, heap, thrown, status, locals>>
    BY <1>5, <1>9 DEF Call
  <2>4. StateOK(heap', blocks', locals', returnValue', trace')
    BY <1>2, <1>7, <2>3 DEF Good, StateOK
  <2>5. Place(Certificate[call'], pc', ShapeOf(kinds \o Plain(1), blocks', returnValue'), thrown', status')
    BY <1>2, <2>2, <2>3 DEF Place
  <2> HIDE DEF P, s
  <2>6. Fits(stack', kinds \o Plain(1), Len(heap'))
    BY <2>1, <2>3
  <2> QED
    BY <1>2, <2>3, <2>4, <2>5, <2>6 DEF Good
<1> QED
  BY <1>8, <1>9

LEMMA LoadKeeps ==
  ASSUME Inv, NEW kinds, At(kinds), UNCHANGED call, Load
  PROVE  Good'
<1> DEFINE s == ShapeOf(kinds, blocks, returnValue)
           P == Certificate[call]
<1>1. /\ UNCHANGED <<blocks, returnValue, locals, thrown, status, trace>>
      /\ pc' = pc + Ins.size
      /\ Ins.op \in {"LOAD_NULL", "LOAD_CONST", "NEW"}
  BY DEF Load, Advance, Is
<1>2. /\ Good /\ status = "running" /\ thrown = None /\ HeapOK(heap)
      /\ Len(heap) \in Nat /\ LocalsOK(locals, Len(heap))
      /\ Fits(stack, kinds, Len(heap))
  BY AtIs
<1>3. CASE Ins.op = "LOAD_NULL"
  <2>1. stack' = Append(stack, Val(0)) /\ UNCHANGED heap
    BY <1>3 DEF Load, Is
  <2>2. In(<<pc + Ins.size, Push(s, Plain(1))>>, P)
    BY <1>3 DEF At, Ready, Flow, Binaries
  <2>3. Fits(stack', kinds \o Plain(1), Len(heap))
    BY <1>2, <2>1, NumberDatum, PlainPush
  <2>4. In(<<pc', ShapeOf(kinds \o Plain(1), blocks, returnValue)>>, P)
    BY <1>1, <2>2, PushIs
  <2> QED
    BY <1>1, <1>2, <2>1, <2>3, <2>4, MovesOn
<1>4. CASE Ins.op = "LOAD_CONST"
  <2> DEFINE x == Ins.a @@ Null
             kind == Kind(Ins.a)
  <2>1. stack' = Append(stack, x) /\ UNCHANGED heap
    BY <1>4 DEF Load, Is
  <2>2. In(<<pc + Ins.size, Push(s, <<kind>>)>>, P)
    BY <1>4 DEF At, Ready, Flow, Binaries
  <2>3. x.k = Ins.a.k /\ (x.k = "type" \/ (x = Val(x.v) /\ x.v \in Int))
    BY <1>4 DEF At, Ready, Sound
  <2> HIDE DEF x
  <2>4. HasKind(x, kind, Len(heap))
    <3>1. CASE x.k = "type"
      BY <2>3, <3>1 DEF Kind, HasKind
    <3>2. CASE x.k # "type"
      <4>1. Datum(x, Len(heap))
        BY <1>2, <2>3, <3>2, NumberDatum
      <4> QED
        BY <2>3, <3>2, <4>1 DEF Kind, HasKind
    <3> QED
      BY <3>1, <3>2
  <2> HIDE DEF kind
  <2>5. Fits(stack', kinds \o <<kind>>, Len(heap))
    BY <1>2, <2>1, <2>4, FitsPush
  <2>6. In(<<pc', ShapeOf(kinds \o <<kind>>, blocks, returnValue)>>, P)
    BY <1>1, <2>2, PushIs
  <2> QED
    BY <1>1, <1>2, <2>1, <2>5, <2>6, MovesOn
<1>5. CASE Ins.op = "NEW"
  <2>1. /\ stack' = Append(stack, Exc(Len(heap) + 1))
        /\ heap' = Append(heap, [type |-> Ins.a, parent |-> None])
    BY <1>5 DEF Load, Is, New
  <2>2. In(<<pc + Ins.size, Push(s, Plain(1))>>, P)
    BY <1>5 DEF At, Ready, Flow, Binaries
  <2>3. Ins.a # "InternalError"
    BY <1>5 DEF At, Ready, Sound
  <2>4. HeapOK(heap') /\ Len(heap') = Len(heap) + 1
    BY <1>2, <2>1, <2>3, HeapAppend
  <2>5. Len(heap) <= Len(heap') /\ Len(heap) + 1 \in 1 .. Len(heap') /\ Len(heap') \in Nat
        /\ thrown' \in 0 .. Len(heap')
    BY <1>1, <1>2, <2>4 DEF None
  <2>6. StateOK(heap, blocks, locals, returnValue, trace)
    BY <1>2 DEF Good
  <2>7. StateOK(heap', blocks, locals, returnValue, trace) /\ Fits(stack, kinds, Len(heap'))
    BY <1>2, <2>4, <2>5, <2>6, StateGrows
  <2>8. Datum(Exc(Len(heap) + 1), Len(heap'))
    BY <2>5, ExceptionDatum
  <2>9. Fits(stack', kinds \o Plain(1), Len(heap'))
    BY <2>1, <2>7, <2>8, PlainPush
  <2>10. In(<<pc', ShapeOf(kinds \o Plain(1), blocks', returnValue')>>, P)
    BY <1>1, <2>2, PushIs
  <2>11. Place(Certificate[call'], pc', ShapeOf(kinds \o Plain(1), blocks', returnValue'), thrown', status')
    BY <1>1, <1>2, <2>10 DEF Place
  <2>12. StateOK(heap', blocks', locals', returnValue', trace')
    BY <1>1, <2>7
  <2> QED
    BY <1>1, <1>2, <2>5, <2>9, <2>11, <2>12 DEF Good
<1> QED
  BY <1>1, <1>3, <1>4, <1>5

LEMMA LoadLocalKeeps ==
  ASSUME Inv, NEW kinds, At(kinds), UNCHANGED call, LoadLocal
  PROVE  Good'
<1> DEFINE s == ShapeOf(kinds, blocks, returnValue)
           P == Certificate[call]
<1>1. /\ UNCHANGED <<blocks, returnValue, locals, status, trace>>
      /\ pc' = pc + Ins.size
      /\ Ins.op = "LOAD_LOCAL"
  BY DEF LoadLocal, Advance, Is
<1>2. /\ Good /\ status = "running" /\ thrown = None
      /\ Len(heap) \in Nat /\ LocalsOK(locals, Len(heap)) /\ TraceOK(trace)
      /\ Fits(stack, kinds, Len(heap)) /\ Covered(s)
  BY AtIs
<1>3. In(<<pc + Ins.size, Push(s, Plain(1))>>, P) /\ \A x \in Handled(s) : In(x, P)
  BY <1>1 DEF At, Ready, Flow, Binaries
<1>4. CASE IsNull(locals[Ins.a])
  <2>1. Throw("NameError") /\ UNCHANGED stack
    BY <1>4 DEF LoadLocal
  <2> QED
    BY <1>1, <1>2, <1>3, <2>1, Throws
<1>5. CASE ~ IsNull(locals[Ins.a])
  <2>1. stack' = Append(stack, locals[Ins.a]) /\ UNCHANGED <<heap, thrown>>
    BY <1>5 DEF LoadLocal
  <2>2. Datum(locals[Ins.a], Len(heap))
    <3>1. Ins.a \in Locals
      BY <1>1 DEF At, Ready, Sound
    <3>2. IsNull(Null)
      BY DEF IsNull, Null
    <3> QED
      BY <1>2, <1>5, <3>1, <3>2 DEF LocalsOK, Variable
  <2>3. Fits(stack', kinds \o Plain(1), Len(heap))
    BY <1>2, <2>1, <2>2, PlainPush
  <2>4. In(<<pc', ShapeOf(kinds \o Plain(1), blocks, returnValue)>>, P)
    BY <1>1, <1>3, PushIs
  <2> QED
    BY <1>1, <1>2, <2>1, <2>3, <2>4, MovesOn
<1> QED
  BY <1>4, <1>5

LEMMA DeleteLocalKeeps ==
  ASSUME Inv, NEW kinds, At(kinds), UNCHANGED call, DeleteLocal
  PROVE  Good'
<1> DEFINE s == ShapeOf(kinds, blocks, returnValue)
           P == Certificate[call]
<1>1. /\ UNCHANGED <<stack, blocks, returnValue, status, trace>>
      /\ pc' = pc + Ins.size
      /\ Ins.op = "DEL_LOCAL"
  BY DEF DeleteLocal, Advance, Is
<1>2. /\ Good /\ status = "running" /\ thrown = None
      /\ Len(heap) \in Nat /\ LocalsOK(locals, Len(heap)) /\ TraceOK(trace)
      /\ Fits(stack, kinds, Len(heap)) /\ Covered(s)
  BY AtIs
<1>3. In(<<pc + Ins.size, s>>, P) /\ \A x \in Handled(s) : In(x, P)
  BY <1>1 DEF At, Ready, Flow, Binaries
<1>4. CASE IsNull(locals[Ins.a])
  <2>1. Throw("NameError") /\ UNCHANGED locals
    BY <1>4 DEF DeleteLocal
  <2> QED
    BY <1>1, <1>2, <1>3, <2>1, Throws
<1>5. CASE ~ IsNull(locals[Ins.a])
  <2>1. locals' = [locals EXCEPT ![Ins.a] = Null] /\ UNCHANGED <<heap, thrown>>
    BY <1>5 DEF DeleteLocal
  <2>2. LocalsOK(locals', Len(heap))
    BY <1>2, <2>1 DEF LocalsOK, Variable
  <2> QED
    BY <1>1, <1>2, <1>3, <2>1, <2>2, MovesOn
<1> QED
  BY <1>4, <1>5

LEMMA MakeSequenceKeeps ==
  ASSUME Inv, NEW kinds, At(kinds), UNCHANGED call, MakeSequence
  PROVE  Good'
<1> DEFINE s == ShapeOf(kinds, blocks, returnValue)
           P == Certificate[call]
           m == Ins.a
           K == SubSeq(kinds, 1, Len(kinds) - m)
<1>1. /\ UNCHANGED <<blocks, returnValue, locals, status, trace>>
      /\ pc' = pc + Ins.size
      /\ Ins.op \in {"MAKE_ARRAY", "MAKE_TUPLE"}
  BY DEF MakeSequence, Advance, Is
<1>2. /\ Good /\ status = "running" /\ thrown = None
      /\ Len(heap) \in Nat /\ LocalsOK(locals, Len(heap))
      /\ Fits(stack, kinds, Len(heap)) /\ Len(kinds) = Len(stack) /\ Len(stack) \in Nat
  BY AtIs
<1>3. In(<<pc + Ins.size, Push(Pop(s, m), Plain(1))>>, P)
  BY <1>1 DEF At, Ready, Flow, Binaries
<1>4. m \in 0 .. Height(s) /\ \A i \in Height(s) - m + 1 .. Height(s) : s.kinds[i] = "plain"
  BY <1>1 DEF At, Ready, Sound
<1>5. Height(s) = Len(kinds) /\ s.kinds = kinds
  BY PopIs
<1>6. Pop(s, m) = ShapeOf(K, blocks, returnValue)
  BY PopIs
<1>7. Push(Pop(s, m), Plain(1)) = ShapeOf(K \o Plain(1), blocks, returnValue)
  BY <1>6, PushIs
<1> HIDE DEF s, m
<1>8. /\ stack' = Append(SubSeq(stack, 1, Len(stack) - m), Holding("seq", SubSeq(stack, Len(stack) - m + 1, Len(stack))))
      /\ UNCHANGED <<heap, thrown>>
  <2>1. ~ (Len(stack) < Ins.a)
    BY <1>2, <1>4, <1>5 DEF m
  <2> QED
    BY <2>1 DEF MakeSequence, Drop, Upper, m
<1>9. Data(SubSeq(stack, Len(stack) - m + 1, Len(stack)), Len(heap))
  <2> DEFINE b == Len(stack) - m + 1
             U == SubSeq(stack, b, Len(stack))
  <2>1. b \in 1 .. Len(stack) + 1 /\ Len(stack) \in b - 1 .. Len(stack) /\ IsList(stack)
    BY <1>2, <1>4, <1>5 DEF Fits
  <2>2. /\ IsList(U) /\ Len(U) = Len(stack) - b + 1
        /\ \A i \in 1 .. Len(stack) - b + 1 : U[i] = stack[b + i - 1]
    <3> HIDE DEF b
    <3> QED
      BY <2>1, SubList
  <2>3. \A i \in 1 .. Len(stack) - b + 1 : b + i - 1 \in 1 .. Len(stack) /\ b + i - 1 \in Height(s) - m + 1 .. Height(s)
    BY <1>2, <1>4, <1>5
  <2> HIDE DEF U, b
  <2>4. \A i \in 1 .. Len(U) : Datum(U[i], Len(heap))
    BY <1>2, <1>4, <1>5, <2>2, <2>3 DEF Fits, HasKind
  <2>5. Data(U, Len(heap))
    BY <2>2, <2>4 DEF Data
  <2> QED
    BY <2>5 DEF U, b
<1>10. Fits(SubSeq(stack, 1, Len(stack) - m), K, Len(heap))
  BY <1>2, <1>4, <1>5, DropIs
<1>11. Fits(stack', K \o Plain(1), Len(heap))
  BY <1>2, <1>8, <1>9, <1>10, SequenceDatum, PlainPush
<1>12. In(<<pc', ShapeOf(K \o Plain(1), blocks, returnValue)>>, P)
  BY <1>1, <1>3, <1>7
<1> QED
  BY <1>1, <1>2, <1>8, <1>11, <1>12, MovesOn

LEMMA ReverseData ==
  ASSUME NEW n, NEW s, Data(s, n)
  PROVE  Data(Reverse(s), n) /\ Len(Reverse(s)) = Len(s)
<1> DEFINE r == Reverse(s)
<1>1. IsList(s) /\ Len(s) \in Nat
  BY ListIs DEF Data
<1>2. r = [i \in 1 .. Len(s) |-> r[i]] /\ \A i \in 1 .. Len(s) : r[i] = s[(Len(s) - i) + 1]
  BY DEF Reverse
<1> HIDE DEF r
<1>3. IsList(r) /\ Len(r) = Len(s)
  BY <1>1, <1>2, ListOf
<1>4. \A i \in 1 .. Len(s) : (Len(s) - i) + 1 \in 1 .. Len(s)
  BY <1>1
<1>5. \A i \in 1 .. Len(r) : Datum(r[i], n)
  BY <1>2, <1>3, <1>4 DEF Data
<1>6. Data(r, n) /\ Len(r) = Len(s)
  BY <1>3, <1>5 DEF Data
<1> QED
  BY <1>6 DEF r

LEMMA ExpandSequenceKeeps ==
  ASSUME Inv, NEW kinds, At(kinds), UNCHANGED call, ExpandSequence
  PROVE  Good'
<1> DEFINE s == ShapeOf(kinds, blocks, returnValue)
           P == Certificate[call]
           K == SubSeq(kinds, 1, Len(kinds) - 1)
<1>1. /\ UNCHANGED <<blocks, returnValue, locals, status, trace>>
      /\ pc' = pc + Ins.size
      /\ Ins.op = "EXPAND_SEQ" /\ Ins.op \in Ordinary
  BY DEF ExpandSequence, Advance, Is, Ordinary
<1>2. /\ Good /\ status = "running" /\ thrown = None
      /\ Len(heap) \in Nat /\ LocalsOK(locals, Len(heap)) /\ TraceOK(trace)
  BY AtIs
<1>3. In(<<pc + Ins.size, Push(Pop(s, 1), Plain(Ins.a))>>, P) /\ \A x \in Handled(Pop(s, 1)) : In(x, P)
  BY <1>1 DEF At, Ready, Flow, Binaries
<1>4. Covered(Pop(s, 1))
  BY <1>1 DEF At, Ready, Sound
<1>5. /\ Datum(Top, Len(heap)) /\ Fits(Drop(1), K, Len(heap))
      /\ Pop(s, 1) = ShapeOf(K, blocks, returnValue)
  BY <1>1, TopIs
<1> HIDE DEF s, K
<1>6. CASE Len(Items(Top)) # Ins.a
  <2>1. Throw("ValueError") /\ stack' = Drop(1)
    BY <1>6 DEF ExpandSequence
  <2> QED
    BY <1>1, <1>2, <1>3, <1>4, <1>5, <2>1, Throws
<1>7. CASE Len(Items(Top)) = Ins.a
  <2> DEFINE U == Reverse(Items(Top))
  <2>1. stack' = Drop(1) \o U /\ UNCHANGED <<heap, thrown>>
    BY <1>7 DEF ExpandSequence
  <2>2. Data(U, Len(heap)) /\ Len(U) = Ins.a
    BY <1>2, <1>5, <1>7, ItemsData, ReverseData
  <2> HIDE DEF U
  <2>3. Fits(U, Plain(Ins.a), Len(heap))
    BY <1>2, <2>2, PlainIs
  <2>4. Fits(stack', K \o Plain(Ins.a), Len(heap))
    BY <1>5, <2>1, <2>3, FitsConcat
  <2>5. In(<<pc', ShapeOf(K \o Plain(Ins.a), blocks, returnValue)>>, P)
    BY <1>1, <1>3, <1>5, PushIs
  <2> QED
    BY <1>1, <1>2, <2>1, <2>4, <2>5, MovesOn
<1> QED
  BY <1>6, <1>7

LEMMA TwoList ==
  ASSUME NEW x, NEW y
  PROVE  <<x>> \o <<y>> = <<x, y>>
<1>1. <<x, y>> \in Seq({x, y}) /\ Len(<<x, y>>) = 2 /\ <<x, y>>[1] = x /\ <<x, y>>[2] = y
  OBVIOUS
<1>2. /\ IsList(<<x>>) /\ Len(<<x>>) = 1 /\ <<x>>[1] = x
      /\ IsList(<<y>>) /\ Len(<<y>>) = 1 /\ <<y>>[1] = y
  BY OneList
<1> DEFINE s == <<x>>
           t == <<y>>
<1>3. /\ IsList(s \o t) /\ Len(s \o t) = Len(s) + Len(t)
      /\ \A i \in 1 .. Len(s) + Len(t) : (s \o t)[i] = IF i <= Len(s) THEN s[i] ELSE t[i - Len(s)]
  <2> HIDE DEF s, t
  <2>1. IsList(s) /\ IsList(t)
    BY <1>2 DEF s, t
  <2> QED
    BY <2>1, ConcatList
<1>4. Len(s) = 1 /\ Len(t) = 1 /\ s[1] = x /\ t[1] = y
  BY <1>2
<1> HIDE DEF s, t
<1>5. Len(s \o t) = 2 /\ (s \o t)[1] = x /\ (s \o t)[2] = y
  BY <1>3, <1>4
<1>6. s \o t = <<x, y>>
  <2>1. IsList(<<x, y>>)
    BY <1>1 DEF IsList
  <2>2. \A i \in 1 .. Len(s \o t) : (s \o t)[i] = <<x, y>>[i]
    BY <1>1, <1>5
  <2> QED
    BY <1>1, <1>3, <1>5, <2>1, <2>2, ListEqual
<1> QED
  BY <1>6 DEF s, t

LEMMA ThreeList ==
  ASSUME NEW x, NEW y, NEW z
  PROVE  <<x, y>> \o <<z>> = <<x, y, z>>
<1>1. /\ <<x, y, z>> \in Seq({x, y, z}) /\ Len(<<x, y, z>>) = 3
      /\ <<x, y, z>>[1] = x /\ <<x, y, z>>[2] = y /\ <<x, y, z>>[3] = z
      /\ <<x, y>> \in Seq({x, y}) /\ Len(<<x, y>>) = 2 /\ <<x, y>>[1] = x /\ <<x, y>>[2] = y
  OBVIOUS
<1>2. IsList(<<z>>) /\ Len(<<z>>) = 1 /\ <<z>>[1] = z
  BY OneList
<1> DEFINE s == <<x, y>>
           t == <<z>>
<1>3. /\ IsList(s \o t) /\ Len(s \o t) = Len(s) + Len(t)
      /\ \A i \in 1 .. Len(s) + Len(t) : (s \o t)[i] = IF i <= Len(s) THEN s[i] ELSE t[i - Len(s)]
  <2>1. IsList(s) /\ IsList(t)
    BY <1>1, <1>2 DEF IsList
  <2> HIDE DEF s, t
  <2> QED
    BY <2>1, ConcatList
<1>4. Len(s) = 2 /\ Len(t) = 1 /\ s[1] = x /\ s[2] = y /\ t[1] = z
  BY <1>1, <1>2
<1> HIDE DEF s, t
<1>5. Len(s \o t) = 3 /\ (s \o t)[1] = x /\ (s \o t)[2] = y /\ (s \o t)[3] = z
  BY <1>3, <1>4
<1>6. s \o t = <<x, y, z>>
  <2>1. IsList(<<x, y, z>>)
    BY <1>1 DEF IsList
  <2>2. \A i \in 1 .. Len(s \o t) : (s \o t)[i] = <<x, y, z>>[i]
    BY <1>1, <1>5
  <2> QED
    BY <1>1, <1>3, <1>5, <2>1, <2>2, ListEqual
<1> QED
  BY <1>6 DEF s, t

LEMMA FitsTwo ==
  ASSUME NEW n, NEW x, NEW k, HasKind(x, k, n), NEW y, NEW l, HasKind(y, l, n)
  PROVE  Fits(<<x, y>>, <<k, l>>, n)
<1>1. Fits(<<x>>, <<k>>, n) /\ Fits(<<y>>, <<l>>, n)
  BY FitsOne
<1>2. Fits(<<x>> \o <<y>>, <<k>> \o <<l>>, n)
  BY <1>1, FitsConcat
<1>3. <<x>> \o <<y>> = <<x, y>> /\ <<k>> \o <<l>> = <<k, l>>
  BY TwoList
<1> QED
  BY <1>2, <1>3

LEMMA FitsThree ==
  ASSUME NEW n, NEW x, NEW k, HasKind(x, k, n), NEW y, NEW l, HasKind(y, l, n),
         NEW z, NEW m, HasKind(z, m, n)
  PROVE  Fits(<<x, y, z>>, <<k, l, m>>, n)
<1>1. Fits(<<x, y>>, <<k, l>>, n) /\ Fits(<<z>>, <<m>>, n)
  BY FitsOne, FitsTwo
<1>2. Fits(<<x, y>> \o <<z>>, <<k, l>> \o <<m>>, n)
  BY <1>1, FitsConcat
<1>3. <<x, y>> \o <<z>> = <<x, y, z>> /\ <<k, l>> \o <<m>> = <<k, l, m>>
  BY ThreeList
<1> QED
  BY <1>2, <1>3

LEMMA NeedsIs ==
  ASSUME Inv, NEW kinds, At(kinds)
  PROVE  /\ Ins.op \in {"DUP", "DROP", "ITER_NEXT", "RAISE", "EXC_MATCH", "EXC_STORE"} => Len(stack) >= 1
         /\ Ins.op = "SWAP"   => Len(stack) >= 2
         /\ Ins.op = "ROTATE" => Len(stack) >= 3
<1>1. Len(kinds) = Len(stack) /\ Len(stack) \in Nat
  BY AtIs
<1>2. Needs[Ins.op] <= Len(stack)
  <2>1. Needs[Ins.op] <= Height(ShapeOf(kinds, blocks, returnValue))
    BY DEF At, Ready, Sound
  <2>2. Height(ShapeOf(kinds, blocks, returnValue)) = Len(kinds)
    BY PopIs
  <2> QED
    BY <1>1, <2>1, <2>2
<1>3. /\ Ins.op \in {"DUP", "DROP", "ITER_NEXT", "RAISE", "EXC_MATCH", "EXC_STORE"} => Needs[Ins.op] = 1
      /\ Ins.op = "SWAP"   => Needs[Ins.op] = 2
      /\ Ins.op = "ROTATE" => Needs[Ins.op] = 3
  BY DEF Needs, Binaries
<1> QED
  BY <1>1, <1>2, <1>3

\* The last m values of the stack give way to others.
LEMMA Replaces ==
  ASSUME Inv, NEW kinds, At(kinds), UNCHANGED call,
         UNCHANGED <<blocks, returnValue, locals, heap, thrown, status, trace>>,
         NEW m \in 0 .. Len(stack), NEW new, NEW others, Fits(new, others, Len(heap)),
         stack' = Drop(m) \o new,
         In(<<pc', Push(Pop(ShapeOf(kinds, blocks, returnValue), m), others)>>, Certificate[call])
  PROVE  Good'
<1> DEFINE K == SubSeq(kinds, 1, Len(kinds) - m)
<1>1. /\ Good /\ status = "running" /\ thrown = None
      /\ LocalsOK(locals, Len(heap)) /\ Fits(stack, kinds, Len(heap))
  BY AtIs
<1>2. Fits(Drop(m), K, Len(heap))
  BY <1>1, DropIs DEF Drop
<1>3. Pop(ShapeOf(kinds, blocks, returnValue), m) = ShapeOf(K, blocks, returnValue)
  BY PopIs
<1> HIDE DEF K
<1>4. Fits(stack', K \o others, Len(heap))
  BY <1>2, FitsConcat
<1>5. In(<<pc', ShapeOf(K \o others, blocks, returnValue)>>, Certificate[call])
  BY <1>3, PushIs
<1> QED
  BY <1>1, <1>4, <1>5, MovesOn

LEMMA ShuffleKeeps ==
  ASSUME Inv, NEW kinds, At(kinds), UNCHANGED call, Shuffle
  PROVE  Good'
<1> DEFINE s == ShapeOf(kinds, blocks, returnValue)
           P == Certificate[call]
           n == Len(stack)
           h == Len(heap)
<1>1. /\ UNCHANGED <<blocks, returnValue, locals, heap, thrown, status, trace>>
      /\ pc' = pc + Ins.size
      /\ Ins.op \in {"DUP", "DROP", "SWAP", "ROTATE"}
  BY DEF Shuffle, Advance, Is
<1>2. /\ Good /\ status = "running" /\ thrown = None
      /\ LocalsOK(locals, h) /\ Fits(stack, kinds, h)
      /\ Len(kinds) = n /\ n \in Nat /\ Height(s) = n /\ s.kinds = kinds
  <2>1. Height(s) = Len(kinds) /\ s.kinds = kinds
    BY PopIs
  <2> HIDE DEF s
  <2> QED
    BY <2>1, AtIs
<1>3. \A m \in 1 .. n : HasKind(stack[m], kinds[m], h)
  BY <1>2 DEF Fits
<1>4. CASE Ins.op = "DUP"
  <2>1. n \in 1 .. n
    BY <1>2, <1>4, NeedsIs
  <2>2. HasKind(stack[n], kinds[n], h) /\ stack' = Append(stack, stack[n])
    BY <1>3, <1>4, <2>1 DEF Shuffle, Is, Top, Last
  <2>3. Fits(stack', kinds \o <<kinds[n]>>, h)
    BY <1>2, <2>2, FitsPush
  <2>4. In(<<pc + Ins.size, Push(s, <<kinds[n]>>)>>, P)
    BY <1>2, <1>4 DEF At, Ready, Flow, Binaries
  <2>5. In(<<pc', ShapeOf(kinds \o <<kinds[n]>>, blocks, returnValue)>>, P)
    BY <1>1, <2>4, PushIs
  <2> QED
    BY <1>1, <1>2, <2>3, <2>5, MovesOn
<1>5. CASE Ins.op = "DROP"
  <2>1. 1 \in 0 .. n
    BY <1>2, <1>5, NeedsIs
  <2>2. stack' = SubSeq(stack, 1, Len(stack) - 1)
    BY <1>5 DEF Shuffle, Is, Drop
  <2>3. Fits(stack', SubSeq(kinds, 1, Len(kinds) - 1), h)
    BY <1>2, <2>1, <2>2, DropIs
  <2>4. In(<<pc + Ins.size, Pop(s, 1)>>, P)
    BY <1>5 DEF At, Ready, Flow, Binaries
  <2>5. In(<<pc', ShapeOf(SubSeq(kinds, 1, Len(kinds) - 1), blocks, returnValue)>>, P)
    BY <1>1, <2>4, PopIs
  <2> QED
    BY <1>1, <1>2, <2>3, <2>5, MovesOn
<1>6. CASE Ins.op = "SWAP"
  <2>1. n \in 1 .. n /\ n - 1 \in 1 .. n /\ 2 \in 0 .. n
    BY <1>2, <1>6, NeedsIs
  <2>2. Fits(<<stack[n], stack[n - 1]>>, <<kinds[n], kinds[n - 1]>>, h)
    BY <1>3, <2>1, FitsTwo
  <2>3. stack' = Drop(2) \o <<stack[n], stack[n - 1]>>
    BY <1>6 DEF Shuffle, Is
  <2>4. In(<<pc', Push(Pop(s, 2), <<kinds[n], kinds[n - 1]>>)>>, P)
    BY <1>1, <1>2, <1>6 DEF At, Ready, Flow, Binaries
  <2> QED
    BY <1>1, <2>1, <2>2, <2>3, <2>4, Replaces
<1>7. CASE Ins.op = "ROTATE"
  <2>1. n \in 1 .. n /\ n - 1 \in 1 .. n /\ n - 2 \in 1 .. n /\ 3 \in 0 .. n
    BY <1>2, <1>7, NeedsIs
  <2>2. Fits(<<stack[n], stack[n - 2], stack[n - 1]>>, <<kinds[n], kinds[n - 2], kinds[n - 1]>>, h)
    BY <1>3, <2>1, FitsThree
  <2>3. stack' = Drop(3) \o <<stack[n], stack[n - 2], stack[n - 1]>>
    BY <1>7 DEF Shuffle, Is
  <2>4. In(<<pc', Push(Pop(s, 3), <<kinds[n], kinds[n - 2], kinds[n - 1]>>)>>, P)
    BY <1>1, <1>2, <1>7 DEF At, Ready, Flow, Binaries
  <2> QED
    BY <1>1, <2>1, <2>2, <2>3, <2>4, Replaces
<1> QED
  BY <1>1, <1>4, <1>5, <1>6, <1>7

LEMMA BoolDatum ==
  ASSUME NEW n \in Nat, NEW p
  PROVE  Datum(Bool(p), n)
<1>1. (IF p THEN 1 ELSE 0) \in Int
  OBVIOUS
<1> QED
  BY <1>1, NumberDatum DEF Bool

LEMMA UnaryOpKeeps ==
  ASSUME Inv, NEW kinds, At(kinds), UNCHANGED call, UnaryOp
  PROVE  Good'
<1> DEFINE s == ShapeOf(kinds, blocks, returnValue)
           P == Certificate[call]
           K == SubSeq(kinds, 1, Len(kinds) - 1)
           x == CASE Is({"POS"})      -> Top
                  [] Is({"NEG"})      -> Val(-Top.v)
                  [] Is({"BOOL_NOT"}) -> Bool(~IsTrue(Top))
<1>1. /\ UNCHANGED <<blocks, returnValue, locals, heap, thrown, status, trace>>
      /\ pc' = pc + Ins.size
      /\ Ins.op \in {"POS", "NEG", "BOOL_NOT"} /\ Ins.op \in Ordinary
      /\ stack' = Append(Drop(1), x)
  BY DEF UnaryOp, Advance, Is, Ordinary
<1>2. /\ Good /\ status = "running" /\ thrown = None
      /\ Len(heap) \in Nat /\ LocalsOK(locals, Len(heap))
  BY AtIs
<1>3. In(<<pc + Ins.size, Push(Pop(s, 1), Plain(1))>>, P)
  BY <1>1 DEF At, Ready, Flow, Binaries
<1>4. /\ Datum(Top, Len(heap)) /\ Fits(Drop(1), K, Len(heap))
      /\ Pop(s, 1) = ShapeOf(K, blocks, returnValue)
  BY <1>1, TopIs
<1>5. Datum(x, Len(heap))
  <2>1. -Top.v \in Int
    BY <1>2, <1>4, DatumIs
  <2>2. Datum(Val(-Top.v), Len(heap)) /\ Datum(Bool(~IsTrue(Top)), Len(heap))
    BY <1>2, <2>1, NumberDatum, BoolDatum
  <2> QED
    BY <1>1, <1>4, <2>2 DEF Is
<1> HIDE DEF s, K, x
<1>6. Fits(stack', K \o Plain(1), Len(heap))
  BY <1>1, <1>4, <1>5, PlainPush
<1>7. In(<<pc', ShapeOf(K \o Plain(1), blocks, returnValue)>>, P)
  BY <1>1, <1>3, <1>4, PushIs
<1> QED
  BY <1>1, <1>2, <1>6, <1>7, MovesOn

LEMMA BinaryKeeps ==
  ASSUME Inv, NEW kinds, At(kinds), UNCHANGED call, Binary
  PROVE  Good'
<1> DEFINE s == ShapeOf(kinds, blocks, returnValue)
           P == Certificate[call]
           K == SubSeq(kinds, 1, Len(kinds) - 2)
           n == Len(stack)
           h == Len(heap)
<1>1. /\ UNCHANGED <<blocks, returnValue, locals, heap, thrown, status, trace>>
      /\ pc' = pc + Ins.size
      /\ Ins.op \in Binaries
  BY DEF Binary, Advance, Is
<1>2. /\ Good /\ status = "running" /\ thrown = None
      /\ h \in Nat /\ LocalsOK(locals, h) /\ Fits(stack, kinds, h)
      /\ Len(kinds) = n /\ n \in Nat /\ Height(s) = n /\ s.kinds = kinds
  <2>1. Height(s) = Len(kinds) /\ s.kinds = kinds
    BY PopIs
  <2> HIDE DEF s
  <2> QED
    BY <2>1, AtIs
<1>3. In(<<pc + Ins.size, Push(Pop(s, 2), Plain(1))>>, P)
  BY <1>1 DEF At, Ready, Flow, Binaries
<1>4. 2 \in 0 .. n /\ \A m \in n - 2 + 1 .. n : kinds[m] = "plain"
  BY <1>1, <1>2 DEF At, Ready, Sound
<1>5. Datum(stack[n], h) /\ Datum(stack[n - 1], h)
  <2>1. n \in 1 .. n /\ n - 1 \in 1 .. n /\ n \in n - 2 + 1 .. n /\ n - 1 \in n - 2 + 1 .. n
    BY <1>2, <1>4
  <2> QED
    BY <1>2, <1>4, <2>1 DEF Fits, HasKind
<1>6. PICK x : stack' = Append(Drop(2), x) /\ Datum(x, h)
  <2> DEFINE a == stack[n - 1]
             b == stack[n]
  <2>1. a.v \in Int /\ b.v \in Int
    BY <1>2, <1>5, DatumIs
  <2>2. Top = b
    BY DEF Top, Last
  <2> HIDE DEF a, b
  <2>3. CASE Ins.op \in {"EQ", "NEQ", "LT", "GT", "LEQ", "IN", "BOOL_OR", "BOOL_AND"}
    <3>1. \E p : stack' = Append(Drop(2), Bool(p))
      BY <2>2, <2>3 DEF Binary, Is, a
    <3> QED
      BY <1>2, <3>1, BoolDatum
  <2>4. CASE Ins.op \in {"ADD", "INP_ADD"}
    <3>1. stack' = Append(Drop(2), Val(a.v + b.v)) /\ a.v + b.v \in Int
      BY <2>1, <2>2, <2>4 DEF Binary, Is, a
    <3> QED
      BY <1>2, <3>1, NumberDatum
  <2>5. CASE Ins.op \in {"SUB", "INP_SUB"}
    <3>1. stack' = Append(Drop(2), Val(a.v - b.v)) /\ a.v - b.v \in Int
      BY <2>1, <2>2, <2>5 DEF Binary, Is, a
    <3> QED
      BY <1>2, <3>1, NumberDatum
  <2>6. CASE Ins.op \in {"MUL", "INP_MUL"}
    <3>1. stack' = Append(Drop(2), Val(a.v * b.v)) /\ a.v * b.v \in Int
      BY <2>1, <2>2, <2>6 DEF Binary, Is, a
    <3> QED
      BY <1>2, <3>1, NumberDatum
  <2> QED
    BY <1>1, <2>3, <2>4, <2>5, <2>6 DEF Binaries
<1>7. Fits(Drop(2), K, h) /\ Pop(s, 2) = ShapeOf(K, blocks, returnValue)
  BY <1>2, <1>4, DropIs, PopIs DEF Drop
<1> HIDE DEF s, K
<1>8. Fits(stack', K \o Plain(1), h)
  BY <1>6, <1>7, PlainPush
<1>9. In(<<pc', ShapeOf(K \o Plain(1), blocks, returnValue)>>, P)
  BY <1>1, <1>3, <1>7, PushIs
<1> QED
  BY <1>1, <1>2, <1>8, <1>9, MovesOn

LEMMA BranchKeeps ==
  ASSUME Inv, NEW kinds, At(kinds), UNCHANGED call, Branch
  PROVE  Good'
<1> DEFINE s == ShapeOf(kinds, blocks, returnValue)
           P == Certificate[call]
<1>1. /\ UNCHANGED <<stack, blocks, returnValue, locals, heap, thrown, status, trace>>
      /\ pc' = pc + Ins.size + Ins.a - 5
      /\ Ins.op = "BR"
  BY DEF Branch, Goto, Target, Is
<1>2. /\ Good /\ status = "running" /\ thrown = None
      /\ LocalsOK(locals, Len(heap)) /\ Fits(stack, kinds, Len(heap))
  BY AtIs
<1>3. In(<<pc + Ins.size + Ins.a - 5, s>>, P)
  BY <1>1 DEF At, Ready, Flow, Binaries
<1>4. Fits(stack', kinds, Len(heap)) /\ In(<<pc', s>>, P)
  BY <1>1, <1>2, <1>3
<1> QED
  BY <1>1, <1>2, <1>4, MovesOn

LEMMA BranchIfKeeps ==
  ASSUME Inv, NEW kinds, At(kinds), UNCHANGED call, BranchIf
  PROVE  Good'
<1> DEFINE s == ShapeOf(kinds, blocks, returnValue)
           P == Certificate[call]
           K == SubSeq(kinds, 1, Len(kinds) - 1)
           there == pc + Ins.size + Ins.a - 5
<1>1. /\ UNCHANGED <<blocks, returnValue, locals, heap, thrown, status, trace>>
      /\ Ins.op \in {"BRP_TRUE", "BRP_FALSE", "BRCP_FALSE", "BRNP_TRUE", "BRNP_FALSE"}
      /\ Ins.op \in Ordinary
  BY DEF BranchIf, Is, Ordinary
<1>2. /\ Good /\ status = "running" /\ thrown = None
      /\ LocalsOK(locals, Len(heap)) /\ Fits(stack, kinds, Len(heap))
  BY AtIs
<1>3. Fits(Drop(1), K, Len(heap)) /\ Pop(s, 1) = ShapeOf(K, blocks, returnValue)
  BY <1>1, TopIs
<1>4. pc' = there \/ pc' = pc + Ins.size
  BY DEF BranchIf, Goto, Target, Advance
<1>5. /\ Ins.op \in {"BRP_TRUE", "BRP_FALSE"} => In(<<pc + Ins.size, Pop(s, 1)>>, P) /\ In(<<there, Pop(s, 1)>>, P)
      /\ Ins.op = "BRCP_FALSE" => In(<<pc + Ins.size, Pop(s, 1)>>, P) /\ In(<<there, s>>, P)
      /\ Ins.op \in {"BRNP_TRUE", "BRNP_FALSE"} => In(<<pc + Ins.size, s>>, P) /\ In(<<there, s>>, P)
  <2>1. CASE Ins.op \in {"BRP_TRUE", "BRP_FALSE"}
    BY <2>1 DEF At, Ready, Flow, Binaries
  <2>2. CASE Ins.op = "BRCP_FALSE"
    BY <2>2 DEF At, Ready, Flow, Binaries
  <2>3. CASE Ins.op \in {"BRNP_TRUE", "BRNP_FALSE"}
    BY <2>3 DEF At, Ready, Flow, Binaries
  <2> QED
    BY <1>1, <2>1, <2>2, <2>3
<1>6. \/ stack' = Drop(1) /\ In(<<pc', Pop(s, 1)>>, P)
      \/ stack' = stack /\ In(<<pc', s>>, P)
  <2>1. CASE Ins.op \in {"BRP_TRUE", "BRP_FALSE"}
    <3>1. stack' = Drop(1)
      BY <2>1 DEF BranchIf, Is
    <3> QED
      BY <1>4, <1>5, <2>1, <3>1
  <2>2. CASE Ins.op = "BRCP_FALSE"
    <3>1. (stack' = stack /\ pc' = there) \/ (stack' = Drop(1) /\ pc' = pc + Ins.size)
      BY <2>2 DEF BranchIf, Is, Goto, Target, Advance
    <3> QED
      BY <1>5, <2>2, <3>1
  <2>3. CASE Ins.op \in {"BRNP_TRUE", "BRNP_FALSE"}
    <3>1. stack' = stack
      BY <2>3 DEF BranchIf, Is
    <3> QED
      BY <1>4, <1>5, <2>3, <3>1
  <2> QED
    BY <1>1, <2>1, <2>2, <2>3
<1>7. CASE stack' = Drop(1) /\ In(<<pc', Pop(s, 1)>>, P)
  <2>1. Fits(stack', K, Len(heap)) /\ In(<<pc', ShapeOf(K, blocks, returnValue)>>, P)
    BY <1>3, <1>7
  <2> HIDE DEF K
  <2> QED
    BY <1>1, <1>2, <2>1, MovesOn
<1>8. CASE stack' = stack /\ In(<<pc', s>>, P)
  <2>1. Fits(stack', kinds, Len(heap)) /\ In(<<pc', ShapeOf(kinds, blocks, returnValue)>>, P)
    BY <1>2, <1>8
  <2> QED
    BY <1>1, <1>2, <2>1, MovesOn
<1> QED
  BY <1>6, <1>7, <1>8

LEMMA MakeIterKeeps ==
  ASSUME Inv, NEW kinds, At(kinds), UNCHANGED call, MakeIter
  PROVE  Good'
<1> DEFINE s == ShapeOf(kinds, blocks, returnValue)
           P == Certificate[call]
           K == SubSeq(kinds, 1, Len(kinds) - 1)
           x == Holding("iter", Items(Top))
<1>1. /\ UNCHANGED <<blocks, returnValue, locals, heap, thrown, status, trace>>
      /\ pc' = pc + Ins.size
      /\ Ins.op = "MAKE_ITER" /\ Ins.op \in Ordinary
      /\ stack' = Append(Drop(1), x)
  BY DEF MakeIter, Advance, Is, Ordinary
<1>2. /\ Good /\ status = "running" /\ thrown = None
      /\ Len(heap) \in Nat /\ LocalsOK(locals, Len(heap))
  BY AtIs
<1>3. In(<<pc + Ins.size, Push(Pop(s, 1), <<"iter">>)>>, P)
  BY <1>1 DEF At, Ready, Flow, Binaries
<1>4. /\ Datum(Top, Len(heap)) /\ Fits(Drop(1), K, Len(heap))
      /\ Pop(s, 1) = ShapeOf(K, blocks, returnValue)
  BY <1>1, TopIs
<1>5. HasKind(x, "iter", Len(heap))
  <2>1. Data(Items(Top), Len(heap))
    BY <1>2, <1>4, ItemsData
  <2>2. x.k = "iter" /\ x.items = Items(Top)
    BY DEF Holding, Null
  <2> HIDE DEF x
  <2> QED
    BY <2>1, <2>2 DEF HasKind
<1> HIDE DEF s, K, x
<1>6. Fits(stack', K \o <<"iter">>, Len(heap))
  BY <1>1, <1>4, <1>5, FitsPush
<1>7. In(<<pc', ShapeOf(K \o <<"iter">>, blocks, returnValue)>>, P)
  BY <1>1, <1>3, <1>4, PushIs
<1> QED
  BY <1>1, <1>2, <1>6, <1>7, MovesOn

LEMMA IterNextKeeps ==
  ASSUME Inv, NEW kinds, At(kinds), UNCHANGED call, IterNext
  PROVE  Good'
<1> DEFINE s == ShapeOf(kinds, blocks, returnValue)
           P == Certificate[call]
           n == Len(stack)
           h == Len(heap)
<1>1. /\ UNCHANGED <<blocks, returnValue, locals, heap, thrown, status, trace>>
      /\ Ins.op = "ITER_NEXT"
  BY DEF IterNext, Is
<1>2. /\ Good /\ status = "running" /\ thrown = None
      /\ h \in Nat /\ LocalsOK(locals, h) /\ Fits(stack, kinds, h)
      /\ Len(kinds) = n /\ n \in Nat /\ Height(s) = n /\ s.kinds = kinds
  <2>1. Height(s) = Len(kinds) /\ s.kinds = kinds
    BY PopIs
  <2> HIDE DEF s
  <2> QED
    BY <2>1, AtIs
<1>3. n \in 1 .. n /\ 1 \in 0 .. n
  BY <1>1, <1>2, NeedsIs
<1>4. Data(Top.items, h)
  <2>1. kinds[n] = "iter"
    BY <1>1, <1>2 DEF At, Ready, Sound
  <2> QED
    BY <1>2, <1>3, <2>1 DEF Fits, HasKind, Top, Last
<1>5. /\ In(<<pc + Ins.size, Push(Pop(s, 1), <<"iter", "plain">>)>>, P)
      /\ In(<<pc + Ins.size + Ins.a - 5, Pop(s, 1)>>, P)
  BY <1>1 DEF At, Ready, Flow, Binaries
<1>6. CASE Top.items # <<>>
  <2> DEFINE t == Top.items
             x == Holding("iter", Tail(t))
             y == Head(t)
  <2>1. stack' = Drop(1) \o <<x, y>> /\ pc' = pc + Ins.size
    BY <1>6 DEF IterNext, Advance
  <2>2. x.k = "iter" /\ x.items = Tail(t)
    BY DEF Holding, Null
  <2> HIDE DEF t
  <2>3. /\ IsList(t) /\ Len(t) \in Nat /\ t # <<>> /\ \A i \in 1 .. Len(t) : Datum(t[i], h)
    BY <1>4, <1>6, ListIs DEF Data, t
  <2>4. /\ IsList(Tail(t)) /\ Len(Tail(t)) = Len(t) - 1 /\ Len(t) >= 1
        /\ \A i \in 1 .. Len(t) - 1 : Tail(t)[i] = t[i + 1]
        /\ Head(t) = t[1]
    BY <2>3, TailList
  <2>5. Datum(y, h)
    BY <2>3, <2>4
  <2>6. Data(Tail(t), h)
    <3>1. \A i \in 1 .. Len(t) - 1 : i + 1 \in 1 .. Len(t)
      BY <2>3
    <3>2. \A i \in 1 .. Len(Tail(t)) : Datum(Tail(t)[i], h)
      BY <2>3, <2>4, <3>1
    <3> QED
      BY <2>4, <3>2 DEF Data
  <2> HIDE DEF x, y
  <2>7. HasKind(x, "iter", h) /\ HasKind(y, "plain", h)
    BY <2>2, <2>5, <2>6 DEF HasKind
  <2>8. Fits(<<x, y>>, <<"iter", "plain">>, h)
    BY <2>7, FitsTwo
  <2>9. In(<<pc', Push(Pop(s, 1), <<"iter", "plain">>)>>, P)
    BY <1>5, <2>1
  <2> QED
    BY <1>1, <1>3, <2>1, <2>8, <2>9, Replaces
<1>7. CASE Top.items = <<>>
  <2> DEFINE K == SubSeq(kinds, 1, Len(kinds) - 1)
  <2>1. stack' = SubSeq(stack, 1, Len(stack) - 1) /\ pc' = pc + Ins.size + Ins.a - 5
    BY <1>7 DEF IterNext, Goto, Target, Drop
  <2>2. Fits(stack', K, h)
    BY <1>2, <1>3, <2>1, DropIs
  <2>3. In(<<pc', ShapeOf(K, blocks, returnValue)>>, P)
    <3>1. Pop(s, 1) = ShapeOf(K, blocks, returnValue)
      BY PopIs
    <3> QED
      BY <1>5, <2>1, <3>1
  <2> QED
    BY <1>1, <1>2, <2>2, <2>3, MovesOn
<1> QED
  BY <1>6, <1>7

LEMMA RaiseKeeps ==
  ASSUME Inv, NEW kinds, At(kinds), UNCHANGED call, Raise
  PROVE  Good'
<1> DEFINE s == ShapeOf(kinds, blocks, returnValue)
           P == Certificate[call]
           K == SubSeq(kinds, 1, Len(kinds) - 1)
           n == Len(stack)
           h == Len(heap)
<1>1. /\ UNCHANGED <<blocks, returnValue, locals, status, trace>>
      /\ Ins.op = "RAISE" /\ stack' = SubSeq(stack, 1, Len(stack) - 1)
  BY DEF Raise, Is, Drop
<1>2. /\ Good /\ status = "running" /\ thrown = None /\ TraceOK(trace)
      /\ h \in Nat /\ LocalsOK(locals, h) /\ Fits(stack, kinds, h)
      /\ Len(kinds) = n /\ n \in Nat
  BY AtIs
<1>3. n \in 1 .. n /\ 1 \in 0 .. n
  BY <1>1, <1>2, NeedsIs
<1>4. Pop(s, 1) = ShapeOf(K, blocks, returnValue) /\ Fits(stack', K, h)
  BY <1>1, <1>2, <1>3, DropIs, PopIs
<1>5. Covered(Pop(s, 1)) /\ \A x \in Handled(Pop(s, 1)) : In(x, P)
  <2>1. Covered(Pop(s, 1))
    BY <1>1 DEF At, Ready, Sound
  <2>2. \A x \in Handled(Pop(s, 1)) : In(x, P)
    BY <1>1 DEF At, Ready, Flow, Binaries
  <2> QED
    BY <2>1, <2>2
<1> HIDE DEF s, K
<1>6. CASE Top.k = "exc"
  <2>1. thrown' = Top.v /\ UNCHANGED heap
    BY <1>6 DEF Raise
  <2>2. Top.v \in 1 .. h
    <3>1. HasKind(Top, kinds[n], h)
      BY <1>2, <1>3 DEF Fits, Top, Last
    <3>2. Datum(Top, h)
      BY <1>6, <3>1 DEF HasKind
    <3> QED
      BY <1>2, <1>6, <3>2, DatumIs
  <2>3. thrown' # None /\ thrown' \in 0 .. Len(heap')
    BY <1>2, <2>1, <2>2 DEF None
  <2>4. StateOK(heap', blocks', locals', returnValue', trace')
    BY <1>1, <1>2, <2>1 DEF Good
  <2>5. Place(Certificate[call'], pc', ShapeOf(K, blocks', returnValue'), thrown', status')
    BY <1>1, <1>4, <1>5, <2>3 DEF Place
  <2>6. Fits(stack', K, Len(heap')) /\ status' = "running"
    BY <1>1, <1>2, <1>4, <2>1
  <2> QED
    BY <2>3, <2>4, <2>5, <2>6 DEF Good
<1>7. CASE Top.k # "exc"
  <2>1. Throw("TypeError")
    BY <1>7 DEF Raise
  <2> QED
    BY <1>1, <1>2, <1>4, <1>5, <2>1, Throws
<1> QED
  BY <1>6, <1>7

-----------------------------------------------------------------------------
(* The instructions that change the blocks. *)

LEMMA TopBlock ==
  ASSUME NEW n, NEW B, BlocksOK(B, n), NEW s, s.blocks = View(B), s.blocks # <<>>
  PROVE  /\ B # <<>> /\ Len(B) \in 1 .. Len(B) /\ Len(B) \in Nat /\ BlockOK(Last(B), n)
         /\ Last(s.blocks).sp = Last(B).sp /\ Last(s.blocks).flags = Last(B).flags
         /\ Last(s.blocks).finally = Last(B).finally
<1>1. /\ IsList(View(B)) /\ Len(View(B)) = Len(B) /\ Len(B) \in Nat
      /\ \A m \in 1 .. Len(B) : /\ View(B)[m].sp = B[m].sp /\ View(B)[m].flags = B[m].flags
                                /\ View(B)[m].finally = B[m].finally
  BY ViewIs
<1>2. Len(B) # 0 /\ IsList(B)
  BY <1>1, ListIs DEF BlocksOK
<1>3. B # <<>> /\ Len(B) \in 1 .. Len(B)
  BY <1>1, <1>2, ListIs
<1>4. BlockOK(Last(B), n)
  BY <1>3 DEF BlocksOK, Last
<1>5. /\ Last(s.blocks).sp = Last(B).sp /\ Last(s.blocks).flags = Last(B).flags
      /\ Last(s.blocks).finally = Last(B).finally
  BY <1>1, <1>3 DEF Last
<1> QED
  BY <1>1, <1>3, <1>4, <1>5

LEMMA NoBlocks ==
  ASSUME NEW n, NEW B, BlocksOK(B, n)
  PROVE  (View(B) = <<>>) <=> (B = <<>>)
<1>1. IsList(View(B)) /\ Len(View(B)) = Len(B) /\ IsList(B)
  BY ViewIs DEF BlocksOK
<1> QED
  BY <1>1, ListIs

\* A flag of the block on top is set.
SetFlag(B, flag) == [B EXCEPT ![Len(B)].flags = @ \cup {flag}]

LEMMA FlagIs ==
  ASSUME NEW n, NEW B, BlocksOK(B, n), Len(B) \in 1 .. Len(B),
         NEW flag, flag \in {"CAUGHT", "FINALLY"}, NEW kinds, NEW r
  PROVE  /\ BlocksOK(SetFlag(B, flag), n)
         /\ InTop(ShapeOf(kinds, B, r), flag) = ShapeOf(kinds, SetFlag(B, flag), r)
<1> DEFINE j == Len(B)
           c == B[j]
           b == [c EXCEPT !.flags = @ \cup {flag}]
           F == c.flags \cup {flag}
<1>1. BlockOK(c, n)
  BY DEF BlocksOK
<1>2. c = [sp |-> c.sp, flags |-> c.flags, exception |-> c.exception,
           except |-> c.except, finally |-> c.finally]
  BY <1>1 DEF BlockOK
<1>3. SetFlag(B, flag) = [B EXCEPT ![j] = b]
  BY DEF SetFlag
<1> HIDE DEF c
<1>4. b = [sp |-> c.sp, flags |-> F, exception |-> c.exception,
           except |-> c.except, finally |-> c.finally]
  <2>1. b = [c EXCEPT !.flags = F]
    OBVIOUS
  <2> HIDE DEF b, F
  <2> QED
    BY <1>2, <2>1
<1> HIDE DEF b
<1>5. /\ b.sp = c.sp /\ b.flags = F /\ b.exception = c.exception
      /\ b.except = c.except /\ b.finally = c.finally
  BY <1>4
<1>6. BlockOK(b, n)
  <2>1. /\ F \subseteq {"FIRED", "CAUGHT", "FINALLY"} /\ ("FIRED" \in F => c.exception # None)
        /\ c.sp \in Nat /\ c.exception \in 0 .. n
    BY <1>1 DEF BlockOK
  <2> HIDE DEF F
  <2>2. b = [sp |-> b.sp, flags |-> b.flags, exception |-> b.exception,
             except |-> b.except, finally |-> b.finally]
    BY <1>4, <1>5
  <2> QED
    BY <1>5, <2>1, <2>2 DEF BlockOK
<1>7. Forget(b) = Flagged(Forget(c), flag)
  <2>1. Forget(c) = [sp |-> c.sp, flags |-> c.flags, exception |-> None,
                     except |-> c.except, finally |-> c.finally]
    BY <1>1, ForgetIs
  <2>2. Forget(b) = [sp |-> b.sp, flags |-> b.flags, exception |-> None,
                     except |-> b.except, finally |-> b.finally]
    BY <1>6, ForgetIs
  <2>3. Flagged(Forget(c), flag) = [sp |-> c.sp, flags |-> F, exception |-> None,
                                    except |-> c.except, finally |-> c.finally]
    <3> DEFINE d == Forget(c)
    <3>1. d.flags = c.flags
      BY <2>1
    <3>2. Flagged(d, flag) = [d EXCEPT !.flags = d.flags \cup {flag}]
      BY DEF Flagged
    <3>3. Flagged(d, flag) = [d EXCEPT !.flags = F]
      BY <3>1, <3>2
    <3> HIDE DEF F
    <3> QED
      BY <2>1, <3>3
  <2> QED
    BY <1>5, <2>2, <2>3
<1>8. /\ BlocksOK([B EXCEPT ![j] = b], n)
      /\ View([B EXCEPT ![j] = b]) = [View(B) EXCEPT ![j] = Forget(b)]
  <2>1. j \in 1 .. Len(B)
    OBVIOUS
  <2> HIDE DEF j
  <2> QED
    BY <1>6, <2>1, ViewChanged
<1>9. Len(View(B)) = j /\ View(B)[j] = Forget(c)
  BY ViewIs DEF c
<1> DEFINE s == ShapeOf(kinds, B, r)
           p == ~ IsNull(r)
           V == View(B)
<1>10. s.kinds = kinds /\ s.blocks = V /\ s.pending = p
  BY ShapeIs DEF ShapeOf
<1>11. ShapeOf(kinds, [B EXCEPT ![j] = b], r) = Shape(kinds, [V EXCEPT ![j] = Forget(b)], p)
  BY <1>8 DEF ShapeOf
<1> HIDE DEF s, p
<1>12. InTop(s, flag) = Shape(kinds, [V EXCEPT ![j] = Flagged(V[j], flag)], p)
  BY <1>9, <1>10 DEF InTop
<1>13. InTop(s, flag) = ShapeOf(kinds, [B EXCEPT ![j] = b], r)
  BY <1>7, <1>9, <1>11, <1>12
<1> QED
  BY <1>3, <1>8, <1>13 DEF s

\* A step that only moves on, with other blocks.
LEMMA Continues ==
  ASSUME Good, status = "running", thrown = None, UNCHANGED call,
         UNCHANGED <<heap, thrown, status, trace>>,
         BlocksOK(blocks', Len(heap)), LocalsOK(locals', Len(heap)), Variable(returnValue', Len(heap)),
         NEW kinds, Fits(stack', kinds, Len(heap)),
         In(<<pc', ShapeOf(kinds, blocks', returnValue')>>, Certificate[call])
  PROVE  Good'
<1>1. StateOK(heap', blocks', locals', returnValue', trace')
  BY DEF Good, StateOK
<1>2. Place(Certificate[call'], pc', ShapeOf(kinds, blocks', returnValue'), thrown', status')
  BY DEF Place
<1>3. Fits(stack', kinds, Len(heap')) /\ status' = "running" /\ thrown' \in 0 .. Len(heap')
  BY DEF Good
<1> QED
  BY <1>1, <1>2, <1>3 DEF Good

LEMMA ExcMatchKeeps ==
  ASSUME Inv, NEW kinds, At(kinds), UNCHANGED call, ExcMatch
  PROVE  Good'
<1> DEFINE s == ShapeOf(kinds, blocks, returnValue)
           P == Certificate[call]
           K == SubSeq(kinds, 1, Len(kinds) - 1)
           n == Len(stack)
           h == Len(heap)
           j == Len(blocks)
           B == SetFlag(blocks, "CAUGHT")
<1>1. /\ UNCHANGED <<returnValue, status, trace>>
      /\ Ins.op \in {"EXC_MATCH", "EXC_STORE"}
  BY DEF ExcMatch, Is
<1>2. /\ Good /\ status = "running" /\ thrown = None
      /\ h \in Nat /\ LocalsOK(locals, h) /\ Fits(stack, kinds, h)
      /\ Len(kinds) = n /\ n \in Nat /\ BlocksOK(blocks, h) /\ Variable(returnValue, h)
  BY AtIs
<1>3. 1 \in 0 .. n
  BY <1>1, <1>2, NeedsIs
<1>4. Pop(s, 1) = ShapeOf(K, blocks, returnValue) /\ Fits(Drop(1), K, h)
  BY <1>2, <1>3, DropIs, PopIs DEF Drop
<1>5. s.blocks = View(blocks)
  BY PopIs
<1>6. s.blocks # <<>> /\ (Ins.op = "EXC_STORE" => "FIRED" \in Last(s.blocks).flags)
  BY <1>1 DEF At, Ready, Sound
<1>7. /\ In(<<pc + Ins.size, InTop(Pop(s, 1), "CAUGHT")>>, P)
      /\ In(<<pc + 1 + Ins.a - 1, Pop(s, 1)>>, P)
  BY <1>1 DEF At, Ready, Flow, Binaries
<1> HIDE DEF s, K
<1>8. /\ blocks # <<>> /\ j \in 1 .. Len(blocks) /\ BlockOK(Block, h)
      /\ Last(s.blocks).flags = Block.flags
  BY <1>2, <1>5, <1>6, TopBlock DEF Block
<1>9. stack' = Drop(1) /\ UNCHANGED <<heap, thrown>>
  BY <1>8 DEF ExcMatch
<1>10. Fits(stack', K, h)
  BY <1>4, <1>9
<1>11. CASE ~ Matches(Block.exception, Top.v)
  <2>1. pc' = pc + 1 + Ins.a - 1 /\ UNCHANGED <<blocks, locals>>
    BY <1>8, <1>11 DEF ExcMatch, Goto, From
  <2>2. In(<<pc', ShapeOf(K, blocks', returnValue')>>, P)
    BY <1>1, <1>4, <1>7, <2>1
  <2>3. BlocksOK(blocks', h) /\ LocalsOK(locals', h) /\ Variable(returnValue', h)
    BY <1>1, <1>2, <2>1
  <2> QED
    BY <1>1, <1>2, <1>9, <1>10, <2>2, <2>3, Continues
<1>12. CASE Matches(Block.exception, Top.v)
  <2>1. /\ pc' = pc + Ins.size /\ blocks' = B
        /\ locals' = IF Is({"EXC_MATCH"}) THEN locals
                     ELSE [locals EXCEPT ![Ins.b] = Exc(Block.exception)]
    BY <1>8, <1>12 DEF ExcMatch, Advance, SetFlag
  <2>2. LocalsOK(locals', h)
    <3>1. CASE Ins.op = "EXC_MATCH"
      BY <1>2, <2>1, <3>1 DEF Is
    <3>2. CASE Ins.op # "EXC_MATCH"
      <4>1. Block.exception \in 1 .. h
        BY <1>1, <1>2, <1>6, <1>8, <3>2 DEF BlockOK, None
      <4>2. Datum(Exc(Block.exception), h)
        BY <1>2, <4>1, ExceptionDatum
      <4>3. locals' = [locals EXCEPT ![Ins.b] = Exc(Block.exception)]
        BY <2>1, <3>2 DEF Is
      <4> QED
        BY <1>2, <4>2, <4>3 DEF LocalsOK, Variable
    <3> QED
      BY <3>1, <3>2
  <2>3. /\ BlocksOK(B, h)
        /\ InTop(ShapeOf(K, blocks, returnValue), "CAUGHT") = ShapeOf(K, B, returnValue)
    BY <1>2, <1>8, FlagIs
  <2> HIDE DEF B
  <2>4. In(<<pc', ShapeOf(K, blocks', returnValue')>>, P)
    BY <1>1, <1>4, <1>7, <2>1, <2>3
  <2>5. BlocksOK(blocks', h) /\ Variable(returnValue', h)
    BY <1>1, <1>2, <2>1, <2>3
  <2> QED
    BY <1>1, <1>2, <1>9, <1>10, <2>2, <2>4, <2>5, Continues
<1> QED
  BY <1>11, <1>12

LEMMA SetupBlockKeeps ==
  ASSUME Inv, NEW kinds, At(kinds), UNCHANGED call, SetupBlock
  PROVE  Good'
<1> DEFINE s == ShapeOf(kinds, blocks, returnValue)
           P == Certificate[call]
           h == Len(heap)
           b == [sp |-> Len(stack), flags |-> {}, exception |-> None,
                 except |-> pc + 1 + Ins.a - 1, finally |-> pc + 1 + Ins.b - 1]
<1>1. /\ UNCHANGED <<stack, returnValue, locals, heap, thrown, status, trace>>
      /\ pc' = pc + Ins.size
      /\ Ins.op = "SETUP_BLOCK"
      /\ blocks' = Append(blocks, b)
  BY DEF SetupBlock, Is, Advance, From
<1>2. /\ Good /\ status = "running" /\ thrown = None
      /\ h \in Nat /\ LocalsOK(locals, h) /\ Fits(stack, kinds, h)
      /\ Len(kinds) = Len(stack) /\ Len(stack) \in Nat /\ BlocksOK(blocks, h) /\ Variable(returnValue, h)
  BY AtIs
<1>3. s.kinds = kinds /\ s.blocks = View(blocks) /\ s.pending = (~ IsNull(returnValue)) /\ Height(s) = Len(stack)
  <2>1. s.kinds = kinds /\ s.blocks = View(blocks) /\ s.pending = (~ IsNull(returnValue)) /\ Height(s) = Len(kinds)
    BY PopIs
  <2> HIDE DEF s
  <2> QED
    BY <1>2, <2>1
<1>4. In(<<pc + Ins.size, Shape(kinds, Append(s.blocks, b), s.pending)>>, P)
  BY <1>1, <1>3 DEF At, Ready, Flow, Binaries
<1>5. BlockOK(b, h) /\ b.exception = None
  BY <1>2 DEF BlockOK, None
<1> HIDE DEF b, s
<1>6. BlocksOK(Append(blocks, b), h) /\ View(Append(blocks, b)) = Append(View(blocks), b)
  BY <1>2, <1>5, ViewAppend
<1>7. In(<<pc', ShapeOf(kinds, blocks', returnValue')>>, P)
  <2>1. ShapeOf(kinds, blocks', returnValue') = Shape(kinds, View(blocks'), ~ IsNull(returnValue))
    BY <1>1 DEF ShapeOf
  <2> QED
    BY <1>1, <1>3, <1>4, <1>6, <2>1
<1>8. BlocksOK(blocks', h) /\ LocalsOK(locals', h) /\ Variable(returnValue', h) /\ Fits(stack', kinds, h)
  BY <1>1, <1>2, <1>6
<1> QED
  BY <1>1, <1>2, <1>7, <1>8, Continues

LEMMA EndExceptKeeps ==
  ASSUME Inv, NEW kinds, At(kinds), UNCHANGED call, EndExcept
  PROVE  Good'
<1> DEFINE s == ShapeOf(kinds, blocks, returnValue)
           P == Certificate[call]
           h == Len(heap)
           j == Len(blocks)
           B == SetFlag(blocks, "FINALLY")
<1>1. /\ UNCHANGED <<stack, returnValue, locals, status, trace>>
      /\ pc' = pc + Ins.size
      /\ Ins.op = "END_EXCEPT"
  BY DEF EndExcept, Is, Advance
<1>2. /\ Good /\ status = "running" /\ thrown = None
      /\ h \in Nat /\ LocalsOK(locals, h) /\ Fits(stack, kinds, h)
      /\ BlocksOK(blocks, h) /\ Variable(returnValue, h)
  BY AtIs
<1>3. s.blocks = View(blocks)
  BY PopIs
<1>4. s.blocks # <<>>
  BY <1>1 DEF At, Ready, Sound
<1>5. In(<<pc + Ins.size, InTop(s, "FINALLY")>>, P)
  BY <1>1 DEF At, Ready, Flow, Binaries
<1>6. blocks # <<>> /\ j \in 1 .. Len(blocks)
  <2> HIDE DEF s
  <2> QED
    BY <1>2, <1>3, <1>4, TopBlock
<1>7. blocks' = B /\ UNCHANGED <<heap, thrown>>
  BY <1>6 DEF EndExcept, SetFlag
<1>8. BlocksOK(B, h) /\ InTop(s, "FINALLY") = ShapeOf(kinds, B, returnValue)
  BY <1>2, <1>6, FlagIs
<1> HIDE DEF s, B
<1>9. In(<<pc', ShapeOf(kinds, blocks', returnValue')>>, P)
  BY <1>1, <1>5, <1>7, <1>8
<1>10. BlocksOK(blocks', h) /\ LocalsOK(locals', h) /\ Variable(returnValue', h) /\ Fits(stack', kinds, h)
  BY <1>1, <1>2, <1>7, <1>8
<1> QED
  BY <1>1, <1>2, <1>7, <1>9, <1>10, Continues

LEMMA FrontIs ==
  ASSUME NEW n, NEW B, BlocksOK(B, n), Len(B) \in 1 .. Len(B)
  PROVE  /\ BlocksOK(Front(B), n) /\ Len(Front(B)) = Len(B) - 1 /\ Len(B) \in Nat
         /\ Front(B) = SubSeq(B, 1, Len(B) - 1)
         /\ View(Front(B)) = Front(View(B))
         /\ \A i \in 1 .. Len(B) - 1 : Front(B)[i] = B[i]
<1> DEFINE m == Len(B)
<1>1. Len(View(B)) = m /\ m \in Nat /\ m - 1 \in 0 .. Len(B)
  BY ViewIs
<1>2. Front(B) = SubSeq(B, 1, m - 1) /\ Front(View(B)) = SubSeq(View(B), 1, m - 1)
  BY <1>1 DEF Front
<1>3. /\ BlocksOK(SubSeq(B, 1, m - 1), n) /\ Len(SubSeq(B, 1, m - 1)) = m - 1
      /\ View(SubSeq(B, 1, m - 1)) = SubSeq(View(B), 1, m - 1)
      /\ \A i \in 1 .. m - 1 : SubSeq(B, 1, m - 1)[i] = B[i]
  BY <1>1, ViewSub
<1> QED
  BY <1>1, <1>2, <1>3

LEMMA CoveredIs ==
  ASSUME NEW n, NEW B, BlocksOK(B, n), NEW kinds, NEW r
  PROVE  Covered(ShapeOf(kinds, B, r)) <=> \A m \in 1 .. Len(B) : B[m].sp <= Len(kinds)
<1> DEFINE s == ShapeOf(kinds, B, r)
<1>1. s.blocks = View(B) /\ Height(s) = Len(kinds)
  BY PopIs
<1>2. DOMAIN View(B) = 1 .. Len(B) /\ \A m \in 1 .. Len(B) : View(B)[m].sp = B[m].sp
  <2>1. IsList(View(B)) /\ Len(View(B)) = Len(B)
    BY ViewIs
  <2> QED
    BY <2>1, ListIs, ViewIs
<1> HIDE DEF s
<1>3. Covered(s) <=> \A m \in 1 .. Len(B) : B[m].sp <= Len(kinds)
  BY <1>1, <1>2 DEF Covered
<1> QED
  BY <1>3 DEF s

\* A return goes on in the blocks that are left.
LEMMA LeaveKeeps ==
  ASSUME Good, status = "running", thrown = None, UNCHANGED call,
         UNCHANGED <<heap, thrown, trace>>,
         BlocksOK(blocks', Len(heap)), Leave(blocks'),
         LocalsOK(locals', Len(heap)), Variable(returnValue', Len(heap)),
         NEW kinds, Fits(stack', kinds, Len(heap)),
         \A x \in Leaving(ShapeOf(kinds, blocks', returnValue')) : In(x, Certificate[call])
  PROVE  Good'
<1> DEFINE t == ShapeOf(kinds, blocks', returnValue')
<1>1. StateOK(heap', blocks', locals', returnValue', trace')
  BY DEF Good, StateOK
<1>2. t.blocks = View(blocks')
  BY ShapeIs DEF ShapeOf
<1>3. (t.blocks = <<>>) <=> (blocks' = <<>>)
  BY <1>2, NoBlocks
<1>4. status' \in {"running", "returned", "raised"}
  BY DEF Leave
<1>5. Place(Certificate[call'], pc', t, thrown', status')
  <2>1. CASE blocks' = <<>>
    BY <2>1 DEF Leave, Place
  <2>2. CASE blocks' # <<>>
    <3>1. pc' = Last(blocks').finally /\ t.blocks # <<>>
      BY <1>3, <2>2 DEF Leave, Goto
    <3> HIDE DEF t
    <3>2. Last(t.blocks).finally = Last(blocks').finally
      BY <1>2, <3>1, TopBlock
    <3>3. In(<<Last(t.blocks).finally, t>>, Certificate[call])
      BY <3>1 DEF Leaving, t
    <3> QED
      BY <3>1, <3>2, <3>3 DEF Place
  <2> QED
    BY <2>1, <2>2
<1>6. Fits(stack', kinds, Len(heap')) /\ thrown' \in 0 .. Len(heap')
  BY DEF Good
<1> QED
  BY <1>1, <1>4, <1>5, <1>6 DEF Good

LEMMA EndFinallyKeeps ==
  ASSUME Inv, NEW kinds, At(kinds), UNCHANGED call, EndFinally
  PROVE  Good'
<1> DEFINE s == ShapeOf(kinds, blocks, returnValue)
           P == Certificate[call]
           h == Len(heap)
           j == Len(blocks)
           A == Front(blocks)
           t == ShapeOf(kinds, A, returnValue)
           b == Last(s.blocks)
<1>1. /\ UNCHANGED <<stack, returnValue, locals, trace>>
      /\ Ins.op = "END_FINALLY"
  BY DEF EndFinally, Is
<1>2. /\ Good /\ status = "running" /\ thrown = None
      /\ h \in Nat /\ LocalsOK(locals, h) /\ Fits(stack, kinds, h)
      /\ Len(kinds) = Len(stack) /\ Len(stack) \in Nat
      /\ BlocksOK(blocks, h) /\ Variable(returnValue, h)
      /\ Covered(s)
  BY AtIs
<1>3. /\ s.kinds = kinds /\ s.blocks = View(blocks) /\ s.pending = (~ IsNull(returnValue))
      /\ Height(s) = Len(kinds)
  BY PopIs
<1>4. s.blocks # <<>> /\ Height(s) = b.sp
  BY <1>1 DEF At, Ready, Sound
<1>5. \A x \in Ending(s, pc + Ins.size) : In(x, P)
  BY <1>1 DEF At, Ready, Flow, Binaries
<1>6. /\ blocks # <<>> /\ j \in 1 .. Len(blocks) /\ BlockOK(Block, h)
      /\ b.flags = Block.flags /\ b.sp = Block.sp
  <2> HIDE DEF s
  <2> QED
    BY <1>2, <1>3, <1>4, TopBlock DEF Block
<1>7. /\ BlocksOK(A, h) /\ Len(A) = j - 1 /\ View(A) = Front(View(blocks)) /\ j \in Nat
      /\ \A i \in 1 .. j - 1 : A[i] = blocks[i]
  <2>1. BlocksOK(blocks, h) /\ j \in 1 .. j
    BY <1>2, <1>6
  <2>2. /\ BlocksOK(Front(blocks), h) /\ Len(Front(blocks)) = j - 1 /\ j \in Nat
        /\ View(Front(blocks)) = Front(View(blocks))
        /\ \A i \in 1 .. j - 1 : Front(blocks)[i] = blocks[i]
    <3> HIDE DEF s
    <3> QED
      BY <2>1, FrontIs
  <2> QED
    BY <2>2
<1>8. t = Shape(s.kinds, Front(s.blocks), s.pending)
  <2> HIDE DEF s, A
  <2> QED
    BY <1>3, <1>7 DEF ShapeOf
<1>9. Covered(t)
  <2>1. \A m \in 1 .. Len(blocks) : blocks[m].sp <= Len(kinds)
    BY <1>2, CoveredIs
  <2>2. \A m \in 1 .. Len(A) : m \in 1 .. Len(blocks) /\ m \in 1 .. j - 1
    BY <1>7
  <2>3. \A m \in 1 .. Len(A) : A[m].sp <= Len(kinds)
    BY <1>7, <2>1, <2>2
  <2> HIDE DEF A
  <2> QED
    BY <1>7, <2>3, CoveredIs
<1>10. Len(stack) = Block.sp /\ blocks' = A
  BY <1>2, <1>3, <1>4, <1>6 DEF EndFinally
<1> DEFINE p == s.pending
<1>11. Ending(s, pc + Ins.size) =
         IF "FIRED" \in Block.flags /\ "CAUGHT" \notin Block.flags THEN Handled(t)
         ELSE IF p THEN Leaving(t) ELSE {<<pc + Ins.size, t>>}
  <2> HIDE DEF s, t
  <2> QED
    BY <1>6, <1>8 DEF Ending
<1> HIDE DEF s, A, b
<1>12. BlocksOK(blocks', h) /\ LocalsOK(locals', h) /\ Variable(returnValue', h) /\ Fits(stack', kinds, h)
  BY <1>1, <1>2, <1>7, <1>10
<1>13. ShapeOf(kinds, blocks', returnValue') = t
  BY <1>1, <1>10
<1> HIDE DEF t
<1>14. CASE "FIRED" \in Block.flags /\ "CAUGHT" \notin Block.flags
  <2>1. thrown' = Block.exception /\ UNCHANGED <<heap, status>>
    BY <1>6, <1>10, <1>14 DEF EndFinally
  <2>2. thrown' # None /\ thrown' \in 0 .. Len(heap')
    BY <1>6, <1>14, <2>1 DEF BlockOK
  <2>3. StateOK(heap', blocks', locals', returnValue', trace')
    BY <1>1, <1>2, <1>12, <2>1 DEF Good, StateOK
  <2>4. \A x \in Handled(t) : In(x, P)
    BY <1>5, <1>11, <1>14
  <2>5. Place(Certificate[call'], pc', ShapeOf(kinds, blocks', returnValue'), thrown', status')
    BY <1>9, <1>13, <2>2, <2>4 DEF Place
  <2>6. Fits(stack', kinds, Len(heap')) /\ status' = "running"
    BY <1>2, <1>12, <2>1
  <2> QED
    BY <2>2, <2>3, <2>5, <2>6 DEF Good
<1>15. CASE ~ ("FIRED" \in Block.flags /\ "CAUGHT" \notin Block.flags) /\ ~ IsNull(returnValue)
  <2>1. Leave(Front(blocks)) /\ UNCHANGED <<heap, thrown>>
    BY <1>6, <1>10, <1>15 DEF EndFinally
  <2>2. p = TRUE
    BY <1>3, <1>15
  <2>3. \A x \in Leaving(t) : In(x, P)
    BY <1>5, <1>11, <1>15, <2>2
  <2>4. Leave(blocks')
    BY <1>10, <2>1 DEF A
  <2>5. \A x \in Leaving(ShapeOf(kinds, blocks', returnValue')) : In(x, Certificate[call])
    BY <1>13, <2>3
  <2> QED
    BY <1>1, <1>2, <1>12, <2>1, <2>4, <2>5, LeaveKeeps
<1>16. CASE ~ ("FIRED" \in Block.flags /\ "CAUGHT" \notin Block.flags) /\ IsNull(returnValue)
  <2>1. pc' = pc + Ins.size /\ UNCHANGED <<status, heap, thrown>>
    BY <1>6, <1>10, <1>16 DEF EndFinally, Advance
  <2>2. p = FALSE
    BY <1>3, <1>16
  <2>3. In(<<pc', ShapeOf(kinds, blocks', returnValue')>>, P)
    BY <1>5, <1>11, <1>13, <1>16, <2>1, <2>2
  <2> QED
    BY <1>1, <1>2, <1>12, <2>1, <2>3, Continues
<1> QED
  BY <1>14, <1>15, <1>16

LEMMA RemainingIs ==
  ASSUME NEW n, BlocksOK(blocks, n), NEW s, s.blocks = View(blocks)
  PROVE  BlocksOK(Remaining, n) /\ View(Remaining) = Kept(s)
<1> DEFINE I == {i \in 1 .. Len(blocks) : "FINALLY" \notin blocks[i].flags}
           j == SelectLastInSeq(blocks, LAMBDA b : "FINALLY" \notin b.flags)
           k == SelectLastInSeq(s.blocks, LAMBDA b : "FINALLY" \notin b.flags)
<1>1. /\ Len(View(blocks)) = Len(blocks) /\ Len(blocks) \in Nat
      /\ \A i \in 1 .. Len(blocks) : View(blocks)[i].flags = blocks[i].flags
  BY ViewIs
<1>2. I = {i \in 1 .. Len(s.blocks) : "FINALLY" \notin s.blocks[i].flags}
  BY <1>1
<1>3. j = IF I # {} THEN Max(I) ELSE 0
  BY Zenon DEF SelectLastInSeq
<1>4. k = IF I # {} THEN Max(I) ELSE 0
  BY <1>2, Zenon DEF SelectLastInSeq
<1>5. Remaining = SubSeq(blocks, 1, j) /\ Kept(s) = SubSeq(s.blocks, 1, k)
  BY DEF Remaining, Kept
<1>6. I \in SUBSET (1 .. Len(blocks))
  OBVIOUS
<1> HIDE DEF I, j, k
<1>7. j = k /\ j \in 0 .. Len(blocks)
  BY <1>1, <1>3, <1>4, <1>6, LastIs
<1>8. BlocksOK(SubSeq(blocks, 1, j), n) /\ View(SubSeq(blocks, 1, j)) = SubSeq(View(blocks), 1, j)
  BY <1>7, ViewSub
<1> QED
  BY <1>5, <1>7, <1>8

LEMMA PopReturnKeeps ==
  ASSUME Inv, NEW kinds, At(kinds), UNCHANGED call, PopReturn
  PROVE  Good'
<1> DEFINE s == ShapeOf(kinds, blocks, returnValue)
           P == Certificate[call]
           h == Len(heap)
<1>1. /\ UNCHANGED <<locals, trace>> /\ stack' = Drop(1) /\ returnValue' = Top
      /\ Ins.op = "POP_RETURN" /\ Ins.op \in Ordinary
  BY DEF PopReturn, Is, Ordinary
<1>2. /\ Good /\ status = "running" /\ thrown = None
      /\ h \in Nat /\ LocalsOK(locals, h) /\ Fits(stack, kinds, h)
      /\ Len(kinds) = Len(stack) /\ Len(stack) \in Nat
      /\ BlocksOK(blocks, h)
  BY AtIs
<1>3. s.blocks = View(blocks) /\ Height(s) = Len(kinds)
  BY PopIs
<1>4. Height(s) = 1
  BY <1>1 DEF At, Ready, Sound
<1>5. \A x \in Leaving(Shape(<<>>, Kept(s), TRUE)) : In(x, P)
  BY <1>1 DEF At, Ready, Flow, Binaries
<1>6. Datum(Top, h) /\ Fits(Drop(1), SubSeq(kinds, 1, Len(kinds) - 1), h)
  BY <1>1, TopIs
<1>7. BlocksOK(Remaining, h) /\ View(Remaining) = Kept(s)
  <2> HIDE DEF s
  <2> QED
    BY <1>2, <1>3, RemainingIs
<1> HIDE DEF s
<1>8. Drop(1) = <<>> /\ SubSeq(kinds, 1, Len(kinds) - 1) = <<>>
  <2>1. Len(stack) = 1 /\ Len(kinds) = 1 /\ IsList(stack) /\ IsList(kinds)
    BY <1>2, <1>3, <1>4 DEF Fits
  <2>2. Fits(SubSeq(stack, 1, 0), SubSeq(kinds, 1, 0), h) /\ Len(SubSeq(kinds, 1, 0)) = 0
    BY <1>2, <2>1, FitsSub
  <2>3. /\ IsList(SubSeq(stack, 1, 0)) /\ Len(SubSeq(stack, 1, 0)) = 0
        /\ IsList(SubSeq(kinds, 1, 0)) /\ Len(SubSeq(kinds, 1, 0)) = 0
    BY <2>2 DEF Fits
  <2>4. SubSeq(stack, 1, 0) = <<>> /\ SubSeq(kinds, 1, 0) = <<>>
    BY <2>3, ListIs
  <2> QED
    BY <2>1, <2>4 DEF Drop
<1>9. blocks' = Remaining /\ Leave(Remaining) /\ UNCHANGED <<heap, thrown>>
  BY <1>8 DEF PopReturn
<1>10. Fits(stack', <<>>, h) /\ Variable(returnValue', h) /\ LocalsOK(locals', h)
  BY <1>1, <1>2, <1>6, <1>8 DEF Variable
<1>11. ShapeOf(<<>>, blocks', returnValue') = Shape(<<>>, Kept(s), TRUE)
  <2>1. (~ IsNull(Top)) = TRUE
    BY <1>2, <1>6, DatumIs DEF IsNull
  <2> QED
    BY <1>1, <1>7, <1>9, <2>1 DEF ShapeOf
<1>12. \A x \in Leaving(ShapeOf(<<>>, blocks', returnValue')) : In(x, Certificate[call])
  BY <1>5, <1>11
<1>13. BlocksOK(blocks', h) /\ Leave(blocks')
  BY <1>7, <1>9
<1> QED
  BY <1>1, <1>2, <1>9, <1>10, <1>12, <1>13, LeaveKeeps

-----------------------------------------------------------------------------
(* The recovery from an exception. *)

Thrown(kinds) ==
  LET s == ShapeOf(kinds, blocks, returnValue)
  IN  /\ Fits(stack, kinds, Len(heap)) /\ Covered(s)
      /\ \A x \in Handled(s) : In(x, Certificate[call])

LEMMA ThrownIs ==
  ASSUME Inv, NEW kinds, Thrown(kinds)
  PROVE  /\ HeapOK(heap) /\ Len(heap) \in Nat /\ LocalsOK(locals, Len(heap))
         /\ BlocksOK(blocks, Len(heap)) /\ Variable(returnValue, Len(heap)) /\ TraceOK(trace)
         /\ Fits(stack, kinds, Len(heap)) /\ Len(kinds) = Len(stack) /\ Len(stack) \in Nat
         /\ thrown \in 0 .. Len(heap)
         /\ \A m \in 1 .. Len(blocks) : blocks[m].sp <= Len(kinds) /\ blocks[m].sp \in 0 .. Len(stack)
         /\ blocks # <<>> => Len(blocks) \in 1 .. Len(blocks) /\ BlockOK(Block, Len(heap))
<1>1. /\ HeapOK(heap) /\ LocalsOK(locals, Len(heap)) /\ thrown \in 0 .. Len(heap)
      /\ BlocksOK(blocks, Len(heap)) /\ Variable(returnValue, Len(heap)) /\ TraceOK(trace)
  BY DEF Inv, Good, StateOK
<1>2. Len(heap) \in Nat
  BY <1>1, ListIs DEF HeapOK
<1>3. Fits(stack, kinds, Len(heap)) /\ Len(kinds) = Len(stack) /\ Len(stack) \in Nat
  BY ListIs DEF Thrown, Fits
<1>4. \A m \in 1 .. Len(blocks) : blocks[m].sp <= Len(kinds)
  <2>1. Covered(ShapeOf(kinds, blocks, returnValue))
    BY DEF Thrown
  <2> QED
    BY <1>1, <2>1, CoveredIs
<1>5. \A m \in 1 .. Len(blocks) : blocks[m].sp \in 0 .. Len(stack)
  <2>1. \A m \in 1 .. Len(blocks) : blocks[m].sp \in Nat
    BY <1>1 DEF BlocksOK, BlockOK
  <2> QED
    BY <1>3, <1>4, <2>1
<1>6. ASSUME blocks # <<>>
      PROVE  Len(blocks) \in 1 .. Len(blocks) /\ BlockOK(Block, Len(heap))
  <2>1. IsList(blocks)
    BY <1>1 DEF BlocksOK
  <2>2. Len(blocks) \in Nat /\ Len(blocks) # 0
    BY <1>6, <2>1, ListIs
  <2>3. Len(blocks) \in 1 .. Len(blocks)
    BY <2>2
  <2> QED
    BY <1>1, <2>3 DEF BlocksOK, Block, Last
<1> QED
  BY <1>1, <1>2, <1>3, <1>4, <1>5, <1>6

\* The heap when a cause is noted.
LEMMA ChainedIs ==
  ASSUME HeapOK(heap), BlockOK(Block, Len(heap)), Chained
  PROVE  HeapOK(heap') /\ Len(heap') = Len(heap)
<1>1. PICK y \in LastOf(thrown) : heap' = [heap EXCEPT ![y].parent = Block.exception]
  BY DEF Chained
<1>2. Block.exception \in 0 .. Len(heap)
  BY DEF BlockOK
<1> QED
  BY <1>1, <1>2, HeapParent

\* The block on top takes an exception.
Taking(B, F, x) == [B EXCEPT ![Len(B)].flags = F, ![Len(B)].exception = x]

LEMMA TakingIs ==
  ASSUME NEW n, NEW B, BlocksOK(B, n), Len(B) \in 1 .. Len(B), NEW x, x \in 0 .. n, x # None,
         NEW F, F = IF "FIRED" \in Last(B).flags THEN Last(B).flags \ {"CAUGHT"}
                                                 ELSE Last(B).flags \cup {"FIRED"}
  PROVE  \E b : /\ BlockOK(b, n) /\ Forget(b) = Fired(Forget(Last(B)))
                /\ Taking(B, F, x) = [B EXCEPT ![Len(B)] = b]
<1> DEFINE j == Len(B)
           c == B[j]
           d == [c EXCEPT !.flags = F]
           b == [d EXCEPT !.exception = x]
           D == [B EXCEPT ![j] = d]
<1>1. IsList(B) /\ BlockOK(c, n) /\ Last(B) = c
  BY DEF BlocksOK, Last
<1>2. Taking(B, F, x) = [D EXCEPT ![j] = [D[j] EXCEPT !.exception = x]]
  BY DEF Taking
<1>3. j \in 1 .. Len(B)
  OBVIOUS
<1> HIDE DEF c
<1>4. c = [sp |-> c.sp, flags |-> c.flags, exception |-> c.exception,
           except |-> c.except, finally |-> c.finally]
  BY <1>1 DEF BlockOK
<1>5. d = [sp |-> c.sp, flags |-> F, exception |-> c.exception,
           except |-> c.except, finally |-> c.finally]
  <2>1. d = [c EXCEPT !.flags = F]
    OBVIOUS
  <2> HIDE DEF d
  <2> QED
    BY <1>4, <2>1
<1> HIDE DEF d
<1>6. b = [sp |-> c.sp, flags |-> F, exception |-> x,
           except |-> c.except, finally |-> c.finally]
  <2>1. b = [d EXCEPT !.exception = x]
    OBVIOUS
  <2> HIDE DEF b
  <2> QED
    BY <1>5, <2>1
<1> HIDE DEF b
<1>7. /\ IsList(D) /\ Len(D) = Len(B) /\ \A i \in 1 .. Len(B) : D[i] = IF i = j THEN d ELSE B[i]
  <2> HIDE DEF j
  <2> QED
    BY <1>1, <1>3, ExceptList
<1>8. D[j] = d
  BY <1>3, <1>7
<1> DEFINE E == [B EXCEPT ![j] = b]
           G == [D EXCEPT ![j] = b]
<1>9. Taking(B, F, x) = G
  BY <1>2, <1>8 DEF b
<1>10. /\ IsList(E) /\ Len(E) = Len(B) /\ \A i \in 1 .. Len(B) : E[i] = IF i = j THEN b ELSE B[i]
  <2> HIDE DEF j
  <2> QED
    BY <1>1, <1>3, ExceptList
<1> HIDE DEF D
<1>11. /\ IsList(G) /\ Len(G) = Len(B) /\ \A i \in 1 .. Len(B) : G[i] = IF i = j THEN b ELSE D[i]
  <2>1. j \in 1 .. Len(D)
    BY <1>3, <1>7
  <2> HIDE DEF j
  <2>2. /\ IsList(G) /\ Len(G) = Len(D) /\ \A i \in 1 .. Len(D) : G[i] = IF i = j THEN b ELSE D[i]
    BY <1>7, <2>1, ExceptList
  <2> QED
    BY <1>7, <2>2
<1> HIDE DEF E, G
<1>12. E = G
  <2>1. \A i \in 1 .. Len(E) : E[i] = G[i]
    BY <1>7, <1>10, <1>11
  <2> QED
    BY <1>10, <1>11, <2>1, ListEqual
<1>13. F \subseteq {"FIRED", "CAUGHT", "FINALLY"} /\ c.sp \in Nat
  BY <1>1 DEF BlockOK
<1>14. /\ b.sp = c.sp /\ b.flags = F /\ b.exception = x /\ b.except = c.except /\ b.finally = c.finally
  BY <1>6
<1>15. BlockOK(b, n)
  <2>1. b = [sp |-> b.sp, flags |-> b.flags, exception |-> b.exception,
             except |-> b.except, finally |-> b.finally]
    BY <1>6, <1>14
  <2> QED
    BY <1>13, <1>14, <2>1 DEF BlockOK
<1>16. Forget(b) = Fired(Forget(c))
  <2> DEFINE e == Forget(c)
  <2>1. e = [sp |-> c.sp, flags |-> c.flags, exception |-> None,
             except |-> c.except, finally |-> c.finally]
    BY <1>1, ForgetIs
  <2>2. Forget(b) = [sp |-> b.sp, flags |-> b.flags, exception |-> None,
                     except |-> b.except, finally |-> b.finally]
    BY <1>15, ForgetIs
  <2> HIDE DEF e
  <2>3. e.flags = c.flags
    BY <2>1
  <2>4. Fired(e) = [e EXCEPT !.flags = F]
    BY <1>1, <2>3 DEF Fired
  <2>5. Fired(e) = [sp |-> c.sp, flags |-> F, exception |-> None,
                    except |-> c.except, finally |-> c.finally]
    BY <2>1, <2>4
  <2>6. Forget(b) = Fired(e)
    BY <1>14, <2>2, <2>5
  <2> QED
    BY <2>6 DEF e
<1> QED
  BY <1>1, <1>9, <1>12, <1>15, <1>16 DEF E

\* The exception is handled by the block on top.
LEMMA Takes ==
  ASSUME Inv, NEW kinds, Thrown(kinds), status = "running", thrown # None, UNCHANGED call,
         blocks # <<>>, ~ Spent(Block), Chained, Unwind,
         NEW F, F = IF "FIRED" \in Block.flags THEN Block.flags \ {"CAUGHT"} ELSE Block.flags \cup {"FIRED"},
         blocks' = Taking(blocks, F, thrown),
         pc' = Handler(Block), thrown' = None, UNCHANGED <<status, returnValue, locals, trace>>
  PROVE  Good'
<1> DEFINE h == Len(heap)
           j == Len(blocks)
           K == SubSeq(kinds, 1, Block.sp)
           s == ShapeOf(kinds, blocks, returnValue)
           P == Certificate[call]
<1>1. /\ HeapOK(heap) /\ h \in Nat /\ LocalsOK(locals, h)
      /\ BlocksOK(blocks, h) /\ Variable(returnValue, h) /\ TraceOK(trace)
      /\ Fits(stack, kinds, h) /\ thrown \in 0 .. h
      /\ j \in 1 .. Len(blocks) /\ BlockOK(Block, h)
      /\ Block.sp \in 0 .. Len(stack)
  <2>1. Len(blocks) \in 1 .. Len(blocks)
    BY ThrownIs
  <2>2. Block.sp \in 0 .. Len(stack)
    BY <2>1, ThrownIs DEF Block, Last
  <2> QED
    BY <2>1, <2>2, ThrownIs
<1>2. HeapOK(heap') /\ Len(heap') = h
  BY <1>1, ChainedIs
<1>3. PICK b : /\ BlockOK(b, h) /\ Forget(b) = Fired(Forget(Block)) /\ blocks' = [blocks EXCEPT ![j] = b]
  BY <1>1, TakingIs DEF Block
<1>4. Block = blocks[j] /\ j = Len(blocks)
  BY DEF Block, Last
<1>5. Fits(stack', K, h)
  BY <1>1, FitsSub DEF Unwind
<1> HIDE DEF j
<1>6. BlocksOK(blocks', h)
  <2>1. BlocksOK(blocks, h) /\ j \in 1 .. Len(blocks) /\ BlockOK(b, h)
    BY <1>1, <1>3
  <2>2. BlocksOK([blocks EXCEPT ![j] = b], h)
    BY <2>1, ViewChanged
  <2> QED
    BY <1>3, <2>2
<1>7. Handled(s) = {<<Handler(Block), ShapeOf(K, [blocks EXCEPT ![j] = b], returnValue)>>}
  <2>1. /\ BlocksOK(blocks, h) /\ j \in 1 .. Len(blocks) /\ BlockOK(b, h)
        /\ Len(blocks) <= j /\ ~ Spent(blocks[j]) /\ Forget(b) = Fired(Forget(blocks[j]))
    BY <1>1, <1>3, <1>4
  <2>2. Handled(s) = {<<Handler(blocks[j]),
                       ShapeOf(SubSeq(kinds, 1, blocks[j].sp), [blocks EXCEPT ![j] = b], returnValue)>>}
    BY <2>1, HandledHere
  <2> HIDE DEF s
  <2> QED
    BY <1>4, <2>2
<1>8. \A x \in Handled(s) : In(x, P)
  BY DEF Thrown
<1> HIDE DEF s, K
<1>9. In(<<pc', ShapeOf(K, blocks', returnValue')>>, P)
  BY <1>3, <1>7, <1>8
<1>10. StateOK(heap', blocks', locals', returnValue', trace')
  BY <1>1, <1>2, <1>6 DEF StateOK
<1>11. Place(Certificate[call'], pc', ShapeOf(K, blocks', returnValue'), thrown', status')
  BY <1>9 DEF Place
<1>12. Fits(stack', K, Len(heap')) /\ thrown' \in 0 .. Len(heap') /\ status' = "running"
  BY <1>1, <1>2, <1>5 DEF None
<1> QED
  BY <1>10, <1>11, <1>12 DEF Good

LEMMA FirstTimeKeeps ==
  ASSUME Inv, NEW kinds, Thrown(kinds), FirstTime
  PROVE  Good'
<1> DEFINE F == IF "FIRED" \in Block.flags THEN Block.flags \ {"CAUGHT"} ELSE Block.flags \cup {"FIRED"}
<1>1. /\ status = "running" /\ thrown # None /\ blocks # <<>> /\ "FIRED" \notin Block.flags
      /\ UNCHANGED <<call, returnValue, locals, trace, status>>
      /\ Chained /\ Unwind /\ pc' = Block.except /\ thrown' = None
      /\ blocks' = [blocks EXCEPT ![Len(blocks)].flags = @ \cup {"FIRED"}, ![Len(blocks)].exception = thrown]
  BY DEF FirstTime, RecoverGuard, Recovering, Goto
<1>2. F = Block.flags \cup {"FIRED"} /\ Block = blocks[Len(blocks)]
  BY <1>1 DEF Block, Last
<1>3. blocks' = Taking(blocks, F, thrown)
  BY <1>1, <1>2 DEF Taking
<1>4. ~ Spent(Block) /\ pc' = Handler(Block)
  BY <1>1 DEF Spent, Handler
<1> HIDE DEF F
<1>5. F = IF "FIRED" \in Block.flags THEN Block.flags \ {"CAUGHT"} ELSE Block.flags \cup {"FIRED"}
  BY DEF F
<1> QED
  BY <1>1, <1>3, <1>4, <1>5, Takes

LEMMA InExceptKeeps ==
  ASSUME Inv, NEW kinds, Thrown(kinds), InExcept
  PROVE  Good'
<1> DEFINE F == IF "FIRED" \in Block.flags THEN Block.flags \ {"CAUGHT"} ELSE Block.flags \cup {"FIRED"}
<1>1. /\ status = "running" /\ thrown # None /\ blocks # <<>>
      /\ "FIRED" \in Block.flags /\ "FINALLY" \notin Block.flags
      /\ UNCHANGED <<call, returnValue, locals, trace, status>>
      /\ Chained /\ Unwind /\ pc' = Block.finally /\ thrown' = None
      /\ blocks' = [blocks EXCEPT ![Len(blocks)].flags = @ \ {"CAUGHT"}, ![Len(blocks)].exception = thrown]
  BY DEF InExcept, RecoverGuard, Recovering, Goto
<1>2. F = Block.flags \ {"CAUGHT"} /\ Block = blocks[Len(blocks)]
  BY <1>1 DEF Block, Last
<1>3. blocks' = Taking(blocks, F, thrown)
  BY <1>1, <1>2 DEF Taking
<1>4. ~ Spent(Block) /\ pc' = Handler(Block)
  BY <1>1 DEF Spent, Handler
<1> HIDE DEF F
<1>5. F = IF "FIRED" \in Block.flags THEN Block.flags \ {"CAUGHT"} ELSE Block.flags \cup {"FIRED"}
  BY DEF F
<1> QED
  BY <1>1, <1>3, <1>4, <1>5, Takes

LEMMA InFinallySectionKeeps ==
  ASSUME Inv, NEW kinds, Thrown(kinds), InFinallySection
  PROVE  Good'
<1> DEFINE h == Len(heap)
           P == Certificate[call]
           s == ShapeOf(kinds, blocks, returnValue)
           t == ShapeOf(kinds, Front(blocks), returnValue)
<1>1. /\ status = "running" /\ thrown # None /\ blocks # <<>> /\ Spent(Block) /\ Chained
      /\ UNCHANGED <<call, returnValue, locals, trace, pc, stack, thrown>>
      /\ IF Len(blocks) = 1 THEN status' = "raised" /\ UNCHANGED blocks
                            ELSE blocks' = Front(blocks) /\ UNCHANGED status
  BY DEF InFinallySection, RecoverGuard, Recovering, Spent
<1>2. /\ HeapOK(heap) /\ h \in Nat /\ LocalsOK(locals, h)
      /\ BlocksOK(blocks, h) /\ Variable(returnValue, h) /\ TraceOK(trace)
      /\ Fits(stack, kinds, h) /\ thrown \in 0 .. h
      /\ Len(blocks) \in 1 .. Len(blocks) /\ BlockOK(Block, h)
      /\ \A m \in 1 .. Len(blocks) : blocks[m].sp <= Len(kinds)
  BY <1>1, ThrownIs
<1>3. HeapOK(heap') /\ Len(heap') = h
  BY <1>1, <1>2, ChainedIs
<1>4. Fits(stack', kinds, Len(heap')) /\ thrown' \in 0 .. Len(heap')
  BY <1>1, <1>2, <1>3
<1>5. CASE Len(blocks) = 1
  <2>1. StateOK(heap', blocks', locals', returnValue', trace')
    BY <1>1, <1>2, <1>3, <1>5 DEF StateOK
  <2>2. Place(Certificate[call'], pc', ShapeOf(kinds, blocks', returnValue'), thrown', status')
    BY <1>1, <1>5 DEF Place
  <2> QED
    BY <1>1, <1>4, <1>5, <2>1, <2>2 DEF Good
<1>6. CASE Len(blocks) # 1
  <2>1. blocks' = Front(blocks) /\ status' = "running"
    BY <1>1, <1>6
  <2> HIDE DEF s
  <2>2. /\ BlocksOK(Front(blocks), h) /\ Len(Front(blocks)) = Len(blocks) - 1 /\ Len(blocks) \in Nat
        /\ Front(blocks) = SubSeq(blocks, 1, Len(blocks) - 1)
        /\ \A i \in 1 .. Len(blocks) - 1 : Front(blocks)[i] = blocks[i]
    BY <1>2, FrontIs
  <2>3. StateOK(heap', blocks', locals', returnValue', trace')
    BY <1>1, <1>2, <1>3, <2>1, <2>2 DEF StateOK
  <2>4. Covered(t)
    <3>1. \A m \in 1 .. Len(Front(blocks)) : m \in 1 .. Len(blocks) /\ m \in 1 .. Len(blocks) - 1
      BY <2>2
    <3>2. \A m \in 1 .. Len(Front(blocks)) : Front(blocks)[m].sp <= Len(kinds)
      BY <1>2, <2>2, <3>1
    <3> QED
      BY <2>2, <3>2, CoveredIs
  <2>5. Handled(t) = Handled(s)
    <3> DEFINE m == Len(blocks)
    <3>1. BlocksOK(blocks, h) /\ m = Len(blocks) /\ m # 0 /\ Spent(blocks[m])
      BY <1>1, <1>2, <2>2 DEF Block, Last
    <3>2. Front(blocks) = SubSeq(blocks, 1, m - 1)
      BY <2>2
    <3> HIDE DEF m
    <3>3. Handled(ShapeOf(kinds, SubSeq(blocks, 1, m - 1), returnValue)) = Handled(ShapeOf(kinds, blocks, returnValue))
      BY <3>1, HandledBelow
    <3> QED
      BY <3>2, <3>3 DEF s
  <2>6. \A x \in Handled(s) : In(x, P)
    BY DEF Thrown, s
  <2>7. ShapeOf(kinds, blocks', returnValue') = t
    BY <1>1, <2>1
  <2> HIDE DEF t
  <2>8. Place(Certificate[call'], pc', ShapeOf(kinds, blocks', returnValue'), thrown', status')
    BY <1>1, <2>4, <2>5, <2>6, <2>7 DEF Place
  <2> QED
    BY <1>4, <2>1, <2>3, <2>8 DEF Good
<1> QED
  BY <1>5, <1>6

LEMMA PropagateKeeps ==
  ASSUME Inv, NEW kinds, Thrown(kinds), Propagate
  PROVE  Good'
<1>1. /\ UNCHANGED <<call, returnValue, locals, trace, pc, stack, blocks>> /\ status' = "raised"
      /\ blocks # <<>> => Len(stack) < Block.sp
      /\ blocks = <<>> => UNCHANGED <<heap, thrown>>
  BY DEF Propagate, Recovering
<1>2. blocks = <<>>
  <2> SUFFICES ASSUME blocks # <<>> PROVE FALSE
    OBVIOUS
  <2>1. Len(blocks) \in 1 .. Len(blocks) /\ Len(stack) \in Nat
    BY ThrownIs
  <2>2. Block.sp \in 0 .. Len(stack)
    BY <2>1, ThrownIs DEF Block, Last
  <2> QED
    BY <1>1, <2>1, <2>2
<1>3. Fits(stack', kinds, Len(heap'))
  BY <1>1, <1>2, ThrownIs
<1>4. Place(Certificate[call'], pc', ShapeOf(kinds, blocks', returnValue'), thrown', status')
  BY <1>1 DEF Place
<1>5. StateOK(heap', blocks', locals', returnValue', trace') /\ thrown' \in 0 .. Len(heap')
  BY <1>1, <1>2 DEF Inv, Good
<1> QED
  BY <1>1, <1>3, <1>4, <1>5 DEF Good

-----------------------------------------------------------------------------
(* The invariant holds, and what follows from it. *)

LEMMA Initially == Init => Inv
<1> SUFFICES ASSUME Init PROVE Inv
  OBVIOUS
<1> DEFINE P == Certificate[call]
<1>1. /\ call \in 1 .. Len(Codes) /\ code = Codes[call].ins /\ pc = 0 /\ stack = <<>> /\ blocks = <<>>
      /\ returnValue = Null /\ locals = [l \in Locals |-> Null] /\ heap = <<>> /\ thrown = None
      /\ status = "running" /\ trace = <<>> /\ depth = <<>>
  BY DEF Init
<1>2. IsList(<<>>) /\ Len(<<>>) = 0
  <2>1. <<>> \in Seq({})
    OBVIOUS
  <2> QED
    BY <2>1 DEF IsList
<1>3. In(<<0, Start>>, P)
  BY <1>1, CertifiedIs DEF Certified
<1>4. ShapeOf(<<>>, blocks, returnValue) = Start
  <2>1. View(<<>>) = <<>>
    <3>1. BlocksOK(<<>>, 0)
      BY <1>2 DEF BlocksOK
    <3> QED
      BY <3>1, NoBlocks
  <2>2. (~ IsNull(returnValue)) = FALSE
    BY <1>1 DEF IsNull, Null
  <2> QED
    BY <1>1, <2>1, <2>2 DEF ShapeOf, Start
<1>5. Place(P, pc, ShapeOf(<<>>, blocks, returnValue), thrown, status)
  BY <1>1, <1>3, <1>4 DEF Place
<1>6. Fits(stack, <<>>, Len(heap))
  BY <1>1, <1>2 DEF Fits
<1>7. StateOK(heap, blocks, locals, returnValue, trace)
  <2>1. HeapOK(heap) /\ BlocksOK(blocks, Len(heap)) /\ TraceOK(trace)
    BY <1>1, <1>2 DEF HeapOK, BlocksOK, TraceOK
  <2>2. LocalsOK(locals, Len(heap)) /\ Variable(returnValue, Len(heap))
    BY <1>1 DEF LocalsOK, Variable
  <2> QED
    BY <2>1, <2>2 DEF StateOK
<1>8. thrown \in 0 .. Len(heap)
  BY <1>1, <1>2 DEF None
<1>9. Good
  BY <1>1, <1>5, <1>6, <1>7, <1>8 DEF Good
<1>10. DepthOK(P, depth)
  BY <1>1 DEF DepthOK
<1> QED
  BY <1>1, <1>9, <1>10 DEF Inv

LEMMA StepKeeps ==
  ASSUME Inv, Step
  PROVE  Inv'
<1>1. /\ Instruction /\ UNCHANGED <<call, code>>
      /\ DepthOK(Certificate[call], depth')
      /\ \E kinds : At(kinds)
  BY Instructions
<1>2. PICK kinds : At(kinds)
  BY <1>1
<1>3. UNCHANGED call
  BY <1>1
<1>4. Good'
  <2>1. CASE Call
    BY <1>2, <1>3, <2>1, CallKeeps
  <2>2. CASE Load
    BY <1>2, <1>3, <2>2, LoadKeeps
  <2>3. CASE LoadLocal
    BY <1>2, <1>3, <2>3, LoadLocalKeeps
  <2>4. CASE StoreLocal
    BY <1>2, <1>3, <2>4, StoreLocalKeeps
  <2>5. CASE DeleteLocal
    BY <1>2, <1>3, <2>5, DeleteLocalKeeps
  <2>6. CASE MakeSequence
    BY <1>2, <1>3, <2>6, MakeSequenceKeeps
  <2>7. CASE ExpandSequence
    BY <1>2, <1>3, <2>7, ExpandSequenceKeeps
  <2>8. CASE Shuffle
    BY <1>2, <1>3, <2>8, ShuffleKeeps
  <2>9. CASE UnaryOp
    BY <1>2, <1>3, <2>9, UnaryOpKeeps
  <2>10. CASE Binary
    BY <1>2, <1>3, <2>10, BinaryKeeps
  <2>11. CASE Branch
    BY <1>2, <1>3, <2>11, BranchKeeps
  <2>12. CASE BranchIf
    BY <1>2, <1>3, <2>12, BranchIfKeeps
  <2>13. CASE MakeIter
    BY <1>2, <1>3, <2>13, MakeIterKeeps
  <2>14. CASE IterNext
    BY <1>2, <1>3, <2>14, IterNextKeeps
  <2>15. CASE Raise
    BY <1>2, <1>3, <2>15, RaiseKeeps
  <2>16. CASE ExcMatch
    BY <1>2, <1>3, <2>16, ExcMatchKeeps
  <2>17. CASE SetupBlock
    BY <1>2, <1>3, <2>17, SetupBlockKeeps
  <2>18. CASE EndExcept
    BY <1>2, <1>3, <2>18, EndExceptKeeps
  <2>19. CASE EndFinally
    BY <1>2, <1>3, <2>19, EndFinallyKeeps
  <2>20. CASE PopReturn
    BY <1>2, <1>3, <2>20, PopReturnKeeps
  <2> QED
    BY <1>1, <2>1, <2>2, <2>3, <2>4, <2>5, <2>6, <2>7, <2>8, <2>9, <2>10, <2>11, <2>12, <2>13, <2>14,
       <2>15, <2>16, <2>17, <2>18, <2>19, <2>20 DEF Instruction
<1> QED
  BY <1>1, <1>4 DEF Inv

LEMMA RecoverKeeps ==
  ASSUME Inv, Recover
  PROVE  Inv'
<1>1. status = "running" /\ thrown # None /\ UNCHANGED <<call, code, depth>>
  BY DEF Recover, Propagate, FirstTime, InExcept, InFinallySection, RecoverGuard, Recovering
<1>2. PICK kinds : Thrown(kinds)
  BY <1>1 DEF Inv, Good, Place, Thrown
<1>3. Good'
  <2>1. CASE Propagate
    BY <1>2, <2>1, PropagateKeeps
  <2>2. CASE FirstTime
    BY <1>2, <2>2, FirstTimeKeeps
  <2>3. CASE InExcept
    BY <1>2, <2>3, InExceptKeeps
  <2>4. CASE InFinallySection
    BY <1>2, <2>4, InFinallySectionKeeps
  <2> QED
    BY <2>1, <2>2, <2>3, <2>4 DEF Recover
<1> QED
  BY <1>1, <1>3 DEF Inv

LEMMA Stutters ==
  ASSUME Inv, UNCHANGED vars
  PROVE  Inv'
BY DEF Inv, Good, vars

LEMMA Invariance == Spec => []Inv
<1>1. Init => Inv
  BY Initially
<1>2. Inv /\ [Next]_vars => Inv'
  <2> SUFFICES ASSUME Inv, [Next]_vars PROVE Inv'
    OBVIOUS
  <2>1. CASE Step
    BY <2>1, StepKeeps
  <2>2. CASE Recover
    BY <2>2, RecoverKeeps
  <2>3. CASE UNCHANGED vars
    BY <2>3, Stutters
  <2> QED
    BY <2>1, <2>2, <2>3 DEF Next
<1> QED
  BY <1>1, <1>2, PTL DEF Spec

LEMMA KindIs ==
  ASSUME NEW n \in Nat, NEW x, NEW kind, HasKind(x, kind, n)
  PROVE  x.k \in {"val", "iter", "seq", "exc", "type"}
BY DatumIs DEF HasKind

LEMMA Typed == Inv => TypeOK
<1> SUFFICES ASSUME Inv PROVE TypeOK
  OBVIOUS
<1>1. /\ call \in 1 .. Len(Codes) /\ code = Codes[call].ins
      /\ status \in {"running", "returned", "raised"} /\ thrown \in 0 .. Len(heap)
      /\ HeapOK(heap) /\ BlocksOK(blocks, Len(heap)) /\ LocalsOK(locals, Len(heap))
      /\ Variable(returnValue, Len(heap)) /\ TraceOK(trace)
  BY DEF Inv, Good, StateOK
<1>2. PICK kinds : /\ Fits(stack, kinds, Len(heap))
                   /\ Place(Certificate[call], pc, ShapeOf(kinds, blocks, returnValue), thrown, status)
  BY DEF Inv, Good
<1>3. status = "running" /\ thrown = None => pc \in DOMAIN code
  <2> SUFFICES ASSUME status = "running", thrown = None PROVE pc \in DOMAIN code
    OBVIOUS
  <2>1. pc \in DOMAIN Certificate[call]
    BY <1>2 DEF Place, In
  <2> QED
    BY <1>1, <2>1, CertifiedIs DEF Certified
<1>4. Len(heap) \in Nat /\ DOMAIN heap = 1 .. Len(heap)
  BY <1>1, ListIs DEF HeapOK
<1>5. DOMAIN blocks = 1 .. Len(blocks) /\ DOMAIN trace = 1 .. Len(trace)
  BY <1>1, ListIs DEF BlocksOK, TraceOK
<1>6. DOMAIN stack = 1 .. Len(stack)
  BY <1>2, ListIs DEF Fits
<1>7. \A n \in DOMAIN blocks : /\ blocks[n].flags \subseteq {"FIRED", "CAUGHT", "FINALLY"}
                               /\ blocks[n].exception \in 0 .. Len(heap)
  BY <1>1, <1>5 DEF BlocksOK, BlockOK
<1>8. \A x \in DOMAIN heap : Parent(x) \in 0 .. Len(heap)
  BY <1>1, <1>4 DEF HeapOK, Parent
<1>9. \A n \in DOMAIN stack : stack[n].k \in {"val", "iter", "seq", "exc", "type"}
  BY <1>2, <1>4, <1>6, KindIs DEF Fits
<1>10. ASSUME NEW x, Variable(x, Len(heap)) PROVE x.k \in {"none", "val", "seq", "exc"}
  <2>1. CASE x = Null
    BY <2>1 DEF Null
  <2>2. CASE Datum(x, Len(heap))
    BY <1>4, <2>2, DatumIs
  <2> QED
    BY <1>10, <2>1, <2>2 DEF Variable
<1>11. \A l \in Locals : locals[l].k \in {"none", "val", "seq", "exc"}
  BY <1>1, <1>10 DEF LocalsOK
<1>12. returnValue.k \in {"none", "val", "seq", "exc"}
  BY <1>1, <1>10
<1>13. \A n \in DOMAIN trace : trace[n].v \in Values \cup {0, -1}
  BY <1>1, <1>5 DEF TraceOK
<1> QED
  BY <1>1, <1>3, <1>7, <1>8, <1>9, <1>11, <1>12, <1>13 DEF TypeOK

\* The type invariant of the interpreter: in particular, every jump of a
\* certified code object lands on an instruction.
THEOREM TypeCorrect == Spec => []TypeOK
BY Invariance, Typed, PTL

\* None of the checks of eval fails in a certified code object: the stack has
\* what an instruction takes from it, a section finds its block, the stack is
\* as high at the end of a block as at its start, and a return leaves it empty.
THEOREM NoErrors == Spec => []NoInternalError
<1>1. Inv => NoInternalError
  <2> SUFFICES ASSUME Inv PROVE NoInternalError
    OBVIOUS
  <2>1. HeapOK(heap)
    BY DEF Inv, Good, StateOK
  <2>2. DOMAIN heap = 1 .. Len(heap)
    BY <2>1, ListIs DEF HeapOK
  <2> QED
    BY <2>1, <2>2 DEF HeapOK, NoInternalError, Type
<1> QED
  BY <1>1, Invariance, PTL

\* Whichever way a call comes to an instruction, and however often, the stack is
\* as high as it was the times before.
THEOREM HeightsAgree == Spec => []HeightByAddress
<1>1. Inv => HeightByAddress
  <2> SUFFICES ASSUME Inv, status = "running", thrown = None, pc \in DOMAIN depth
               PROVE  Len(stack) = depth[pc]
    BY DEF HeightByAddress
  <2> DEFINE P == Certificate[call]
  <2>1. PICK kinds : Fits(stack, kinds, Len(heap)) /\ Place(P, pc, ShapeOf(kinds, blocks, returnValue), thrown, status)
    BY DEF Inv, Good
  <2> DEFINE s == ShapeOf(kinds, blocks, returnValue)
  <2>2. pc \in DOMAIN P /\ s \in P[pc]
    BY <2>1 DEF Place, In
  <2>3. Height(s) = Len(stack)
    <3>1. Height(s) = Len(kinds)
      BY PopIs
    <3> HIDE DEF s
    <3> QED
      BY <2>1, <3>1 DEF Fits
  <2>4. PICK t \in P[pc] : depth[pc] = Height(t)
    BY DEF Inv, DepthOK
  <2>5. Certified(code, P)
    BY CertifiedIs DEF Inv
  <2> HIDE DEF s, P
  <2>6. Height(t) = Height(s)
    BY <2>2, <2>4, <2>5 DEF Certified
  <2> QED
    BY <2>3, <2>4, <2>6
<1> QED
  BY <1>1, Invariance, PTL
=============================================================================
