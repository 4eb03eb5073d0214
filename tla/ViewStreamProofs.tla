-------------------------- MODULE ViewStreamProofs --------------------------
(***************************************************************************)
(* What TLAPS proves of ViewStream for every set of writers, every input   *)
(* and every number of parameters: its types, that the text of a Write is  *)
(* in one piece, that an open sequence is bounded, that Clear forgets, and *)
(* that Reads return the bytes of the text in order (ReadingInv).          *)
(***************************************************************************)
EXTENDS ViewStream, SequenceFacts

(* FlattenSeq.  It is recursive, so what it computes is shown by induction *)
(* on the number of sequences.                                             *)

\* The function that FlattenSeq computes with: the first n sequences, joined.
Joins(ss, n, g) ==
  g = [i \in 1 .. n |-> IF i = 1 THEN ss[i] ELSE g[i - 1] \o ss[i]]

\* There is one, by induction on n.
LEMMA JoinsExists ==
  ASSUME NEW ss, NEW n \in Nat, n >= 1
  PROVE  \E g : Joins(ss, n, g)
<1> DEFINE P(k) == \E g : Joins(ss, k, g)
           T == {k \in Nat : k >= 1 /\ ~P(k)}
<1>1. P(1)
  <2> DEFINE g == [i \in 1 .. 1 |-> ss[i]]
  <2>1. g = [i \in 1 .. 1 |-> IF i = 1 THEN ss[i] ELSE g[i - 1] \o ss[i]]
    <3>1. \A i \in 1 .. 1 : g[i] = IF i = 1 THEN ss[i] ELSE g[i - 1] \o ss[i]
      OBVIOUS
    <3>2. g = [i \in 1 .. 1 |-> g[i]]
      OBVIOUS
    <3> HIDE DEF g
    <3> QED BY <3>1, <3>2
  <2> HIDE DEF g
  <2> QED BY <2>1 DEF Joins
<1>2. ASSUME NEW k \in Nat, k >= 1, P(k)
      PROVE  P(k + 1)
  <2> PICK g : Joins(ss, k, g)
    BY <1>2
  <2> DEFINE h == [i \in 1 .. k + 1 |-> IF i <= k THEN g[i] ELSE g[k] \o ss[i]]
  <2>1. ASSUME NEW i \in 1 .. k + 1
        PROVE  h[i] = IF i = 1 THEN ss[i] ELSE h[i - 1] \o ss[i]
    <3>1. CASE i = 1
      <4>1. h[i] = g[1]
        BY <1>2, <3>1
      <4>2. g[1] = ss[1]
        BY <1>2 DEF Joins
      <4> QED BY <3>1, <4>1, <4>2
    <3>2. CASE i # 1 /\ i <= k
      <4>1. i \in 1 .. k /\ i - 1 \in 1 .. k + 1 /\ i - 1 <= k
        BY <1>2, <3>2
      <4>2. h[i] = g[i] /\ h[i - 1] = g[i - 1]
        BY <4>1
      <4>3. g[i] = g[i - 1] \o ss[i]
        BY <3>2, <4>1 DEF Joins
      <4> HIDE DEF h
      <4> QED BY <3>2, <4>2, <4>3
    <3>3. CASE i = k + 1
      <4>1. k \in 1 .. k + 1 /\ i # 1 /\ ~(i <= k) /\ i - 1 = k
        BY <1>2, <3>3
      <4>2. h[i] = g[k] \o ss[i]
        BY <4>1
      <4>3. h[k] = g[k]
        BY <4>1
      <4> HIDE DEF h
      <4> QED BY <4>1, <4>2, <4>3
    <3> QED BY <1>2, <3>1, <3>2, <3>3
  <2>2. h = [i \in 1 .. k + 1 |-> h[i]]
    OBVIOUS
  <2> HIDE DEF h
  <2>3. h = [i \in 1 .. k + 1 |-> IF i = 1 THEN ss[i] ELSE h[i - 1] \o ss[i]]
    BY <2>1, <2>2
  <2> QED BY <2>3 DEF Joins
<1> HIDE DEF P
<1>3. SUFFICES ASSUME T # {} PROVE FALSE
  BY DEF P
<1>4. T \subseteq Nat
  OBVIOUS
<1>5. PICK m \in T : \A k \in T : m <= k
  <2> HIDE DEF T
  <2> QED BY <1>3, <1>4, Least
<1>6. m - 1 \in Nat /\ m - 1 >= 1 /\ m - 1 + 1 = m
  BY <1>1, <1>5
<1>7. m - 1 \notin T
  <2>1. ~(m <= m - 1)
    BY <1>6
  <2> QED BY <1>5, <2>1
<1>8. P(m - 1)
  BY <1>6, <1>7
<1>9. P(m - 1 + 1)
  BY <1>2, <1>6, <1>8
<1> QED BY <1>5, <1>6, <1>9

\* Only one: what a longer one says of the first n is the same.
LEMMA JoinsUnique ==
  ASSUME NEW ss, NEW n \in Nat, NEW m \in Nat, n >= 1, n <= m, NEW g, NEW h,
         Joins(ss, n, g), Joins(ss, m, h)
  PROVE  g[n] = h[n]
<1> DEFINE T == {k \in 1 .. n : g[k] # h[k]}
<1>1. SUFFICES ASSUME T # {} PROVE FALSE
  OBVIOUS
<1>2. T \subseteq Nat
  OBVIOUS
<1>3. PICK k \in T : \A j \in T : k <= j
  <2> HIDE DEF T
  <2> QED BY <1>1, <1>2, Least
<1>4. k \in 1 .. n /\ k \in 1 .. m
  BY <1>3
<1>5. /\ g[k] = IF k = 1 THEN ss[k] ELSE g[k - 1] \o ss[k]
      /\ h[k] = IF k = 1 THEN ss[k] ELSE h[k - 1] \o ss[k]
  BY <1>4 DEF Joins
<1>6. k # 1 /\ k - 1 \in 1 .. n /\ ~(k <= k - 1)
  BY <1>3, <1>4, <1>5
<1>7. g[k - 1] = h[k - 1]
  BY <1>3, <1>6
<1> QED BY <1>3, <1>5, <1>6, <1>7

\* FlattenSeq takes its last value.
LEMMA FlattenJoins ==
  ASSUME NEW S, NEW ss \in Seq(S), ss # <<>>
  PROVE \E g : Joins(ss, Len(ss), g) /\ FlattenSeq(ss) = g[Len(ss)]
<1> DEFINE n == Len(ss)
           g == CHOOSE f : f = [i \in 1 .. n |-> IF i = 1 THEN ss[i] ELSE f[i - 1] \o ss[i]]
<1>1. n \in Nat /\ n >= 1 /\ n # 0
  OBVIOUS
<1>2. Joins(ss, n, g)
  <2>1. \E f : Joins(ss, n, f)
    BY <1>1, JoinsExists
  <2> QED BY <2>1 DEF Joins
<1>3. FlattenSeq(ss) = g[n]
  BY <1>1 DEF FlattenSeq
<1> QED BY <1>2, <1>3

\* Its values, one by one.
LEMMA JoinsAt ==
  ASSUME NEW ss, NEW n, NEW g, Joins(ss, n, g), NEW i \in 1 .. n
  PROVE  g[i] = IF i = 1 THEN ss[i] ELSE g[i - 1] \o ss[i]
BY DEF Joins

\* The last one, from the one before.
LEMMA JoinsNext ==
  ASSUME NEW ss, NEW n \in Nat, NEW g, Joins(ss, n + 1, g)
  PROVE  /\ n = 0 => g[n + 1] = ss[n + 1]
         /\ n # 0 => g[n + 1] = g[n] \o ss[n + 1]
<1>1. \A i \in 1 .. n + 1 : g[i] = IF i = 1 THEN ss[i] ELSE g[i - 1] \o ss[i]
  BY JoinsAt
<1>2. n = 0 => g[n + 1] = ss[n + 1]
  BY <1>1
<1>3. ASSUME n # 0
      PROVE  g[n + 1] = g[n] \o ss[n + 1]
  <2> DEFINE k == n + 1
  <2>1. k \in 1 .. n + 1 /\ k # 1 /\ k - 1 = n
    BY <1>3
  <2> HIDE DEF k
  <2>2. g[k] = g[k - 1] \o ss[k]
    BY <1>1, <2>1
  <2>3. g[k] = g[n] \o ss[k]
    BY <2>1, <2>2
  <2> QED BY <2>3 DEF k
<1> QED BY <1>2, <1>3

\* One more sequence at the end.
LEMMA FlattenAppendCases ==
  ASSUME NEW S, NEW ss \in Seq(Seq(S)), NEW t \in Seq(S)
  PROVE  FlattenSeq(Append(ss, t)) = IF ss = <<>> THEN t ELSE FlattenSeq(ss) \o t
<1> DEFINE n == Len(ss)
           st == Append(ss, t)
<1>1. /\ n \in Nat /\ st \in Seq(Seq(S)) /\ st # <<>> /\ Len(st) = n + 1 /\ st[n + 1] = t
      /\ \A i \in 1 .. n : st[i] = ss[i]
  <2>1. n \in Nat /\ st \in Seq(Seq(S))
    OBVIOUS
  <2>2. Len(st) = n + 1 /\ st[n + 1] = t
    OBVIOUS
  <2>3. \A i \in 1 .. n : st[i] = ss[i]
    OBVIOUS
  <2>4. st # <<>>
    <3> HIDE DEF st
    <3> QED BY <2>1, <2>2
  <2> QED BY <2>1, <2>2, <2>3, <2>4
<1>2. PICK h : Joins(st, n + 1, h) /\ FlattenSeq(st) = h[n + 1]
  <2> HIDE DEF st, n
  <2> QED BY <1>1, FlattenJoins
<1>3. (n = 0 => h[n + 1] = t) /\ (n # 0 => h[n + 1] = h[n] \o t)
  <2> HIDE DEF n, st
  <2> QED BY ZenonT(40), <1>1, <1>2, JoinsNext
<1>4. CASE ss = <<>>
  BY <1>2, <1>3, <1>4
<1>5. CASE ss # <<>>
  <2>1. n >= 1 /\ n # 0
    BY <1>5
  <2>2. PICK g : Joins(ss, n, g) /\ FlattenSeq(ss) = g[n]
    BY <1>5, FlattenJoins
  <2>3. Joins(st, n, g)
    <3>1. \A i \in 1 .. n : st[i] = ss[i]
      BY <1>1
    <3>2. g = [i \in 1 .. n |-> IF i = 1 THEN ss[i] ELSE g[i - 1] \o ss[i]]
      BY <2>2 DEF Joins
    <3>3. [i \in 1 .. n |-> IF i = 1 THEN ss[i] ELSE g[i - 1] \o ss[i]]
          = [i \in 1 .. n |-> IF i = 1 THEN st[i] ELSE g[i - 1] \o st[i]]
      <4> HIDE DEF st, n
      <4> QED BY <3>1
    <3> QED BY <3>2, <3>3 DEF Joins
  <2>4. g[n] = h[n]
    <3> HIDE DEF n, st
    <3> QED BY <1>1, <1>2, <2>1, <2>3, JoinsUnique
  <2> QED BY <1>2, <1>3, <1>5, <2>1, <2>2, <2>4
<1> QED BY <1>4, <1>5

\* The elements are those of the sequences.
LEMMA FlattenType ==
  ASSUME NEW S, NEW ss \in Seq(Seq(S))
  PROVE  FlattenSeq(ss) \in Seq(S)
<1>1. CASE ss = <<>>
  BY <1>1 DEF FlattenSeq
<1>2. CASE ss # <<>>
  <2> DEFINE n == Len(ss)
  <2>1. PICK g : Joins(ss, n, g) /\ FlattenSeq(ss) = g[n]
    BY <1>2, FlattenJoins
  <2> DEFINE T == {k \in 1 .. n : g[k] \notin Seq(S)}
  <2>2. n \in 1 .. n /\ n \in Nat /\ T \subseteq Nat /\ \A i \in 1 .. n : ss[i] \in Seq(S)
    BY <1>2
  <2>3. SUFFICES ASSUME T # {} PROVE FALSE
    BY <2>1, <2>2
  <2>4. PICK k \in T : \A j \in T : k <= j
    <3> HIDE DEF T
    <3> QED BY <2>2, <2>3, Least
  <2>5. g[k] = IF k = 1 THEN ss[k] ELSE g[k - 1] \o ss[k]
    BY <2>1, <2>4 DEF Joins
  <2>6. k # 1 /\ k - 1 \in 1 .. n /\ ~(k <= k - 1)
    BY <2>2, <2>4, <2>5
  <2>7. g[k - 1] \in Seq(S) /\ ss[k] \in Seq(S)
    BY <2>2, <2>4, <2>6
  <2>8. g[k - 1] \o ss[k] \in Seq(S)
    BY <2>7
  <2> QED BY <2>4, <2>5, <2>6, <2>8
<1> QED BY <1>1, <1>2

\* The same without the case of no sequence.
LEMMA FlattenAppend ==
  ASSUME NEW S, NEW ss \in Seq(Seq(S)), NEW t \in Seq(S)
  PROVE  FlattenSeq(Append(ss, t)) = FlattenSeq(ss) \o t
<1>1. FlattenSeq(<<>>) = <<>>
  BY DEF FlattenSeq
<1>2. <<>> \o t = t
  OBVIOUS
<1> QED BY <1>1, <1>2, FlattenAppendCases

\* Another last element.
LEMMA ReplaceLast ==
  ASSUME NEW A, NEW s \in Seq(A), s # <<>>, NEW e \in A
  PROVE  /\ SubSeq(s, 1, Len(s) - 1) \in Seq(A)
         /\ s = Append(SubSeq(s, 1, Len(s) - 1), s[Len(s)])
         /\ [s EXCEPT ![Len(s)] = e] = Append(SubSeq(s, 1, Len(s) - 1), e)
<1> DEFINE n == Len(s)
           front == SubSeq(s, 1, n - 1)
           new == [s EXCEPT ![n] = e]
<1>1. n \in Nat /\ n >= 1 /\ n - 1 \in Int /\ \A i \in 1 .. n - 1 : s[i] \in A
  OBVIOUS
<1>2. /\ front \in Seq(A) /\ Len(front) = n - 1
      /\ \A i \in 1 .. n - 1 : front[i] = s[i]
  <2> HIDE DEF n
  <2>1. /\ front \in Seq(A) /\ Len(front) = IF 1 <= n - 1 THEN n - 1 - 1 + 1 ELSE 0
        /\ \A i \in 1 .. n - 1 - 1 + 1 : front[i] = s[1 + i - 1]
    BY <1>1, SubSeqProperties
  <2> HIDE DEF front
  <2> QED BY <1>1, <2>1
<1>3. /\ new \in Seq(A) /\ Len(new) = n
      /\ \A i \in 1 .. n : new[i] = IF i = n THEN e ELSE s[i]
  BY ExceptSeq
<1> HIDE DEF front, new
<1>4. \A x \in A : /\ Append(front, x) \in Seq(A) /\ Len(Append(front, x)) = n
                    /\ \A i \in 1 .. n : Append(front, x)[i] = IF i = n THEN x ELSE s[i]
  BY <1>1, <1>2
<1>5. s[n] \in A
  BY <1>1
<1>6. s = Append(front, s[n])
  BY <1>1, <1>4, <1>5, SeqEqual
<1>7. new = Append(front, e)
  BY <1>3, <1>4, SeqEqual
<1> QED BY <1>2, <1>6, <1>7 DEF front, new

\* More at the end of the last sequence is more at the end.
LEMMA FlattenLast ==
  ASSUME NEW S, NEW ss \in Seq(Seq(S)), ss # <<>>, NEW t \in Seq(S)
  PROVE  FlattenSeq([ss EXCEPT ![Len(ss)] = @ \o t]) = FlattenSeq(ss) \o t
<1> DEFINE front == SubSeq(ss, 1, Len(ss) - 1)
           last == ss[Len(ss)]
           F == FlattenSeq(front)
<1>1. last \in Seq(S) /\ last \o t \in Seq(S)
  OBVIOUS
<1>2. /\ front \in Seq(Seq(S)) /\ ss = Append(front, last)
      /\ [ss EXCEPT ![Len(ss)] = last \o t] = Append(front, last \o t)
  <2> DEFINE A == Seq(S)
             e == last \o t
  <2>1. ss \in Seq(A) /\ e \in A
    BY <1>1
  <2> HIDE DEF A, e
  <2>2. /\ front \in Seq(A) /\ ss = Append(front, last)
        /\ [ss EXCEPT ![Len(ss)] = e] = Append(front, e)
    BY <2>1, ReplaceLast
  <2> QED BY <2>2 DEF A, e
<1> HIDE DEF front, last
<1>3. F \in Seq(S)
  BY <1>2, FlattenType
<1>4. FlattenSeq(Append(front, last)) = F \o last
  BY <1>1, <1>2, FlattenAppend
<1>5. FlattenSeq(Append(front, last \o t)) = F \o (last \o t)
  BY <1>1, <1>2, FlattenAppend
<1> HIDE DEF F
<1>6. F \o (last \o t) = (F \o last) \o t
  BY <1>1, <1>3, ConcatAssociative, SMTT(30)
<1> QED BY <1>2, <1>4, <1>5, <1>6 DEF last

-----------------------------------------------------------------------------
(* The interpreter.                                                        *)

\* An interpreter whose parameters, if there are any, are those that parseOne
\* lets through: it takes no more once there are more than MaxParams, or the
\* last one is too long.
Interpreter(e) ==
  /\ e = [state |-> e.state, curch |-> e.curch, params |-> e.params, style |-> e.style]
  /\ e.state \in {"none", "escape", "csi", "params"}
  /\ e.curch \in Chars /\ e.params \in Seq(Seq(Numbers))
  /\ (e.state = "params") = (e.params # <<>>)
  /\ e.params # <<>> =>
       /\ Len(e.params) <= MaxParams + 1 /\ Len(Last(e.params)) <= 2
       /\ Len(e.params) <= MaxParams \/ Len(Last(e.params)) <= 1

\* The most runes a sequence can have that has come this far: each parameter
\* but the last has at most one number, and a separator before it.
Weight(e) ==
  IF e.state = "none" THEN 0 ELSE IF e.state = "escape" THEN 1
  ELSE IF e.state = "csi" THEN 2 ELSE 2 * Len(e.params) + Len(Last(e.params))

\* The runes of the grammar are characters of a view.
LEMMA Grammar ==
  /\ {ESC, Bracket, Semi, EndM} \subseteq Chars /\ Numbers \subseteq Chars /\ Tab \in Chars
  /\ 0 \in Numbers /\ MaxParams \in Nat
  /\ Semi \notin Numbers /\ EndM \notin Numbers
BY EscapeAssumption DEF Chars

\* An interpreter at the start, and after Clear.
LEMMA StartInterpreter == Interpreter(Start) /\ Weight(Start) = 0 /\ Start.style = Style
<1>1. <<>> \in Seq(Seq(Numbers))
  OBVIOUS
<1> QED BY <1>1, Grammar DEF Interpreter, Start, Weight

\* The weight bounds what HeldBounded says.
LEMMA WeightBound ==
  ASSUME NEW e, Interpreter(e)
  PROVE  Weight(e) \in Nat /\ Weight(e) <= 2 + 2 * (MaxParams + 1)
<1>1. CASE e.params = <<>>
  BY <1>1, Grammar DEF Interpreter, Weight
<1>2. CASE e.params # <<>>
  <2> DEFINE n == Len(e.params)
             l == Len(Last(e.params))
  <2>1. Last(e.params) \in Seq(Numbers)
    BY <1>2 DEF Interpreter, Last
  <2>2. n \in Nat /\ l \in Nat /\ Weight(e) = 2 * n + l
    BY <1>2, <2>1 DEF Interpreter, Weight
  <2>3. n <= MaxParams + 1 /\ l <= 2 /\ (n <= MaxParams \/ l <= 1)
    BY <1>2 DEF Interpreter
  <2> HIDE DEF n, l
  <2> QED BY <2>2, <2>3, Grammar
<1> QED BY <1>1, <1>2

\* An interpreter with other parameters.
LEMMA OtherParams ==
  ASSUME NEW e, Interpreter(e), NEW x
  PROVE  [e EXCEPT !.params = x] =
           [state |-> e.state, curch |-> e.curch, params |-> x, style |-> e.style]
<1>1. PICK a, b, c, d : e = [state |-> a, curch |-> b, params |-> c, style |-> d]
  BY DEF Interpreter
<1> QED BY <1>1

\* A parameter gets a number, or a new parameter begins: two more runes at
\* most for each, as long as the sequence is not too long.
LEMMA ParamStep ==
  ASSUME NEW e, Interpreter(e), e.state = "params",
         Len(e.params) <= MaxParams, Len(Last(e.params)) <= 1
  PROVE  /\ \A c \in Numbers :
              LET f == [e EXCEPT !.params = [@ EXCEPT ![Len(e.params)] = Append(e.params[Len(e.params)], c)]]
              IN Interpreter(f) /\ f.state = "params" /\ f.style = e.style /\ Weight(f) = Weight(e) + 1
         /\ LET f == [e EXCEPT !.params = Append(@, <<>>)]
            IN Interpreter(f) /\ f.state = "params" /\ f.style = e.style /\ Weight(f) >= Weight(e) + 1
<1> DEFINE ps == e.params
           n == Len(e.params)
           l == Len(Last(e.params))
<1>1. /\ ps \in Seq(Seq(Numbers)) /\ ps # <<>> /\ n \in Nat /\ n >= 1 /\ n <= MaxParams
      /\ Last(ps) = ps[n] /\ ps[n] \in Seq(Numbers) /\ l \in Nat /\ l <= 1
      /\ Weight(e) = 2 * n + l
      /\ e = [state |-> "params", curch |-> e.curch, params |-> ps, style |-> e.style]
      /\ e.curch \in Chars /\ MaxParams \in Nat
  <2>1. ps \in Seq(Seq(Numbers)) /\ ps # <<>>
    BY DEF Interpreter
  <2>2. n \in Nat /\ n >= 1 /\ ps[n] \in Seq(Numbers) /\ Last(ps) = ps[n]
    BY <2>1 DEF Last
  <2>3. l \in Nat
    BY <2>2
  <2>4. Weight(e) = 2 * n + l
    BY DEF Weight
  <2> HIDE DEF n, l
  <2> QED BY <2>1, <2>2, <2>3, <2>4, Grammar DEF Interpreter, n, l
<1>2. ASSUME NEW c \in Numbers
      PROVE  LET f == [e EXCEPT !.params = [@ EXCEPT ![n] = Append(e.params[n], c)]]
             IN Interpreter(f) /\ f.state = "params" /\ f.style = e.style /\ Weight(f) = Weight(e) + 1
  <2> DEFINE qs == [ps EXCEPT ![n] = Append(ps[n], c)]
             f == [state |-> "params", curch |-> e.curch, params |-> qs, style |-> e.style]
  <2>1. Append(ps[n], c) \in Seq(Numbers) /\ Len(Append(ps[n], c)) = l + 1
    BY <1>1
  <2>2. qs \in Seq(Seq(Numbers)) /\ Len(qs) = n /\ qs[n] = Append(ps[n], c)
    BY <1>1, <2>1, ExceptSeq
  <2>3. [e EXCEPT !.params = [@ EXCEPT ![n] = Append(e.params[n], c)]] = f
    <3> DEFINE x == [e.params EXCEPT ![n] = Append(e.params[n], c)]
    <3>1. [e EXCEPT !.params = x] =
            [state |-> e.state, curch |-> e.curch, params |-> x, style |-> e.style]
      <4> HIDE DEF x
      <4> QED BY OtherParams
    <3> QED BY <3>1, Zenon
  <2> HIDE DEF qs, n, l
  <2>4. qs # <<>> /\ Last(qs) = Append(ps[n], c)
    BY <1>1, <2>2 DEF Last
  <2>5. Interpreter(f)
    <3>1. f.state = "params" /\ f.curch = e.curch /\ f.params = qs /\ f.style = e.style
      OBVIOUS
    <3>2. n <= MaxParams + 1 /\ l + 1 <= 2 /\ n <= MaxParams
      BY <1>1
    <3>3. Len(qs) <= MaxParams + 1 /\ Len(Last(qs)) <= 2 /\ Len(qs) <= MaxParams
      BY <2>1, <2>2, <2>4, <3>2
    <3> QED BY <1>1, <2>2, <2>4, <3>1, <3>3 DEF Interpreter
  <2>6. Weight(f) = 2 * n + (l + 1)
    BY <2>1, <2>2, <2>4 DEF Weight
  <2> QED BY <1>1, <2>3, <2>5, <2>6 DEF n
<1>3. LET f == [e EXCEPT !.params = Append(@, <<>>)]
      IN Interpreter(f) /\ f.state = "params" /\ f.style = e.style /\ Weight(f) >= Weight(e) + 1
  <2> DEFINE qs == Append(ps, <<>>)
             f == [state |-> "params", curch |-> e.curch, params |-> qs, style |-> e.style]
  <2>1. <<>> \in Seq(Numbers) /\ Len(<<>>) = 0
    OBVIOUS
  <2>2. qs \in Seq(Seq(Numbers)) /\ Len(qs) = n + 1 /\ qs[n + 1] = <<>>
    BY <1>1, <2>1
  <2>3. [e EXCEPT !.params = Append(@, <<>>)] = f
    <3> DEFINE x == Append(e.params, <<>>)
    <3>1. [e EXCEPT !.params = x] =
            [state |-> e.state, curch |-> e.curch, params |-> x, style |-> e.style]
      <4> HIDE DEF x
      <4> QED BY OtherParams
    <3>2. e.state = "params" /\ x = qs
      OBVIOUS
    <3> QED BY <3>1, <3>2, Zenon
  <2> HIDE DEF qs, n, l
  <2>4. qs # <<>> /\ Last(qs) = <<>>
    BY <1>1, <2>2 DEF Last
  <2>5. Interpreter(f)
    BY <1>1, <2>1, <2>2, <2>4 DEF Interpreter
  <2>6. Weight(f) = 2 * (n + 1) + 0
    BY <2>1, <2>2, <2>4 DEF Weight
  <2> QED BY <1>1, <2>3, <2>5, <2>6
<1> QED BY <1>2, <1>3

\* What parseOne makes of a rune.
Parsed(e, ch, r) ==
  /\ r.is = "text" => e.state = "none"
  /\ r.is = "escape" =>
       /\ Interpreter(r.ei) /\ r.ei.style = e.style /\ r.ei.state # "none"
       /\ Weight(r.ei) >= Weight(e) + 1
  /\ r.is = "request" => Interpreter(r.ei) /\ r.ei.state = "none"
  /\ r.is \in {"parse", "overlong"} => Interpreter(r.ei)

\* A set grows by at most one with an element.
LEMMA OneMore ==
  ASSUME NEW S, IsFiniteSet(S), NEW n \in Nat, Cardinality(S) <= n, NEW a
  PROVE  IsFiniteSet(S \cup {a}) /\ Cardinality(S \cup {a}) <= n + 1
<1>1. Cardinality(S) \in Nat
  BY FS_CardinalityType
<1>2. IsFiniteSet(S \cup {a})
  BY FS_AddElement
<1>3. \/ Cardinality(S \cup {a}) = Cardinality(S)
      \/ Cardinality(S \cup {a}) = Cardinality(S) + 1
  BY FS_AddElement
<1> DEFINE before == Cardinality(S)
           after == Cardinality(S \cup {a})
<1>4. before \in Nat /\ before <= n /\ (after = before \/ after = before + 1)
  BY <1>1, <1>3
<1> HIDE DEF before, after
<1>5. after <= n + 1
  BY <1>4
<1> QED BY <1>2, <1>5 DEF after

\* The separator of parameters is not the end of a colour: the four
\* characters of the grammar are four.
LEMMA DifferentEnds == Semi # EndM
<1> SUFFICES ASSUME Semi = EndM PROVE FALSE
  OBVIOUS
<1>1. IsFiniteSet({}) /\ Cardinality({}) <= 0
  BY FS_EmptySet
<1>2. IsFiniteSet({} \cup {ESC}) /\ Cardinality({} \cup {ESC}) <= 0 + 1
  BY <1>1, OneMore
<1>3. IsFiniteSet({ESC}) /\ Cardinality({ESC}) <= 1
  <2>1. {} \cup {ESC} = {ESC}
    OBVIOUS
  <2> QED BY <1>2, <2>1
<1>4. IsFiniteSet({ESC} \cup {Bracket}) /\ Cardinality({ESC} \cup {Bracket}) <= 1 + 1
  BY <1>3, OneMore
<1> DEFINE two == {ESC} \cup {Bracket}
           three == two \cup {Semi}
<1>5. three = {ESC, Bracket, Semi, EndM}
  OBVIOUS
<1>6. IsFiniteSet(two) /\ Cardinality(two) <= 2
  BY <1>4
<1> HIDE DEF two
<1>7. IsFiniteSet(two \cup {Semi}) /\ Cardinality(two \cup {Semi}) <= 2 + 1
  <2>1. 2 \in Nat
    OBVIOUS
  <2> QED BY <1>6, <2>1, OneMore
<1>8. Cardinality(three) <= 3
  BY <1>7
<1> HIDE DEF three
<1>9. Cardinality(three) = 4
  BY <1>5, EscapeAssumption
<1> QED BY <1>8, <1>9

\* An open sequence that goes on, ends or turns out not to be one.
LEMMA InParamsResult ==
  ASSUME NEW e, Interpreter(e), e.state = "params",
         Len(e.params) <= MaxParams, Len(Last(e.params)) <= 1, NEW m, NEW ch
  PROVE  Parsed(e, ch, InParams(m, e, ch))
<1> DEFINE r == InParams(m, e, ch)
           o == Output(m, e.style, e.params)
<1>1. CASE ch \in Numbers
  <2> DEFINE f == [e EXCEPT !.params = [@ EXCEPT ![Len(e.params)] = Append(e.params[Len(e.params)], ch)]]
  <2>1. r = [is |-> "escape", ei |-> f]
    BY <1>1, Grammar DEF InParams
  <2>2. Interpreter(f) /\ f.state = "params" /\ f.style = e.style /\ Weight(f) = Weight(e) + 1
    BY <1>1, ParamStep
  <2>3. Weight(e) \in Nat
    BY WeightBound
  <2> HIDE DEF f
  <2> QED BY <2>1, <2>2, <2>3 DEF Parsed
<1>2. CASE ch = Semi /\ Semi # EndM
  <2> DEFINE f == [e EXCEPT !.params = Append(@, <<>>)]
  <2>1. r = [is |-> "escape", ei |-> f]
    BY <1>2, Grammar DEF InParams
  <2>2. Interpreter(f) /\ f.state = "params" /\ f.style = e.style /\ Weight(f) >= Weight(e) + 1
    BY ParamStep
  <2> HIDE DEF f
  <2> QED BY <2>1, <2>2 DEF Parsed
<1>3. CASE ch = EndM /\ Semi # EndM /\ "to" \in DOMAIN o
  <2> DEFINE f == [state |-> "none", curch |-> e.curch, params |-> <<>>, style |-> o.to]
  <2>1. r = [is |-> "request", ei |-> f]
    BY <1>3, Grammar DEF InParams
  <2> HIDE DEF o
  <2>2. Interpreter(f)
    BY DEF Interpreter
  <2> QED BY <2>1, <2>2 DEF Parsed
<1>4. CASE ch = EndM /\ Semi # EndM /\ ~("to" \in DOMAIN o)
  <2>1. r = [is |-> IF o.error = "panic" THEN "panic" ELSE "parse", ei |-> e]
    BY <1>4, Grammar DEF InParams
  <2> HIDE DEF o
  <2> QED BY <2>1 DEF Parsed
<1>5. CASE ch \notin Numbers /\ ch # Semi /\ ch # EndM
  <2>1. r = [is |-> "parse", ei |-> e]
    BY <1>5 DEF InParams
  <2> QED BY <2>1 DEF Parsed
<1>6. Semi # EndM
  BY DifferentEnds
<1> QED BY <1>1, <1>2, <1>3, <1>4, <1>5, <1>6

\* parseOne in every state.
LEMMA ParseOneResult ==
  ASSUME NEW before, Interpreter(before), NEW m, NEW ch \in Chars
  PROVE  Parsed(before, ch, ParseOne(m, before, ch))
<1> DEFINE e == [before EXCEPT !.curch = ch]
           r == ParseOne(m, before, ch)
<1> SUFFICES Parsed(before, ch, r)
  OBVIOUS
<1>1. /\ e = [state |-> before.state, curch |-> ch, params |-> before.params, style |-> before.style]
      /\ Interpreter(e) /\ Weight(e) = Weight(before) /\ e.style = before.style
      /\ e.state = before.state /\ e.params = before.params
  <2>1. e = [state |-> before.state, curch |-> ch, params |-> before.params, style |-> before.style]
    BY DEF Interpreter
  <2> HIDE DEF e
  <2> QED BY <2>1 DEF Interpreter, Weight
<1>2. CASE TooLong(before)
  <2>1. r = [is |-> "overlong", ei |-> before]
    BY <1>2 DEF ParseOne
  <2> QED BY <2>1 DEF Parsed
<1>3. CASE ~TooLong(before) /\ before.state = "none"
  <2> HIDE DEF e
  <2>1. CASE ch # ESC
    <3>1. r = [is |-> "text", ei |-> before]
      BY <1>1, <1>3, <2>1 DEF ParseOne, e
    <3> QED BY <1>3, <3>1 DEF Parsed
  <2>2. CASE ch = ESC
    <3> DEFINE f == [state |-> "escape", curch |-> ch, params |-> before.params, style |-> before.style]
    <3>1. r = [is |-> "escape", ei |-> f]
      BY <1>1, <1>3, <2>2 DEF ParseOne, e
    <3>2. Interpreter(f) /\ Weight(f) = 1
      BY <1>3 DEF Interpreter, Weight
    <3>3. Weight(before) = 0
      BY <1>3 DEF Weight
    <3> QED BY <3>1, <3>2, <3>3 DEF Parsed
  <2> QED BY <2>1, <2>2
<1>4. CASE ~TooLong(before) /\ before.state = "escape"
  <2> HIDE DEF e
  <2>1. CASE ch # Bracket
    <3>1. r = [is |-> "parse", ei |-> e]
      BY <1>1, <1>4, <2>1 DEF ParseOne, e
    <3> QED BY <1>1, <3>1 DEF Parsed
  <2>2. CASE ch = Bracket
    <3> DEFINE f == [state |-> "csi", curch |-> ch, params |-> before.params, style |-> before.style]
    <3>1. r = [is |-> "escape", ei |-> f]
      BY <1>1, <1>4, <2>2 DEF ParseOne, e
    <3>2. Interpreter(f) /\ Weight(f) = 2
      BY <1>4 DEF Interpreter, Weight
    <3>3. Weight(before) = 1
      BY <1>4 DEF Weight
    <3> QED BY <3>1, <3>2, <3>3 DEF Parsed
  <2> QED BY <2>1, <2>2
<1>5. CASE ~TooLong(before) /\ before.state = "csi"
  <2> DEFINE p == IF ch = EndM THEN <<0>> ELSE <<>>
             f == [state |-> "params", curch |-> ch, params |-> <<p>>, style |-> before.style]
  <2>1. CASE ch \notin Numbers \cup {EndM}
    <3> HIDE DEF e
    <3>1. r = [is |-> "parse", ei |-> e]
      BY <1>1, <1>5, <2>1 DEF ParseOne, e
    <3> QED BY <1>1, <3>1 DEF Parsed
  <2>2. CASE ch \in Numbers \cup {EndM}
    <3>1. r = InParams(m, f, ch)
      <4> HIDE DEF e
      <4> QED BY <1>1, <1>5, <2>2 DEF ParseOne, e
    <3>2. p \in Seq(Numbers) /\ Len(p) <= 1 /\ Len(p) \in Nat
      BY Grammar
    <3> HIDE DEF e, p
    <3>3. <<p>> \in Seq(Seq(Numbers)) /\ <<p>> # <<>> /\ Len(<<p>>) = 1 /\ Last(<<p>>) = p
      BY <3>2 DEF Last
    <3>4. Interpreter(f) /\ f.state = "params" /\ Weight(f) >= 2
      BY <3>2, <3>3, Grammar DEF Interpreter, Weight
    <3>5. Parsed(f, ch, r)
      <4>1. f.params = <<p>>
        OBVIOUS
      <4>2. Len(f.params) <= MaxParams /\ Len(Last(f.params)) <= 1
        BY <3>2, <3>3, <4>1, Grammar, EscapeAssumption
      <4> HIDE DEF f
      <4> QED BY <3>1, <3>4, <4>2, InParamsResult
    <3>6. Weight(before) = 2 /\ f.style = before.style /\ Weight(f) \in Nat
      BY <1>5, <3>4, WeightBound DEF Weight
    <3> HIDE DEF f, r
    <3>7. r.is = "escape" => Weight(r.ei) \in Nat
      BY <3>5, WeightBound DEF Parsed
    <3>8. r.is # "text"
      BY <3>4, <3>5 DEF Parsed
    <3>9. r.is = "escape" => Weight(r.ei) >= Weight(before) + 1
      BY <3>4, <3>5, <3>6, <3>7 DEF Parsed
    <3> QED BY <3>5, <3>6, <3>8, <3>9 DEF Parsed
  <2> QED BY <2>1, <2>2
<1>6. CASE ~TooLong(before) /\ before.state = "params"
  <2>1. r = InParams(m, e, ch)
    <3> HIDE DEF e
    <3> QED BY <1>1, <1>6 DEF ParseOne, e
  <2>2. Len(before.params) <= MaxParams /\ Len(Last(before.params)) <= 1
    <3>1. before.params \in Seq(Seq(Numbers)) /\ before.params # <<>>
      BY <1>6 DEF Interpreter
    <3>2. Len(before.params) \in Nat /\ Last(before.params) \in Seq(Numbers)
      BY <3>1 DEF Last
    <3>3. Len(Last(before.params)) \in Nat
      BY <3>2
    <3> QED BY <1>6, <3>1, <3>2, <3>3, Grammar DEF TooLong
  <2> HIDE DEF e
  <2>3. Parsed(e, ch, r)
    BY <1>1, <1>6, <2>1, <2>2, InParamsResult
  <2> HIDE DEF r
  <2> QED BY <1>1, <2>3 DEF Parsed
<1> QED BY <1>2, <1>3, <1>4, <1>5, <1>6 DEF Interpreter

-----------------------------------------------------------------------------
(* The invariant.                                                          *)

\* A cell of the text: without a request it has the colours of the view.
Cell(c) == c.chr \in Chars /\ c.call \in 1 .. calls /\ (~asked => c.style = Style)

\* The goroutine that holds writeMutex is the one that writes, and it does the
\* last Write that began; the others are not in Write.
LockInv ==
  /\ job \in [Writers -> [call : 0 .. MaxCalls, runes : Seq(Chars \cup {Newline})]]
  /\ calls \in 0 .. MaxCalls /\ lock \in Writers \cup {Free}
  /\ \A w \in Writers : lock = w => job[w].call = calls /\ calls >= 1
  /\ \A w \in Writers : lock # w => job[w] = Idle
  /\ lock # Free => lines # <<>>

\* The runes of the open sequence are counted by the interpreter.
HeldInv ==
  /\ Interpreter(ei) /\ held \in Seq(Chars)
  /\ (ei.state = "none") = (held = <<>>) /\ Len(held) <= Weight(ei)

\* The text is made of cells, in the order of the Writes, and the colours to
\* come are those of the view until a request.
TextInv ==
  /\ \E S : lines \in Seq(Seq(S)) /\ \A c \in S : Cell(c)
  /\ \A i, k \in DOMAIN Text : i < k => Text[i].call <= Text[k].call
  /\ ~asked => ei.style = Style

\* The reader is in a line, or after the last one.
ReaderInv ==
  /\ reader = [rx |-> reader.rx, ry |-> reader.ry, buffer |-> reader.buffer]
  /\ reader.ry \in 0 .. Len(lines)
  /\ reader.ry < Len(lines) => reader.rx \in 0 .. Len(lines[reader.ry + 1])
  /\ reader.ry = Len(lines) => reader.rx = 0

FlagsInv ==
  mode \in Modes /\ crashed \in BOOLEAN /\ missed \in BOOLEAN
  /\ split \in BOOLEAN /\ asked \in BOOLEAN

StreamInv == LockInv /\ HeldInv /\ TextInv /\ ReaderInv /\ FlagsInv

\* A larger set of elements.
LEMMA WiderSeq ==
  ASSUME NEW S, NEW T, S \subseteq T
  PROVE  Seq(S) \subseteq Seq(T) /\ Seq(Seq(S)) \subseteq Seq(Seq(T))
<1>1. ASSUME NEW A, NEW B, A \subseteq B, NEW s \in Seq(A) PROVE s \in Seq(B)
  <2>1. Len(s) \in Nat /\ s = [i \in 1 .. Len(s) |-> s[i]] /\ \A i \in 1 .. Len(s) : s[i] \in B
    BY <1>1
  <2> DEFINE n == Len(s)
  <2> HIDE DEF n
  <2>2. [i \in 1 .. n |-> s[i]] \in Seq(B)
    BY <2>1 DEF n
  <2> QED BY <2>1, <2>2 DEF n
<1>2. Seq(S) \subseteq Seq(T)
  BY <1>1
<1> QED BY <1>1, <1>2

\* The invariant holds at the start.
LEMMA InitStream == Init => StreamInv
<1> SUFFICES ASSUME Init PROVE StreamInv
  OBVIOUS
<1> USE DEF Init
<1>1. LockInv
  <2>1. Idle \in [call : 0 .. MaxCalls, runes : Seq(Chars \cup {Newline})]
    BY ViewStreamAssumption DEF Idle
  <2> QED BY <2>1, ViewStreamAssumption DEF LockInv
<1>2. HeldInv
  BY StartInterpreter DEF HeldInv, Start
<1>3. TextInv
  <2>1. lines \in Seq(Seq({}))
    OBVIOUS
  <2>2. Text = <<>>
    BY DEF Text, FlattenSeq
  <2> QED BY <2>1, <2>2, StartInterpreter DEF TextInv
<1>4. ReaderInv
  BY DEF ReaderInv, FromStart
<1>5. FlagsInv
  BY DEF FlagsInv
<1> QED BY <1>1, <1>2, <1>3, <1>4, <1>5 DEF StreamInv

\* What the properties take from it.
LEMMA StreamInvHeld == StreamInv => HeldBounded
<1> SUFFICES ASSUME StreamInv PROVE HeldBounded
  OBVIOUS
<1>1. Interpreter(ei) /\ Len(held) \in Nat /\ Len(held) <= Weight(ei)
  BY DEF StreamInv, HeldInv
<1>2. Weight(ei) \in Nat /\ Weight(ei) <= 2 + 2 * (MaxParams + 1)
  BY <1>1, WeightBound
<1> QED BY <1>1, <1>2, Grammar DEF HeldBounded

\* Every cell of the text is one.
LEMMA TextCells ==
  ASSUME StreamInv
  PROVE  /\ \E S : Text \in Seq(S)
         /\ \A i \in DOMAIN Text : i \in Nat /\ Cell(Text[i])
<1>1. PICK S : lines \in Seq(Seq(S)) /\ \A c \in S : Cell(c)
  BY DEF StreamInv, TextInv
<1>2. Text \in Seq(S)
  BY <1>1, FlattenType DEF Text
<1>3. \A i \in DOMAIN Text : i \in Nat /\ Text[i] \in S
  BY <1>2
<1> QED BY <1>1, <1>2, <1>3

\* Cells in the order of the calls are contiguous for each call.
LEMMA StreamInvContiguous == StreamInv => WritesContiguous
<1> SUFFICES ASSUME StreamInv, NEW i \in DOMAIN Text, NEW k \in DOMAIN Text, i < k,
                    Text[i].call = Text[k].call, NEW j \in i .. k
             PROVE  Text[j].call = Text[i].call
  BY DEF WritesContiguous
<1>1. j \in DOMAIN Text /\ i \in Nat /\ k \in Nat
  BY TextCells
<1>2. Text[i].call \in Nat /\ Text[j].call \in Nat
  <2>1. calls \in Nat
    BY ViewStreamAssumption DEF StreamInv, LockInv
  <2> QED BY <1>1, <2>1, TextCells DEF Cell
<1>3. (i < j => Text[i].call <= Text[j].call) /\ (j < k => Text[j].call <= Text[k].call)
  BY <1>1 DEF StreamInv, TextInv
<1>4. CASE j = i
  BY <1>4
<1>5. CASE j = k
  BY <1>5
<1>6. CASE i < j /\ j < k
  BY <1>2, <1>3, <1>6
<1> QED BY <1>1, <1>4, <1>5, <1>6

\* After a Clear the interpreter has the colours of the view.
LEMMA StreamInvForgets == StreamInv => ClearForgets
BY TextCells DEF StreamInv, HeldInv, ClearForgets, Cell

\* The invariant implies the types.
LEMMA StreamInvType == StreamInv => TypeOK
<1> SUFFICES ASSUME StreamInv PROVE TypeOK
  OBVIOUS
<1>1. \A i \in DOMAIN Text : Text[i].chr \in Chars /\ Text[i].call \in 1 .. calls
  BY TextCells DEF Cell
<1>2. \A w \in Writers : job[w] # Idle => job[w].call \in 1 .. calls
  <2>1. \A w \in Writers : job[w] # Idle => job[w].call = calls /\ calls >= 1
    BY DEF StreamInv, LockInv
  <2>2. calls \in Nat
    BY ViewStreamAssumption DEF StreamInv, LockInv
  <2> QED BY <2>1, <2>2
<1>3. ei.state \in {"none", "escape", "csi", "params"} /\ ei.params \in Seq(Seq(Numbers))
  BY DEF StreamInv, HeldInv, Interpreter
<1> QED BY <1>1, <1>2, <1>3 DEF TypeOK, StreamInv, LockInv, ReaderInv, FlagsInv

-----------------------------------------------------------------------------
(* The steps.                                                              *)

\* Lines that stay and grow keep the reader where it is.
LEMMA ReaderStays ==
  ASSUME ReaderInv, reader' = reader,
         NEW S, lines \in Seq(Seq(S)), NEW T, lines' \in Seq(Seq(T)),
         Len(lines') >= Len(lines),
         \A i \in 1 .. Len(lines) : Len(lines'[i]) >= Len(lines[i])
  PROVE  ReaderInv'
<1>1. /\ Len(lines) \in Nat /\ Len(lines') \in Nat
      /\ \A i \in 1 .. Len(lines) : Len(lines[i]) \in Nat
      /\ \A i \in 1 .. Len(lines') : Len(lines'[i]) \in Nat
  <2>1. \A i \in 1 .. Len(lines) : lines[i] \in Seq(S)
    OBVIOUS
  <2>2. \A i \in 1 .. Len(lines') : lines'[i] \in Seq(T)
    OBVIOUS
  <2> QED BY <2>1, <2>2
<1>2. reader'.ry \in 0 .. Len(lines')
  BY <1>1 DEF ReaderInv
<1>3. ASSUME reader.ry < Len(lines') PROVE reader.rx \in 0 .. Len(lines'[reader.ry + 1])
  <2>1. reader.ry + 1 \in 1 .. Len(lines')
    BY <1>1, <1>3 DEF ReaderInv
  <2>2. CASE reader.ry < Len(lines)
    <3>1. reader.ry + 1 \in 1 .. Len(lines) /\ reader.rx \in 0 .. Len(lines[reader.ry + 1])
      BY <1>1, <2>2 DEF ReaderInv
    <3> DEFINE k == reader.ry + 1
    <3>2. k \in 1 .. Len(lines) /\ k \in 1 .. Len(lines') /\ reader.rx \in 0 .. Len(lines[k])
      BY <2>1, <3>1
    <3> HIDE DEF k
    <3>3. Len(lines[k]) \in Nat /\ Len(lines'[k]) \in Nat /\ Len(lines'[k]) >= Len(lines[k])
      BY <1>1, <3>2
    <3>4. reader.rx \in 0 .. Len(lines'[k])
      BY <3>2, <3>3
    <3> QED BY <3>4 DEF k
  <2>3. CASE reader.ry = Len(lines)
    <3>1. reader.rx = 0
      BY <2>3 DEF ReaderInv
    <3> QED BY <1>1, <2>1, <3>1
  <2> QED BY <1>1, <2>2, <2>3 DEF ReaderInv
<1>4. reader.ry = Len(lines') => reader.rx = 0
  BY <1>1 DEF ReaderInv
<1> QED BY <1>2, <1>3, <1>4 DEF ReaderInv

\* Text at the end: cells of the Write that is under way.
LEMMA AddCellsStep ==
  ASSUME StreamInv, lines # <<>>, calls >= 1, calls' = calls, asked' = asked, reader' = reader,
         NEW style, ~asked => style = Style, NEW runes \in Seq(Chars),
         AddCells(calls, style, runes), ei'.style = Style \/ ei'.style = ei.style
  PROVE  TextInv' /\ ReaderInv' /\ lines' # <<>>
<1> DEFINE new == [i \in DOMAIN runes |-> [chr |-> runes[i], style |-> style, call |-> calls]]
           T == {[chr |-> c, style |-> style, call |-> calls] : c \in Chars}
           n == Len(lines)
<1>1. PICK S : lines \in Seq(Seq(S)) /\ \A c \in S : Cell(c)
  BY DEF StreamInv, TextInv
<1> DEFINE U == S \cup T
<1>2. calls \in Nat
  BY ViewStreamAssumption DEF StreamInv, LockInv
<1>3. \A c \in U : Cell(c)'
  <2>1. \A c \in S : Cell(c)'
    BY <1>1 DEF Cell
  <2>2. \A c \in T : Cell(c)'
    BY <1>2 DEF Cell
  <2> QED BY <2>1, <2>2
<1>4. new \in Seq(T)
  <2>1. Len(runes) \in Nat /\ DOMAIN runes = 1 .. Len(runes)
    OBVIOUS
  <2>2. \A i \in DOMAIN runes : [chr |-> runes[i], style |-> style, call |-> calls] \in T
    OBVIOUS
  <2> HIDE DEF T
  <2> QED BY <2>1, <2>2
<1>5. \A i \in DOMAIN new : new[i].call = calls
  OBVIOUS
<1> HIDE DEF T, new
<1>6. lines \in Seq(Seq(U)) /\ new \in Seq(U)
  BY <1>1, <1>4, WiderSeq
<1> HIDE DEF U
<1>7. lines' = [lines EXCEPT ![n] = @ \o new]
  BY DEF AddCells, new
<1>8. n \in Nat /\ n \in 1 .. n /\ lines[n] \in Seq(U) /\ lines[n] \o new \in Seq(U)
  BY <1>6
<1>9. /\ lines' \in Seq(Seq(U)) /\ Len(lines') = n
      /\ \A i \in 1 .. n : lines'[i] = IF i = n THEN lines[n] \o new ELSE lines[i]
  <2> HIDE DEF n
  <2> QED BY <1>6, <1>7, <1>8, ExceptSeq DEF n
<1>10. lines' # <<>>
  BY <1>8, <1>9
<1>11. Text' = Text \o new
  BY <1>6, <1>7, FlattenLast DEF Text
<1>12. Text \in Seq(U)
  BY <1>6, FlattenType DEF Text
<1>13. \A i, k \in DOMAIN Text' : i < k => Text'[i].call <= Text'[k].call
  <2> DEFINE t == Text
             m == Len(Text)
             u == Text'
  <2>1. /\ DOMAIN t = 1 .. m /\ m \in Nat /\ Len(new) \in Nat /\ DOMAIN new = 1 .. Len(new)
        /\ DOMAIN u = 1 .. m + Len(new)
        /\ \A i \in DOMAIN u : u[i] = IF i <= m THEN t[i] ELSE new[i - m]
    <3> HIDE DEF t
    <3> QED BY <1>6, <1>11, <1>12, ConcatProperties DEF t
  <2>2. \A i \in DOMAIN t : t[i].call \in 1 .. calls
    BY TextCells DEF Cell
  <2>3. \A i, k \in DOMAIN t : i < k => t[i].call <= t[k].call
    BY DEF StreamInv, TextInv
  <2> HIDE DEF t, m, u
  <2> SUFFICES ASSUME NEW i \in DOMAIN u, NEW k \in DOMAIN u, i < k
               PROVE  u[i].call <= u[k].call
    BY DEF u
  <2>4. CASE k <= m
    BY <2>1, <2>3, <2>4
  <2>5. CASE ~(k <= m)
    <3>1. k - m \in DOMAIN new
      BY <2>1, <2>5
    <3>2. u[k].call = calls
      BY <1>5, <2>1, <2>5, <3>1
    <3>3. CASE i <= m
      <4>1. i \in DOMAIN t
        BY <2>1, <3>3
      <4> QED BY <1>2, <2>1, <2>2, <3>2, <3>3, <4>1
    <3>4. CASE ~(i <= m)
      <4>1. i - m \in DOMAIN new
        BY <2>1, <3>4
      <4> QED BY <1>2, <1>5, <2>1, <3>2, <3>4, <4>1
    <3> QED BY <3>3, <3>4
  <2> QED BY <2>4, <2>5
<1>14. ~asked' => ei'.style = Style
  BY DEF StreamInv, TextInv
<1>15. TextInv'
  BY <1>3, <1>9, <1>13, <1>14 DEF TextInv
<1>16. \A i \in 1 .. n : Len(lines'[i]) >= Len(lines[i])
  <2>1. \A i \in 1 .. n : Len(lines[i]) \in Nat
    <3>1. \A i \in 1 .. n : lines[i] \in Seq(U)
      BY <1>6
    <3> QED BY <3>1
  <2>2. Len(lines[n] \o new) = Len(lines[n]) + Len(new) /\ Len(new) \in Nat
    BY <1>6, <1>8, ConcatProperties
  <2> HIDE DEF n
  <2> QED BY <1>8, <1>9, <2>1, <2>2
<1>17. ReaderInv'
  BY <1>6, <1>8, <1>9, <1>16, ReaderStays DEF StreamInv
<1> QED BY <1>10, <1>15, <1>17

\* What is written back of a sequence is text.
LEMMA RunesType ==
  ASSUME NEW e, Interpreter(e)
  PROVE  Runes(e) \in Seq(Chars)
<1>1. e.state \in {"none", "escape", "csi", "params"} /\ e.curch \in Chars
      /\ e.params \in Seq(Seq(Numbers))
  BY DEF Interpreter
<1>2. CASE e.state = "none"
  BY <1>2, Grammar DEF Runes
<1>3. CASE e.state = "escape"
  BY <1>1, <1>3, Grammar DEF Runes
<1>4. CASE e.state = "csi"
  BY <1>1, <1>4, Grammar DEF Runes
<1>5. CASE e.state = "params"
  <2> DEFINE ps == e.params
             n == Len(ps)
             parts == [i \in DOMAIN e.params |-> Append(e.params[i], Semi)]
  <2>1. Runes(e) = <<ESC, Bracket>> \o FlattenSeq(parts) \o <<e.curch>>
    BY <1>5 DEF Runes
  <2>2. ASSUME NEW i \in 1 .. n PROVE Append(ps[i], Semi) \in Seq(Chars)
    <3>1. ps[i] \in Seq(Numbers)
      BY <1>1, <2>2
    <3>2. ps[i] \in Seq(Chars)
      BY <3>1, Grammar, WiderSeq
    <3> QED BY <3>2, Grammar
  <2>3. parts \in Seq(Seq(Chars))
    <3>1. n \in Nat /\ DOMAIN ps = 1 .. n
      BY <1>1
    <3> HIDE DEF n
    <3>2. [i \in 1 .. n |-> Append(ps[i], Semi)] \in Seq(Seq(Chars))
      <4> DEFINE F(i) == Append(ps[i], Semi)
      <4>1. \A i \in 1 .. n : F(i) \in Seq(Chars)
        BY <2>2
      <4> HIDE DEF F
      <4>2. [i \in 1 .. n |-> F(i)] \in Seq(Seq(Chars))
        BY <3>1, <4>1
      <4> QED BY <4>2 DEF F
    <3> QED BY <3>1, <3>2
  <2> HIDE DEF parts
  <2>4. FlattenSeq(parts) \in Seq(Chars)
    BY <2>3, FlattenType
  <2>5. <<ESC, Bracket>> \in Seq(Chars) /\ <<e.curch>> \in Seq(Chars)
    BY <1>1, Grammar
  <2> DEFINE middle == FlattenSeq(parts)
  <2> HIDE DEF middle
  <2>6. <<ESC, Bracket>> \o middle \o <<e.curch>> \in Seq(Chars)
    BY <2>4, <2>5 DEF middle
  <2> QED BY <2>1, <2>6 DEF middle
<1> QED BY <1>1, <1>2, <1>3, <1>4, <1>5

\* One rune of a Write.
LEMMA PutRuneStep ==
  ASSUME StreamInv, NEW w \in Writers, PutRune(w)
  PROVE  StreamInv'
<1> DEFINE j == job[w]
           ch == Head(job[w].runes)
           r == ParseOne(mode, ei, ch)
<1>1. lock = w /\ j.call = calls /\ calls >= 1 /\ lines # <<>> /\ w # Free
  BY ViewStreamAssumption DEF StreamInv, LockInv, PutRune
<1>2. /\ j \in [call : 0 .. MaxCalls, runes : Seq(Chars \cup {Newline})]
      /\ j.runes \in Seq(Chars \cup {Newline}) /\ j.runes # <<>>
  BY DEF StreamInv, LockInv, PutRune
<1>3. ch \in Chars \cup {Newline} /\ Tail(j.runes) \in Seq(Chars \cup {Newline})
  BY <1>2
<1>4. UNCHANGED <<mode, lock, calls, missed, reader, got, split>>
  BY DEF PutRune, NotReading
<1>5. /\ job' = [job EXCEPT ![w] = [call |-> j.call, runes |-> Tail(j.runes)]]
      /\ crashed' \in BOOLEAN
  <2>1. job' = [job EXCEPT ![w].runes = Tail(@)] /\ crashed' = (ch # Newline /\ r.is = "panic")
    BY DEF PutRune
  <2>2. j = [call |-> j.call, runes |-> j.runes]
    BY <1>2
  <2>3. [j EXCEPT !.runes = Tail(@)] = [call |-> j.call, runes |-> Tail(j.runes)]
    <3> HIDE DEF j
    <3>1. PICK a, b : j = [call |-> a, runes |-> b]
      BY <2>2
    <3> DEFINE rest == Tail(j.runes)
    <3> HIDE DEF rest
    <3>2. [j EXCEPT !.runes = rest] = [call |-> j.call, runes |-> rest]
      BY <3>1
    <3> QED BY <3>2 DEF rest
  <2> QED BY <2>1, <2>3
<1>6. ASSUME lines' # <<>> PROVE LockInv'
  <2>1. [call |-> j.call, runes |-> Tail(j.runes)]
          \in [call : 0 .. MaxCalls, runes : Seq(Chars \cup {Newline})]
    BY <1>2, <1>3
  <2> HIDE DEF j
  <2> QED BY <1>1, <1>4, <1>5, <1>6, <2>1 DEF StreamInv, LockInv, j
<1>7. ASSUME asked' \in BOOLEAN PROVE FlagsInv'
  BY <1>4, <1>5, <1>7 DEF StreamInv, FlagsInv
<1>8. /\ Interpreter(ei) /\ held \in Seq(Chars) /\ (ei.state = "none") = (held = <<>>)
      /\ Len(held) <= Weight(ei) /\ Weight(ei) \in Nat
      /\ (~asked => ei.style = Style) /\ asked \in BOOLEAN
  BY WeightBound DEF StreamInv, HeldInv, TextInv, FlagsInv
<1>9. CASE ch = Newline /\ lines' = Append(lines, <<>>) /\ UNCHANGED <<ei, held, asked>>
  <2>1. PICK S : lines \in Seq(Seq(S)) /\ \A c \in S : Cell(c)
    BY DEF StreamInv, TextInv
  <2>2. /\ <<>> \in Seq(S) /\ lines' \in Seq(Seq(S)) /\ Len(lines') = Len(lines) + 1
        /\ Len(lines) \in Nat /\ \A i \in 1 .. Len(lines) : lines'[i] = lines[i]
    BY <1>9, <2>1
  <2>3. lines' # <<>>
    BY <2>2
  <2>4. Text' = Text
    <3>1. Text' = Text \o <<>>
      BY <1>9, <2>1, <2>2, FlattenAppend DEF Text
    <3>2. Text \in Seq(S)
      BY <2>1, FlattenType DEF Text
    <3> DEFINE t == Text
    <3> HIDE DEF t
    <3>3. t \o <<>> = t
      BY <3>2, ConcatEmptySeq DEF t
    <3> QED BY <3>1, <3>3 DEF t
  <2>5. TextInv'
    <3>1. \A c \in S : Cell(c)'
      BY <1>4, <1>9, <2>1 DEF Cell
    <3> QED BY <1>9, <2>2, <2>4, <3>1 DEF StreamInv, TextInv
  <2>6. \A i \in 1 .. Len(lines) : Len(lines'[i]) >= Len(lines[i])
    <3>1. \A i \in 1 .. Len(lines) : Len(lines[i]) \in Nat
      <4>1. \A i \in 1 .. Len(lines) : lines[i] \in Seq(S)
        BY <2>1
      <4> QED BY <4>1
    <3> QED BY <2>2, <3>1
  <2>7. ReaderInv'
    BY <1>4, <2>1, <2>2, <2>6, ReaderStays DEF StreamInv
  <2>8. HeldInv'
    BY <1>9 DEF StreamInv, HeldInv
  <2> QED BY <1>6, <1>7, <1>8, <1>9, <2>3, <2>5, <2>7, <2>8 DEF StreamInv
<1>10. ASSUME ch # Newline PROVE ch \in Chars /\ Parsed(ei, ch, r)
  <2>1. ch \in Chars
    BY <1>3, <1>10
  <2> HIDE DEF ch
  <2> QED BY <1>8, <2>1, ParseOneResult
<1> HIDE DEF r, ch
<1>11. CASE /\ ch # Newline /\ r.is = "text"
            /\ AddCells(j.call, ei.style, IF ch = Tab THEN [i \in 1 .. 4 |-> ch] ELSE <<ch>>)
            /\ UNCHANGED <<ei, held, asked>>
  <2> DEFINE runes == IF ch = Tab THEN [i \in 1 .. 4 |-> ch] ELSE <<ch>>
  <2>1. runes \in Seq(Chars)
    BY <1>10, <1>11
  <2> HIDE DEF runes
  <2>2. TextInv' /\ ReaderInv' /\ lines' # <<>>
    <3>1. AddCells(calls, ei.style, runes)
      BY <1>1, <1>11 DEF runes
    <3> QED BY <1>1, <1>4, <1>8, <1>11, <2>1, <3>1, AddCellsStep
  <2>3. HeldInv'
    BY <1>11 DEF StreamInv, HeldInv
  <2> QED BY <1>6, <1>7, <1>8, <1>11, <2>2, <2>3 DEF StreamInv
<1>12. CASE /\ ch # Newline /\ r.is = "escape"
            /\ ei' = r.ei /\ held' = Append(held, ch) /\ UNCHANGED <<lines, asked>>
  <2>1. /\ Interpreter(ei') /\ ei'.style = ei.style /\ ei'.state # "none"
        /\ Weight(ei') >= Weight(ei) + 1 /\ Weight(ei') \in Nat
    BY <1>10, <1>12, WeightBound DEF Parsed
  <2>2. held' \in Seq(Chars) /\ Len(held') = Len(held) + 1 /\ held' # <<>> /\ Len(held) \in Nat
    BY <1>8, <1>10, <1>12
  <2>3. HeldInv'
    <3>1. Len(held') <= Weight(ei')
      BY <1>8, <2>1, <2>2
    <3>2. Weight(ei)' = Weight(ei')
      BY DEF Weight
    <3>3. Interpreter(ei)' = Interpreter(ei')
      BY DEF Interpreter
    <3> QED BY <2>1, <2>2, <3>1, <3>2, <3>3 DEF HeldInv
  <2>4. TextInv' /\ ReaderInv'
    BY <1>4, <1>12, <2>1 DEF StreamInv, TextInv, ReaderInv, Text, Cell
  <2> QED BY <1>1, <1>6, <1>7, <1>8, <1>12, <2>3, <2>4 DEF StreamInv
<1>13. CASE /\ ch # Newline /\ r.is = "request"
            /\ ei' = r.ei /\ held' = <<>> /\ asked' = TRUE /\ UNCHANGED lines
  <2>1. Interpreter(ei') /\ ei'.state = "none"
    BY <1>10, <1>13 DEF Parsed
  <2>2. HeldInv'
    <3>1. Weight(ei') \in Nat
      BY <2>1, WeightBound
    <3> QED BY <1>13, <2>1, <3>1 DEF HeldInv
  <2>3. TextInv' /\ ReaderInv'
    <3>1. PICK S : lines \in Seq(Seq(S)) /\ \A c \in S : Cell(c)
      BY DEF StreamInv, TextInv
    <3>2. \A c \in S : Cell(c)'
      BY <1>4, <1>13, <3>1 DEF Cell
    <3> QED BY <1>4, <1>13, <3>1, <3>2 DEF StreamInv, TextInv, ReaderInv, Text
  <2> QED BY <1>1, <1>6, <1>7, <1>13, <2>2, <2>3 DEF StreamInv
<1>14. CASE ch # Newline /\ r.is \in {"parse", "overlong"} /\ Reject(r, j.call)
  <2>1. Interpreter(r.ei)
    BY <1>10, <1>14 DEF Parsed
  <2>2. Runes(r.ei) \in Seq(Chars)
    BY <2>1, RunesType
  <2>3. AddCells(calls, Style, Runes(r.ei)) /\ ei' = Start /\ held' = <<>> /\ asked' = asked
    BY <1>1, <1>14 DEF Reject
  <2>4. TextInv' /\ ReaderInv' /\ lines' # <<>>
    BY <1>1, <1>4, <2>2, <2>3, StartInterpreter, AddCellsStep
  <2>5. HeldInv'
    BY <2>3, StartInterpreter DEF HeldInv, Start
  <2> QED BY <1>6, <1>7, <1>8, <2>3, <2>4, <2>5 DEF StreamInv
<1>15. CASE ch # Newline /\ r.is = "panic" /\ UNCHANGED <<lines, ei, held, asked>>
  <2>1. HeldInv' /\ TextInv' /\ ReaderInv'
    BY <1>4, <1>15 DEF StreamInv, HeldInv, TextInv, ReaderInv, Text, Cell
  <2> QED BY <1>1, <1>6, <1>7, <1>8, <1>15, <2>1 DEF StreamInv
<1>16. \/ ch = Newline /\ lines' = Append(lines, <<>>) /\ UNCHANGED <<ei, held, asked>>
       \/ /\ ch # Newline /\ r.is = "text"
          /\ AddCells(j.call, ei.style, IF ch = Tab THEN [i \in 1 .. 4 |-> ch] ELSE <<ch>>)
          /\ UNCHANGED <<ei, held, asked>>
       \/ /\ ch # Newline /\ r.is = "escape"
          /\ ei' = r.ei /\ held' = Append(held, ch) /\ UNCHANGED <<lines, asked>>
       \/ /\ ch # Newline /\ r.is = "request"
          /\ ei' = r.ei /\ held' = <<>> /\ asked' = TRUE /\ UNCHANGED lines
       \/ ch # Newline /\ r.is \in {"parse", "overlong"} /\ Reject(r, j.call)
       \/ ch # Newline /\ r.is = "panic" /\ UNCHANGED <<lines, ei, held, asked>>
  BY DEF PutRune, r, ch
<1> QED BY <1>9, <1>11, <1>12, <1>13, <1>14, <1>15, <1>16

\* A Write begins: it takes the mutex when the text ends with the Writes
\* before it, and makes the first line.
LEMMA WriteStep ==
  ASSUME StreamInv, NEW w \in Writers, NEW p \in Inputs, Write(w, p)
  PROVE  StreamInv'
<1> USE DEF Write
<1>1. /\ lock = Free /\ lock' = w /\ calls \in 0 .. MaxCalls /\ calls < MaxCalls
      /\ calls' = calls + 1 /\ MaxCalls \in Nat
      /\ job' = [job EXCEPT ![w] = [call |-> calls + 1, runes |-> p]]
      /\ UNCHANGED <<mode, ei, crashed, held, asked, reader, split>>
  BY ViewStreamAssumption DEF StreamInv, LockInv, NotReading
<1>2. PICK S : lines \in Seq(Seq(S)) /\ \A c \in S : Cell(c)
  BY DEF StreamInv, TextInv
<1>3. \A c \in S : Cell(c)'
  BY <1>1, <1>2 DEF Cell
<1>4. /\ lines' \in Seq(Seq(S)) /\ lines' # <<>> /\ Text' = Text /\ Len(lines') >= Len(lines)
      /\ \A i \in 1 .. Len(lines) : Len(lines'[i]) >= Len(lines[i])
  <2>1. CASE lines = <<>>
    <3>1. <<>> \in Seq(S) /\ lines' = Append(<<>>, <<>>) /\ <<>> \in Seq(Seq(S))
      BY <2>1
    <3>2. FlattenSeq(Append(<<>>, <<>>)) = FlattenSeq(<<>>) \o <<>> /\ FlattenSeq(<<>>) = <<>>
      BY <3>1, FlattenAppend DEF FlattenSeq
    <3>3. Text' = Text
      BY <2>1, <3>1, <3>2 DEF Text
    <3> QED BY <2>1, <3>1, <3>3
  <2>2. CASE lines # <<>>
    <3>1. \A i \in 1 .. Len(lines) : lines[i] \in Seq(S)
      BY <1>2
    <3> QED BY <1>2, <2>2, <3>1 DEF Text
  <2> QED BY <2>1, <2>2
<1>5. LockInv'
  <2>1. p \in Seq(Chars \cup {Newline})
    <3>1. p \in Seq(Letters \cup Numbers \cup {ESC, Bracket, Semi, EndM, Newline, Tab})
      BY ViewStreamAssumption
    <3>2. Letters \cup Numbers \cup {ESC, Bracket, Semi, EndM, Newline, Tab} \subseteq Chars \cup {Newline}
      BY DEF Chars
    <3> QED BY <3>1, <3>2, WiderSeq
  <2>2. \A v \in Writers : job[v] = Idle
    BY <1>1, ViewStreamAssumption DEF StreamInv, LockInv
  <2>3. [call |-> calls + 1, runes |-> p] \in [call : 0 .. MaxCalls, runes : Seq(Chars \cup {Newline})]
    BY <1>1, <2>1
  <2>4. job' \in [Writers -> [call : 0 .. MaxCalls, runes : Seq(Chars \cup {Newline})]]
    BY <1>1, <2>3 DEF StreamInv, LockInv
  <2>5. /\ \A v \in Writers : lock' = v => job'[v].call = calls' /\ calls' >= 1
        /\ \A v \in Writers : lock' # v => job'[v] = Idle
    BY <1>1, <2>2 DEF StreamInv, LockInv
  <2>6. calls' \in 0 .. MaxCalls /\ lock' \in Writers \cup {Free}
    BY <1>1
  <2> QED BY <1>4, <2>4, <2>5, <2>6 DEF LockInv
<1>6. HeldInv'
  BY <1>1 DEF StreamInv, HeldInv
<1>7. TextInv'
  BY <1>1, <1>3, <1>4 DEF StreamInv, TextInv
<1>8. ReaderInv'
  BY <1>1, <1>2, <1>4, ReaderStays DEF StreamInv
<1>9. FlagsInv'
  BY <1>1 DEF StreamInv, FlagsInv
<1> QED BY <1>5, <1>6, <1>7, <1>8, <1>9 DEF StreamInv

\* A Write returns.
LEMMA EndWriteStep ==
  ASSUME StreamInv, NEW w \in Writers, EndWrite(w)
  PROVE  StreamInv'
<1> USE DEF EndWrite
<1>1. UNCHANGED <<mode, ei, lines, calls, crashed, missed, held, asked, reader, got, split>>
  BY DEF NotReading
<1>2. LockInv'
  <2>1. lock = w
    BY DEF StreamInv, LockInv
  <2>2. Idle \in [call : 0 .. MaxCalls, runes : Seq(Chars \cup {Newline})]
    BY ViewStreamAssumption DEF Idle
  <2> QED BY <1>1, <2>1, <2>2, ViewStreamAssumption DEF StreamInv, LockInv
<1>3. HeldInv' /\ FlagsInv'
  BY <1>1 DEF StreamInv, HeldInv, FlagsInv
<1>4. TextInv' /\ ReaderInv'
  BY <1>1 DEF StreamInv, TextInv, ReaderInv, Text, Cell
<1> QED BY <1>2, <1>3, <1>4 DEF StreamInv

\* Clear forgets the text, the sequence and the requests.
LEMMA ClearStep ==
  ASSUME StreamInv, Clear
  PROVE  StreamInv'
<1> USE DEF Clear
<1>1. LockInv'
  BY DEF StreamInv, LockInv
<1>2. HeldInv'
  BY StartInterpreter DEF HeldInv, Start
<1>3. TextInv'
  <2>1. lines' \in Seq(Seq({}))
    OBVIOUS
  <2>2. Text' = <<>>
    BY DEF Text, FlattenSeq
  <2> QED BY <2>1, <2>2, StartInterpreter DEF TextInv
<1>4. ReaderInv'
  <2>1. reader'.rx = 0 /\ reader'.ry = 0 /\ Len(lines') = 0
        /\ reader' = [rx |-> 0, ry |-> 0, buffer |-> <<>>] /\ reader'.buffer = <<>>
    BY DEF FromStart
  <2> QED BY <2>1 DEF ReaderInv
<1>5. FlagsInv'
  BY DEF StreamInv, FlagsInv
<1> QED BY <1>1, <1>2, <1>3, <1>4, <1>5 DEF StreamInv

\* The cells ahead of the reader are at places of the text.
LEMMA AheadPlaces ==
  ASSUME StreamInv
  PROVE  \E P : /\ Ahead \in Seq(P)
               /\ \A a \in P : a.ry \in 0 .. Len(lines) - 1 /\ a.rx \in 0 .. Len(lines[a.ry + 1])
<1> DEFINE n == Len(lines)
           from(y) == IF y - 1 < reader.ry THEN Len(lines[y])
                      ELSE IF y - 1 = reader.ry THEN reader.rx ELSE 0
           rest(y) == [i \in 1 .. Len(lines[y]) - from(y) |->
                         [chr |-> lines[y][from(y) + i].chr, rx |-> from(y) + i, ry |-> y - 1]]
           P == UNION {{rest(y)[i] : i \in 1 .. Len(lines[y]) - from(y)} : y \in 1 .. n}
<1>1. PICK S : lines \in Seq(Seq(S))
  BY DEF StreamInv, TextInv
<1>2. n \in Nat /\ \A y \in 1 .. n : Len(lines[y]) \in Nat
  <2>1. \A y \in 1 .. n : lines[y] \in Seq(S)
    BY <1>1
  <2> QED BY <1>1, <2>1
<1>3. \A y \in 1 .. n : from(y) \in 0 .. Len(lines[y])
  <2>1. reader.ry \in 0 .. n
    BY DEF StreamInv, ReaderInv
  <2> SUFFICES ASSUME NEW y \in 1 .. n PROVE from(y) \in 0 .. Len(lines[y])
    OBVIOUS
  <2>2. CASE y - 1 = reader.ry
    <3>1. reader.rx \in 0 .. Len(lines[reader.ry + 1]) /\ reader.ry + 1 = y
      BY <1>2, <2>1, <2>2 DEF StreamInv, ReaderInv
    <3> QED BY <2>2, <3>1
  <2>3. CASE y - 1 # reader.ry
    BY <1>2, <2>3
  <2> QED BY <2>2, <2>3
<1>4. \A y \in 1 .. n : rest(y) \in Seq(P)
  <2> SUFFICES ASSUME NEW y \in 1 .. n PROVE rest(y) \in Seq(P)
    OBVIOUS
  <2> DEFINE m == Len(lines[y]) - from(y)
  <2>1. m \in Nat
    BY <1>2, <1>3
  <2>2. \A i \in 1 .. m : rest(y)[i] \in P
    OBVIOUS
  <2>3. rest(y) = [i \in 1 .. m |-> rest(y)[i]]
    OBVIOUS
  <2> HIDE DEF m, P, rest
  <2>4. [i \in 1 .. m |-> rest(y)[i]] \in Seq(P)
    BY <2>1, <2>2
  <2> QED BY <2>3, <2>4
<1>5. \A a \in P : a.ry \in 0 .. n - 1 /\ a.rx \in 0 .. Len(lines[a.ry + 1])
  <2> SUFFICES ASSUME NEW y \in 1 .. n, NEW i \in 1 .. Len(lines[y]) - from(y)
               PROVE  LET a == rest(y)[i]
                      IN a.ry \in 0 .. n - 1 /\ a.rx \in 0 .. Len(lines[a.ry + 1])
    OBVIOUS
  <2>1. rest(y)[i].ry = y - 1 /\ rest(y)[i].rx = from(y) + i
    OBVIOUS
  <2>2. from(y) \in 0 .. Len(lines[y]) /\ Len(lines[y]) \in Nat /\ y - 1 + 1 = y
    BY <1>2, <1>3
  <2>3. from(y) + i \in 0 .. Len(lines[y]) /\ y - 1 \in 0 .. n - 1
    <3> HIDE DEF from
    <3> QED BY <1>2, <2>2
  <2> HIDE DEF rest, from
  <2> QED BY <2>1, <2>2, <2>3
<1>6. Ahead \in Seq(P)
  <2>1. Ahead = FlattenSeq([y \in 1 .. n |-> rest(y)])
    BY DEF Ahead
  <2> HIDE DEF P, rest, n
  <2>2. [y \in 1 .. n |-> rest(y)] \in Seq(Seq(P))
    BY <1>2, <1>4
  <2> QED BY <2>1, <2>2, FlattenType
<1> HIDE DEF P
<1> QED BY <1>5, <1>6

\* A Read moves the reader over whole cells, or to the end.
LEMMA ReadStep ==
  ASSUME StreamInv, NEW n \in Lens, Read(n)
  PROVE  StreamInv'
<1> DEFINE runes(k) == Encoded(SubSeq(Ahead, 1, k))
           full == {k \in DOMAIN Ahead : Len(runes(k)) >= n}
           k == Min(full)
<1>1. UNCHANGED <<mode, ei, lines, lock, job, calls, crashed, missed, held, asked>>
  BY DEF Read
<1>2. LockInv' /\ HeldInv'
  BY <1>1 DEF StreamInv, LockInv, HeldInv
<1>3. TextInv'
  BY <1>1 DEF StreamInv, TextInv, Text, Cell
<1>4. /\ reader = [rx |-> reader.rx, ry |-> reader.ry, buffer |-> reader.buffer]
      /\ reader.ry \in 0 .. Len(lines)
      /\ reader.ry < Len(lines) => reader.rx \in 0 .. Len(lines[reader.ry + 1])
      /\ reader.ry = Len(lines) => reader.rx = 0
  BY DEF StreamInv, ReaderInv
<1>5. Len(lines) \in Nat
  <2>1. PICK S : lines \in Seq(Seq(S))
    BY DEF StreamInv, TextInv
  <2> QED BY <2>1
<1>6. ASSUME full # {} PROVE k \in DOMAIN Ahead
  <2>1. PICK P : Ahead \in Seq(P)
    BY AheadPlaces
  <2> DEFINE F == full
  <2>2. F \subseteq Nat /\ F # {} /\ F \subseteq DOMAIN Ahead
    <3>1. DOMAIN Ahead \subseteq Nat
      BY <2>1
    <3> QED BY <1>6, <3>1
  <2> HIDE DEF F
  <2>3. Min(F) \in F
    <3>1. \E x \in F : \A y \in F : x <= y
      BY <2>2, Least
    <3> QED BY <3>1 DEF Min
  <2> QED BY <2>2, <2>3 DEF F
<1>7. ASSUME NEW x, NEW y, NEW b, reader' = [rx |-> x, ry |-> y, buffer |-> b],
             y \in 0 .. Len(lines), y < Len(lines) => x \in 0 .. Len(lines[y + 1]),
             y = Len(lines) => x = 0
      PROVE  ReaderInv'
  <2>1. reader'.rx = x /\ reader'.ry = y /\ reader'.buffer = b
    BY <1>7
  <2> QED BY <1>1, <1>7, <2>1 DEF ReaderInv
<1>8. ASSUME NEW b, reader' = [reader EXCEPT !.buffer = b]
      PROVE  ReaderInv'
  <2>1. PICK x, y, c : reader = [rx |-> x, ry |-> y, buffer |-> c]
    BY <1>4
  <2>2. reader' = [rx |-> x, ry |-> y, buffer |-> b] /\ reader.rx = x /\ reader.ry = y
    BY <1>8, <2>1
  <2> QED BY <1>4, <1>7, <2>2
<1>9. ASSUME full # {}, NEW b, reader' = [rx |-> Ahead[k].rx, ry |-> Ahead[k].ry, buffer |-> b]
      PROVE  ReaderInv'
  <2>1. PICK P : /\ Ahead \in Seq(P)
                 /\ \A a \in P : a.ry \in 0 .. Len(lines) - 1 /\ a.rx \in 0 .. Len(lines[a.ry + 1])
    BY AheadPlaces
  <2> DEFINE a == Ahead[k]
  <2>2. a \in P
    <3>1. k \in DOMAIN Ahead
      BY <1>6, <1>9
    <3> HIDE DEF k
    <3> QED BY <2>1, <3>1
  <2>3. reader' = [rx |-> a.rx, ry |-> a.ry, buffer |-> b]
    BY <1>9
  <2> HIDE DEF a
  <2>4. a.ry \in 0 .. Len(lines) /\ a.ry # Len(lines) /\ a.rx \in 0 .. Len(lines[a.ry + 1])
    BY <1>5, <2>1, <2>2
  <2> QED BY <1>7, <2>3, <2>4
<1>10. ASSUME reader' = [rx |-> IF reader.ry < Len(lines) THEN 0 ELSE reader.rx,
                         ry |-> Max({reader.ry, Len(lines)}), buffer |-> <<>>]
       PROVE  ReaderInv'
  <2>1. Max({reader.ry, Len(lines)}) = Len(lines)
    <3>1. reader.ry \in Nat /\ reader.ry <= Len(lines)
      BY <1>4, <1>5
    <3> DEFINE ry == reader.ry
               len == Len(lines)
               x == Max({ry, len})
    <3>2. \E y \in {ry, len} : \A z \in {ry, len} : y >= z
      BY <1>5, <3>1
    <3>3. x \in {ry, len} /\ x >= ry /\ x >= len
      BY <3>2 DEF Max
    <3> HIDE DEF ry, len, x
    <3>4. x = len
      BY <1>5, <3>1, <3>3 DEF ry, len
    <3> QED BY <3>4 DEF x, ry, len
  <2> DEFINE x == IF reader.ry < Len(lines) THEN 0 ELSE reader.rx
  <2>2. reader' = [rx |-> x, ry |-> Len(lines), buffer |-> <<>>]
    BY <1>10, <2>1
  <2>3. x = 0
    BY <1>4, <1>5
  <2> HIDE DEF x
  <2> QED BY <1>5, <1>7, <2>2, <2>3
<1>11. ReaderInv' /\ split' \in BOOLEAN
  <2>1. split \in BOOLEAN
    BY DEF StreamInv, FlagsInv
  <2> DEFINE left == reader.buffer
             over == Len(runes(k)) - n
             buffer == FoldLeft(LAMBDA b, c : Over(b, Bytes(c.chr)), NoBytes, SubSeq(Ahead, 1, k))
  <2>2. \/ /\ reader' = [reader EXCEPT !.buffer = IF Len(@) > n THEN SubSeq(@, n + 1, Len(@)) ELSE @]
           /\ UNCHANGED split
        \/ /\ full # {}
           /\ reader' = [rx |-> Ahead[k].rx, ry |-> Ahead[k].ry,
                         buffer |-> IF over > 0 THEN SubSeq(buffer, over + 1, 4) ELSE <<>>]
           /\ split' = (split \/ over > 0)
        \/ /\ reader' = [rx |-> IF reader.ry < Len(lines) THEN 0 ELSE reader.rx,
                         ry |-> Max({reader.ry, Len(lines)}), buffer |-> <<>>]
           /\ UNCHANGED split
    BY DEF Read
  <2>3. CASE /\ reader' = [reader EXCEPT !.buffer = IF Len(@) > n THEN SubSeq(@, n + 1, Len(@)) ELSE @]
             /\ UNCHANGED split
    <3> DEFINE b == IF Len(left) > n THEN SubSeq(left, n + 1, Len(left)) ELSE left
    <3>1. reader' = [reader EXCEPT !.buffer = b]
      BY <2>3
    <3> HIDE DEF b
    <3> QED BY <1>8, <2>1, <2>3, <3>1
  <2> HIDE DEF full, k, over, buffer
  <2>4. CASE /\ full # {}
             /\ reader' = [rx |-> Ahead[k].rx, ry |-> Ahead[k].ry,
                           buffer |-> IF over > 0 THEN SubSeq(buffer, over + 1, 4) ELSE <<>>]
             /\ split' = (split \/ over > 0)
    <3> DEFINE b == IF over > 0 THEN SubSeq(buffer, over + 1, 4) ELSE <<>>
    <3>1. reader' = [rx |-> Ahead[k].rx, ry |-> Ahead[k].ry, buffer |-> b] /\ split' \in BOOLEAN
      BY <2>1, <2>4
    <3> HIDE DEF b
    <3> QED BY <1>9, <2>4, <3>1
  <2>5. CASE /\ reader' = [rx |-> IF reader.ry < Len(lines) THEN 0 ELSE reader.rx,
                           ry |-> Max({reader.ry, Len(lines)}), buffer |-> <<>>]
             /\ UNCHANGED split
    BY <1>10, <2>1, <2>5
  <2> QED BY <2>2, <2>3, <2>4, <2>5
<1>12. FlagsInv'
  BY <1>1, <1>11 DEF StreamInv, FlagsInv
<1> QED BY <1>2, <1>3, <1>11, <1>12 DEF StreamInv

-----------------------------------------------------------------------------
\* The invariant holds in every state.
LEMMA StreamInvariant == Spec => []StreamInv
<1>1. ASSUME StreamInv, [Next]_vars PROVE StreamInv'
  <2> USE <1>1
  <2>1. CASE UNCHANGED vars
    BY <2>1 DEF vars, StreamInv, LockInv, HeldInv, TextInv, ReaderInv, FlagsInv, Text, Cell
  <2>2. ASSUME NEW w \in Writers, PutRune(w) PROVE StreamInv'
    BY <2>2, PutRuneStep
  <2>3. ASSUME NEW w \in Writers, EndWrite(w) PROVE StreamInv'
    BY <2>3, EndWriteStep
  <2>4. ASSUME NEW w \in Writers, NEW p \in Inputs, Write(w, p) PROVE StreamInv'
    BY <2>4, WriteStep
  <2>5. ASSUME NEW n \in Lens, Read(n) PROVE StreamInv'
    BY <2>5, ReadStep
  <2> QED BY <2>1, <2>2, <2>3, <2>4, <2>5, ClearStep DEF Next
<1> QED BY <1>1, InitStream, PTL DEF Spec

\* The types of the variables: the text is made of runes of a view, each from
\* a Write that has begun, and the reader is never outside the text.
THEOREM TypeCorrect == Spec => []TypeOK
BY StreamInvariant, StreamInvType, PTL

\* Write holds writeMutex from its first rune to its last: the text of one
\* Write is in one piece, whatever other goroutines write.
THEOREM WritesStayWhole == Spec => []WritesContiguous
BY StreamInvariant, StreamInvContiguous, PTL

\* parseOne gives up on a sequence with too many parameters or a parameter
\* that is too long, so an unfinished one holds back a bounded number of runes.
THEOREM SequencesEnd == Spec => []HeldBounded
BY StreamInvariant, StreamInvHeld, PTL

\* Clear resets the interpreter with the text: a sequence or a colour from
\* before it does not reach the text after it.
THEOREM ClearIsClean == Spec => []ClearForgets
BY StreamInvariant, StreamInvForgets, PTL

-----------------------------------------------------------------------------
(* Read.  FlattenSeq of what is joined, and the bytes of cells.            *)

\* Nothing but empty sequences.
LEMMA FlattenEmpties ==
  ASSUME NEW S, NEW ss \in Seq(Seq(S)), \A i \in 1 .. Len(ss) : ss[i] = <<>>
  PROVE  FlattenSeq(ss) = <<>>
<1> DEFINE E == {}
           n == Len(ss)
<1>1. <<>> \in Seq(E)
  OBVIOUS
<1> HIDE DEF E
<1>2. n \in Nat /\ ss = [i \in 1 .. n |-> ss[i]]
  OBVIOUS
<1> HIDE DEF n
<1>3. [i \in 1 .. n |-> ss[i]] \in Seq(Seq(E))
  BY <1>1, <1>2 DEF n
<1>4. FlattenSeq(ss) \in Seq(E)
  BY <1>2, <1>3, FlattenType
<1> DEFINE f == FlattenSeq(ss)
<1> HIDE DEF f
<1>5. f \in Seq(E)
  BY <1>4 DEF f
<1>6. Len(f) \in Nat /\ \A i \in 1 .. Len(f) : f[i] \in E
  BY <1>5
<1>7. Len(f) = 0
  BY <1>6 DEF E
<1>8. f = <<>>
  BY <1>5, <1>7
<1> QED BY <1>8 DEF f

\* What is joined in two parts.
LEMMA FlattenConcat ==
  ASSUME NEW S, NEW ss \in Seq(Seq(S)), NEW tt \in Seq(Seq(S))
  PROVE  FlattenSeq(ss \o tt) = FlattenSeq(ss) \o FlattenSeq(tt)
<1> DEFINE n == Len(tt)
           U(k) == SubSeq(tt, 1, k)
           Good(k) == FlattenSeq(ss \o U(k)) = FlattenSeq(ss) \o FlattenSeq(U(k))
           T == {k \in 0 .. n : ~Good(k)}
<1>1. n \in Nat /\ U(n) = tt
  BY SubSeqFull
<1>2. FlattenSeq(ss) \in Seq(S)
  BY FlattenType
<1>3. Good(0)
  <2>1. U(0) = <<>>
    BY SubSeqEmpty
  <2>2. ss \o <<>> = ss
    BY ConcatEmptySeq
  <2>3. FlattenSeq(<<>>) = <<>>
    BY DEF FlattenSeq
  <2> DEFINE f == FlattenSeq(ss)
  <2> HIDE DEF f
  <2>4. f \o <<>> = f
    BY <1>2, ConcatEmptySeq DEF f
  <2> QED BY <2>1, <2>2, <2>3, <2>4 DEF f
<1>4. ASSUME NEW k \in 1 .. n, Good(k - 1) PROVE Good(k)
  <2> DEFINE a == U(k - 1)
             x == tt[k]
  <2>1. a \in Seq(Seq(S)) /\ x \in Seq(S) /\ U(k) = Append(a, x)
    <3>1. x \in Seq(S)
      OBVIOUS
    <3>2. a \in Seq(Seq(S))
      <4>1. \A i \in 1 .. k - 1 : tt[i] \in Seq(S)
        BY <1>1
      <4> QED BY <1>1, <4>1, SubSeqProperties
    <3>3. U(k) = a \o <<x>>
      BY <1>1, SubSeqRecursiveSecond
    <3> HIDE DEF a, x
    <3>4. Append(a, x) = a \o <<x>>
      BY <3>1, <3>2, AppendIsConcat
    <3> QED BY <3>1, <3>2, <3>3, <3>4
  <2> HIDE DEF a, x, U
  <2>2. ss \o Append(a, x) = Append(ss \o a, x) /\ ss \o a \in Seq(Seq(S))
    <3>1. ss \o a \in Seq(Seq(S))
      BY <2>1, ConcatProperties
    <3>2. Append(a, x) = a \o <<x>> /\ <<x>> \in Seq(Seq(S))
      BY <2>1, AppendIsConcat
    <3>3. ss \o (a \o <<x>>) = (ss \o a) \o <<x>>
      <4> DEFINE A == Seq(S)
                 q == <<x>>
      <4>1. ss \in Seq(A) /\ a \in Seq(A) /\ q \in Seq(A)
        BY <2>1, <3>2
      <4> HIDE DEF A, q
      <4>2. (ss \o a) \o q = ss \o (a \o q)
        BY <4>1, ConcatAssociative, SMTT(30)
      <4> QED BY <4>2 DEF q
    <3> DEFINE b == ss \o a
    <3> HIDE DEF b
    <3>4. Append(b, x) = b \o <<x>>
      BY <2>1, <3>1, AppendIsConcat DEF b
    <3> QED BY <3>1, <3>2, <3>3, <3>4 DEF b
  <2>3. FlattenSeq(Append(ss \o a, x)) = FlattenSeq(ss \o a) \o x
    BY <2>1, <2>2, FlattenAppend
  <2>4. FlattenSeq(Append(a, x)) = FlattenSeq(a) \o x /\ FlattenSeq(a) \in Seq(S)
    BY <2>1, FlattenAppend, FlattenType
  <2>5. FlattenSeq(ss \o a) = FlattenSeq(ss) \o FlattenSeq(a)
    BY <1>4 DEF a
  <2> DEFINE f == FlattenSeq(ss)
             g == FlattenSeq(a)
  <2> HIDE DEF f, g
  <2>6. (f \o g) \o x = f \o (g \o x)
    <3>1. f \in Seq(S) /\ g \in Seq(S) /\ x \in Seq(S)
      BY <1>2, <2>1, <2>4 DEF f, g
    <3> QED BY <3>1, ConcatAssociative, SMTT(30)
  <2> QED BY <2>1, <2>2, <2>3, <2>4, <2>5, <2>6 DEF f, g
<1>5. \A k \in T : k \in Nat /\ k \in 0 .. n /\ ~Good(k)
  BY <1>1
<1>6. T = {}
  <2> SUFFICES ASSUME T # {} PROVE FALSE
    OBVIOUS
  <2>1. PICK k \in T : \A j \in T : k <= j
    <3> HIDE DEF T
    <3> QED BY <1>5, Least
  <2>2. k # 0
    BY <1>3, <1>5, <2>1
  <2> HIDE DEF Good
  <2>3. k \in 1 .. n /\ k - 1 \in 0 .. n /\ ~(k <= k - 1)
    BY <1>1, <1>5, <2>1, <2>2
  <2>4. Good(k - 1)
    BY <2>1, <2>3
  <2> HIDE DEF T
  <2> QED BY <1>4, <1>5, <2>1, <2>3, <2>4
<1>7. Good(n)
  <2> HIDE DEF Good
  <2> QED BY <1>1, <1>6
<1> HIDE DEF U
<1> QED BY <1>1, <1>7

\* What is joined around one sequence.
LEMMA FlattenAround ==
  ASSUME NEW S, NEW ss \in Seq(Seq(S)), NEW y \in 1 .. Len(ss)
  PROVE  LET a == FlattenSeq(SubSeq(ss, 1, y - 1))
             c == FlattenSeq(SubSeq(ss, y + 1, Len(ss)))
         IN /\ a \in Seq(S) /\ c \in Seq(S)
            /\ FlattenSeq(SubSeq(ss, 1, y)) = a \o ss[y]
            /\ FlattenSeq(ss) = (a \o ss[y]) \o c
<1> DEFINE n == Len(ss)
           pre == SubSeq(ss, 1, y - 1)
           post == SubSeq(ss, y + 1, n)
           upto == SubSeq(ss, 1, y)
<1>1. n \in Nat /\ \A i \in 1 .. n : ss[i] \in Seq(S)
  OBVIOUS
<1>2. pre \in Seq(Seq(S)) /\ post \in Seq(Seq(S)) /\ upto \in Seq(Seq(S)) /\ ss[y] \in Seq(S)
  <2>1. \A i \in 1 .. y - 1 : ss[i] \in Seq(S)
    BY <1>1
  <2>2. \A i \in y + 1 .. n : ss[i] \in Seq(S)
    BY <1>1
  <2>3. \A i \in 1 .. y : ss[i] \in Seq(S)
    BY <1>1
  <2> HIDE DEF n
  <2> QED BY <1>1, <2>1, <2>2, <2>3, SubSeqProperties DEF n
<1>3. upto = Append(pre, ss[y])
  <2>1. upto = pre \o <<ss[y]>>
    BY <1>1, SubSeqRecursiveSecond
  <2> HIDE DEF pre
  <2> QED BY <1>2, <2>1, AppendIsConcat
<1>4. ss = upto \o post
  <2>1. 1 \in 1 .. n + 1 /\ y \in 1 - 1 .. n /\ n \in y .. n
    BY <1>1
  <2>2. SubSeq(ss, 1, n) = upto \o post
    BY <2>1, ConcatAdjacentSubSeq
  <2> QED BY <2>2, SubSeqFull
<1> HIDE DEF pre, post, upto, n
<1>5. FlattenSeq(upto) = FlattenSeq(pre) \o ss[y]
  BY <1>2, <1>3, FlattenAppend
<1>6. FlattenSeq(upto \o post) = FlattenSeq(upto) \o FlattenSeq(post)
  BY <1>2, FlattenConcat
<1>7. FlattenSeq(pre) \in Seq(S) /\ FlattenSeq(post) \in Seq(S)
  BY <1>2, FlattenType
<1> QED BY <1>4, <1>5, <1>6, <1>7 DEF pre, post, upto, n

AllBytes == Chars \X {1, 2}

\* The bytes of each cell.
Codes(cells) == [i \in DOMAIN cells |-> Bytes(cells[i].chr)]

\* The encoding of a text is that of its cells, one after the other.
LEMMA CodesType ==
  ASSUME NEW S, \A c \in S : c.chr \in Chars, NEW s \in Seq(S)
  PROVE  /\ Codes(s) \in Seq(Seq(AllBytes)) /\ Len(Codes(s)) = Len(s)
         /\ Encoded(s) = FlattenSeq(Codes(s)) /\ Encoded(s) \in Seq(AllBytes)
<1> DEFINE n == Len(s)
           F(i) == Bytes(s[i].chr)
<1>1. n \in Nat /\ DOMAIN s = 1 .. n /\ \A i \in 1 .. n : s[i] \in S
  OBVIOUS
<1>2. \A i \in 1 .. n : F(i) \in Seq(AllBytes)
  <2> SUFFICES ASSUME NEW i \in 1 .. n PROVE F(i) \in Seq(AllBytes)
    OBVIOUS
  <2> DEFINE c == s[i].chr
             b1 == <<c, 1>>
             b2 == <<c, 2>>
  <2>1. b1 \in AllBytes /\ b2 \in AllBytes
    BY <1>1 DEF AllBytes
  <2> HIDE DEF b1, b2
  <2>2. <<b1>> \in Seq(AllBytes) /\ <<b1, b2>> \in Seq(AllBytes)
    BY <2>1
  <2>3. F(i) = IF c \in Multi THEN <<b1, b2>> ELSE <<b1>>
    BY DEF Bytes, b1, b2
  <2> QED BY <2>2, <2>3
<1>3. Codes(s) = [i \in 1 .. n |-> F(i)]
  BY <1>1 DEF Codes
<1> HIDE DEF F, n
<1>4. [i \in 1 .. n |-> F(i)] \in Seq(Seq(AllBytes)) /\ Len([i \in 1 .. n |-> F(i)]) = n
  BY <1>1, <1>2
<1>5. Encoded(s) = FlattenSeq(Codes(s))
  BY DEF Encoded, Codes
<1>6. FlattenSeq(Codes(s)) \in Seq(AllBytes)
  BY <1>3, <1>4, FlattenType
<1> QED BY <1>3, <1>4, <1>5, <1>6 DEF n

\* The bytes of two texts, one after the other.
LEMMA EncodedConcat ==
  ASSUME NEW S, \A c \in S : c.chr \in Chars, NEW s \in Seq(S), NEW t \in Seq(S)
  PROVE  Encoded(s \o t) = Encoded(s) \o Encoded(t)
<1> DEFINE u == s \o t
           m == Len(s)
           k == Len(t)
<1>1. /\ u \in Seq(S) /\ Len(u) = m + k /\ m \in Nat /\ k \in Nat
      /\ DOMAIN s = 1 .. m /\ DOMAIN t = 1 .. k /\ DOMAIN u = 1 .. m + k
      /\ \A i \in 1 .. m + k : u[i] = IF i <= m THEN s[i] ELSE t[i - m]
  BY ConcatProperties
<1> HIDE DEF u, m, k
<1>2. /\ Codes(s) \in Seq(Seq(AllBytes)) /\ Codes(t) \in Seq(Seq(AllBytes))
      /\ Codes(u) \in Seq(Seq(AllBytes))
      /\ Len(Codes(s)) = m /\ Len(Codes(t)) = k /\ Len(Codes(u)) = m + k
  BY <1>1, CodesType DEF m, k
<1>3. Codes(u) = Codes(s) \o Codes(t)
  <2> DEFINE a == Codes(s)
             b == Codes(t)
             c == Codes(u)
             B == Seq(AllBytes)
  <2>1. \A i \in 1 .. m : a[i] = Bytes(s[i].chr)
    BY <1>1 DEF Codes
  <2>2. \A i \in 1 .. k : b[i] = Bytes(t[i].chr)
    BY <1>1 DEF Codes
  <2>3. \A i \in 1 .. m + k : c[i] = Bytes(u[i].chr)
    BY <1>1 DEF Codes
  <2>4. /\ a \in Seq(B) /\ b \in Seq(B) /\ c \in Seq(B)
        /\ Len(a) = m /\ Len(b) = k /\ Len(c) = m + k
    BY <1>2
  <2> HIDE DEF a, b, c, B
  <2>5. /\ a \o b \in Seq(B) /\ Len(a \o b) = m + k
        /\ \A i \in 1 .. m + k : (a \o b)[i] = IF i <= m THEN a[i] ELSE b[i - m]
    BY <2>4, ConcatProperties
  <2>6. \A i \in 1 .. m + k : c[i] = (a \o b)[i]
    <3> SUFFICES ASSUME NEW i \in 1 .. m + k PROVE c[i] = (a \o b)[i]
      OBVIOUS
    <3>1. CASE i <= m
      <4>1. i \in 1 .. m
        BY <1>1, <3>1
      <4> QED BY <1>1, <2>1, <2>3, <2>5, <3>1, <4>1
    <3>2. CASE ~(i <= m)
      <4>1. i - m \in 1 .. k
        BY <1>1, <3>2
      <4> QED BY <1>1, <2>2, <2>3, <2>5, <3>2, <4>1
    <3> QED BY <3>1, <3>2
  <2>7. c = a \o b
    BY <2>4, <2>5, <2>6, SeqEqual
  <2> QED BY <2>7 DEF a, b, c
<1>4. FlattenSeq(Codes(s) \o Codes(t)) = FlattenSeq(Codes(s)) \o FlattenSeq(Codes(t))
  BY <1>2, FlattenConcat
<1>5. /\ Encoded(s) = FlattenSeq(Codes(s)) /\ Encoded(t) = FlattenSeq(Codes(t))
      /\ Encoded(u) = FlattenSeq(Codes(u))
  BY DEF Encoded, Codes
<1> QED BY <1>3, <1>4, <1>5 DEF u

\* The bytes depend on the runes alone.
LEMMA EncodedRunes ==
  ASSUME NEW S, NEW s \in Seq(S), NEW T, NEW t \in Seq(T), Len(s) = Len(t),
         \A i \in 1 .. Len(s) : s[i].chr = t[i].chr
  PROVE  Encoded(s) = Encoded(t)
<1>1. DOMAIN s = 1 .. Len(s) /\ DOMAIN t = 1 .. Len(s)
  OBVIOUS
<1>2. Codes(s) = Codes(t)
  BY <1>1 DEF Codes
<1> QED BY <1>2 DEF Encoded, Codes

-----------------------------------------------------------------------------
(* What is ahead of a reader r in some lines ll.                           *)

From(ll, r, y) ==
  IF y - 1 < r.ry THEN Len(ll[y]) ELSE IF y - 1 = r.ry THEN r.rx ELSE 0
Rest(ll, r, y) ==
  [i \in 1 .. Len(ll[y]) - From(ll, r, y) |->
     [chr |-> ll[y][From(ll, r, y) + i].chr, rx |-> From(ll, r, y) + i, ry |-> y - 1]]
Rests(ll, r) == [y \in 1 .. Len(ll) |-> Rest(ll, r, y)]
AheadIn(ll, r) == FlattenSeq(Rests(ll, r))
Place == [chr : Chars, rx : Nat, ry : Nat]

\* A reader that is in a line of ll, or after the last.
InLines(ll, r) ==
  /\ r.ry \in 0 .. Len(ll)
  /\ r.ry < Len(ll) => r.rx \in 0 .. Len(ll[r.ry + 1])

\* The cells ahead of the reader, of the model and of the lemmas.
LEMMA AheadIsIn == Ahead = AheadIn(lines, reader)
BY DEF Ahead, AheadIn, Rests, Rest, From

\* The rest of each line.
RestOf(ll, r, y) ==
  /\ From(ll, r, y) \in 0 .. Len(ll[y]) /\ Len(ll[y]) \in Nat
  /\ Rest(ll, r, y) \in Seq(Place)
  /\ Len(Rest(ll, r, y)) = Len(ll[y]) - From(ll, r, y)
  /\ \A i \in 1 .. Len(ll[y]) - From(ll, r, y) :
       Rest(ll, r, y)[i] = [chr |-> ll[y][From(ll, r, y) + i].chr,
                            rx |-> From(ll, r, y) + i, ry |-> y - 1]

\* What is left of line y begins where the reader is, or at its start.
LEMMA RestType ==
  ASSUME NEW S, \A c \in S : c.chr \in Chars, NEW ll \in Seq(Seq(S)),
         NEW r, InLines(ll, r), NEW y \in 1 .. Len(ll)
  PROVE  RestOf(ll, r, y)
<1> DEFINE f == From(ll, r, y)
           l == Len(ll[y])
           m == l - f
           e(i) == [chr |-> ll[y][f + i].chr, rx |-> f + i, ry |-> y - 1]
<1>1. Len(ll) \in Nat /\ ll[y] \in Seq(S) /\ l \in Nat
  OBVIOUS
<1>2. f \in 0 .. l
  <2>1. r.ry \in 0 .. Len(ll)
    BY DEF InLines
  <2>2. CASE y - 1 = r.ry
    <3>1. r.rx \in 0 .. Len(ll[r.ry + 1]) /\ r.ry + 1 = y
      BY <1>1, <2>1, <2>2 DEF InLines
    <3> QED BY <1>1, <2>1, <2>2, <3>1 DEF From
  <2>3. CASE y - 1 # r.ry
    BY <1>1, <2>3 DEF From
  <2> QED BY <2>2, <2>3
<1>3. Rest(ll, r, y) = [i \in 1 .. m |-> e(i)]
  BY DEF Rest
<1>4. \A i \in 1 .. m : e(i) \in Place
  <2> SUFFICES ASSUME NEW i \in 1 .. m PROVE e(i) \in Place
    OBVIOUS
  <2> HIDE DEF f
  <2>1. f + i \in 1 .. l /\ y - 1 \in Nat
    BY <1>1, <1>2
  <2>2. ll[y][f + i].chr \in Chars
    <3> DEFINE k == f + i
    <3>1. k \in 1 .. Len(ll[y])
      BY <2>1
    <3> HIDE DEF k
    <3>2. ll[y][k] \in S
      BY <1>1, <3>1
    <3> QED BY <3>2 DEF k
  <2> QED BY <2>1, <2>2 DEF Place
<1>5. m \in Nat
  <2> HIDE DEF f, l
  <2> QED BY <1>1, <1>2
<1> HIDE DEF m, e
<1>6. /\ [i \in 1 .. m |-> e(i)] \in Seq(Place) /\ Len([i \in 1 .. m |-> e(i)]) = m
      /\ \A i \in 1 .. m : [j \in 1 .. m |-> e(j)][i] = e(i)
  BY <1>4, <1>5
<1> QED BY <1>1, <1>2, <1>3, <1>6 DEF m, e, RestOf

\* What is left of all lines.
LEMMA RestsType ==
  ASSUME NEW S, \A c \in S : c.chr \in Chars, NEW ll \in Seq(Seq(S)), NEW r, InLines(ll, r)
  PROVE  /\ Rests(ll, r) \in Seq(Seq(Place)) /\ Len(Rests(ll, r)) = Len(ll)
         /\ \A y \in 1 .. Len(ll) : Rests(ll, r)[y] = Rest(ll, r, y)
         /\ AheadIn(ll, r) \in Seq(Place)
<1> DEFINE n == Len(ll)
           e(y) == Rest(ll, r, y)
<1>1. n \in Nat
  OBVIOUS
<1>2. \A y \in 1 .. n : e(y) \in Seq(Place)
  BY RestType DEF RestOf
<1>3. Rests(ll, r) = [y \in 1 .. n |-> e(y)]
  BY DEF Rests
<1> HIDE DEF n, e
<1>4. /\ [y \in 1 .. n |-> e(y)] \in Seq(Seq(Place)) /\ Len([y \in 1 .. n |-> e(y)]) = n
      /\ \A y \in 1 .. n : [z \in 1 .. n |-> e(z)][y] = e(y)
  BY <1>1, <1>2
<1>5. AheadIn(ll, r) \in Seq(Place)
  BY <1>3, <1>4, FlattenType DEF AheadIn
<1> QED BY <1>3, <1>4, <1>5 DEF n, e

\* Nothing is ahead of a reader that is after the last line.
LEMMA AheadAtEnd ==
  ASSUME NEW S, \A c \in S : c.chr \in Chars, NEW ll \in Seq(Seq(S)), NEW r, InLines(ll, r),
         r.ry = Len(ll) \/ (ll = <<<<>>>> /\ r.rx = 0)
  PROVE  AheadIn(ll, r) = <<>>
<1> DEFINE rs == Rests(ll, r)
<1>1. /\ rs \in Seq(Seq(Place)) /\ Len(rs) = Len(ll) /\ Len(ll) \in Nat
      /\ \A y \in 1 .. Len(ll) : rs[y] = Rest(ll, r, y)
  BY RestsType
<1>2. ASSUME NEW y \in 1 .. Len(ll) PROVE Rest(ll, r, y) = <<>>
  <2>1. Len(ll[y]) - From(ll, r, y) = 0
    <3>1. CASE r.ry = Len(ll)
      <4>1. From(ll, r, y) = Len(ll[y]) /\ Len(ll[y]) \in Nat
        BY <1>1, <3>1, RestType DEF From, RestOf
      <4> QED BY <4>1
    <3>2. CASE ll = <<<<>>>>
      <4>1. ll[y] = <<>>
        BY <3>2
      <4>2. Len(ll[y]) = 0 /\ From(ll, r, y) \in 0 .. Len(ll[y])
        BY <4>1, RestType DEF RestOf
      <4> QED BY <4>2
    <3> QED BY <3>1, <3>2
  <2>2. Rest(ll, r, y) \in Seq(Place) /\ Len(Rest(ll, r, y)) = 0
    BY <2>1, RestType DEF RestOf
  <2> QED BY <2>2
<1> HIDE DEF rs
<1>3. FlattenSeq(rs) = <<>>
  BY <1>1, <1>2, FlattenEmpties
<1> QED BY <1>3 DEF AheadIn, rs

\* Cells at the end of the last line are ahead of a reader that is before the
\* end of the text.
LEMMA AheadGrows ==
  ASSUME NEW S, \A c \in S : c.chr \in Chars, NEW ll \in Seq(Seq(S)), ll # <<>>,
         NEW t \in Seq(S), NEW r, InLines(ll, r), r.ry < Len(ll)
  PROVE  LET mm == [ll EXCEPT ![Len(ll)] = @ \o t]
         IN Encoded(AheadIn(mm, r)) = Encoded(AheadIn(ll, r)) \o Encoded(t)
<1> DEFINE n == Len(ll)
           mm == [ll EXCEPT ![n] = @ \o t]
           f == From(ll, r, n)
           l == Len(ll[n])
           k == Len(t)
           add == [i \in 1 .. k |-> [chr |-> t[i].chr, rx |-> l + i, ry |-> n - 1]]
           a == Rest(ll, r, n)
           b == Rest(mm, r, n)
           rs == Rests(ll, r)
           us == Rests(mm, r)
<1>1. /\ n \in Nat /\ n >= 1 /\ n \in 1 .. n /\ ll[n] \in Seq(S) /\ l \in Nat /\ k \in Nat
      /\ r.ry \in 0 .. n - 1
  BY DEF InLines
<1>2. /\ ll[n] \o t \in Seq(S) /\ Len(ll[n] \o t) = l + k
      /\ \A i \in 1 .. l + k : (ll[n] \o t)[i] = IF i <= l THEN ll[n][i] ELSE t[i - l]
  BY <1>1, ConcatProperties
<1>3. /\ mm \in Seq(Seq(S)) /\ Len(mm) = n /\ mm[n] = ll[n] \o t
      /\ \A y \in 1 .. n : y # n => mm[y] = ll[y]
  <2> DEFINE q == ll[n] \o t
  <2> HIDE DEF q
  <2>1. /\ [ll EXCEPT ![n] = q] \in Seq(Seq(S)) /\ Len([ll EXCEPT ![n] = q]) = n
        /\ \A y \in 1 .. n : [ll EXCEPT ![n] = q][y] = IF y = n THEN q ELSE ll[y]
    <3> HIDE DEF n
    <3> QED BY <1>1, <1>2, ExceptSeq DEF q, n
  <2>2. mm = [ll EXCEPT ![n] = q]
    BY DEF q
  <2> HIDE DEF mm, n
  <2> QED BY <1>1, <2>1, <2>2 DEF q
<1> HIDE DEF mm, n
<1>4. InLines(mm, r)
  <2>1. CASE r.ry + 1 = n
    <3>1. r.rx \in 0 .. l /\ Len(mm[n]) = l + k
      BY <1>1, <1>2, <1>3, <2>1 DEF InLines, n
    <3>2. r.rx \in 0 .. Len(mm[r.ry + 1])
      <4>1. r.rx \in 0 .. l + k
        BY <1>1, <3>1
      <4> QED BY <2>1, <3>1, <4>1
    <3> QED BY <1>1, <1>3, <3>2 DEF InLines
  <2>2. CASE r.ry + 1 # n
    <3>1. r.ry + 1 \in 1 .. n
      BY <1>1
    <3>2. mm[r.ry + 1] = ll[r.ry + 1]
      BY <1>3, <2>2, <3>1
    <3> QED BY <1>1, <1>3, <3>2 DEF InLines, n
  <2> QED BY <2>1, <2>2
<1>5. From(mm, r, n) = f /\ f \in 0 .. l
  <2>1. f \in 0 .. l
    BY <1>1, RestType DEF n, RestOf
  <2>2. ~(n - 1 < r.ry)
    BY <1>1
  <2> QED BY <2>1, <2>2 DEF From
<1>6. ASSUME NEW y \in 1 .. n, y # n PROVE Rest(mm, r, y) = Rest(ll, r, y)
  <2>1. mm[y] = ll[y]
    BY <1>3, <1>6
  <2>2. From(mm, r, y) = From(ll, r, y)
    BY <2>1 DEF From
  <2> QED BY <2>1, <2>2, Zenon DEF Rest
<1>7. /\ a \in Seq(Place) /\ Len(a) = l - f
      /\ \A i \in 1 .. l - f : a[i] = [chr |-> ll[n][f + i].chr, rx |-> f + i, ry |-> n - 1]
  <2>1. RestOf(ll, r, n)
    BY <1>1, RestType DEF n
  <2> QED BY <2>1 DEF RestOf
<1>8. /\ b \in Seq(Place) /\ Len(b) = l + k - f
      /\ \A i \in 1 .. l + k - f : b[i] = [chr |-> mm[n][f + i].chr, rx |-> f + i, ry |-> n - 1]
  <2>1. Len(mm[n]) = l + k
    BY <1>2, <1>3
  <2>2. n \in 1 .. Len(mm)
    BY <1>1, <1>3
  <2>3. RestOf(mm, r, n)
    BY <1>3, <1>4, <2>2, RestType
  <2> DEFINE g == From(mm, r, n)
             h == Len(mm[n])
             e(i) == [chr |-> mm[n][g + i].chr, rx |-> g + i, ry |-> n - 1]
  <2>4. b \in Seq(Place) /\ Len(b) = h - g /\ \A i \in 1 .. h - g : b[i] = e(i)
    BY <2>3 DEF RestOf
  <2>5. g = f /\ h = l + k
    BY <1>5, <2>1
  <2>6. \A i \in 1 .. h - g : b[i] = [chr |-> mm[n][f + i].chr, rx |-> f + i, ry |-> n - 1]
    <3> SUFFICES ASSUME NEW i \in 1 .. h - g
                 PROVE  b[i] = [chr |-> mm[n][f + i].chr, rx |-> f + i, ry |-> n - 1]
      OBVIOUS
    <3>1. b[i] = e(i)
      BY <2>4
    <3> HIDE DEF l, f, g, h, b, k
    <3> QED BY <3>1, <2>5
  <2>7. h - g = l + k - f
    <3> HIDE DEF l, f, g, h, k
    <3>1. l \in Nat /\ k \in Nat /\ f \in Int
      BY <1>1, <1>5
    <3> QED BY <2>5, <3>1
  <2> DEFINE x == mm[n]
             d == h - g
  <2> HIDE DEF l, f, g, h, b, k, e, x, d
  <2>8. b \in Seq(Place) /\ Len(b) = d
        /\ \A i \in 1 .. d : b[i] = [chr |-> x[f + i].chr, rx |-> f + i, ry |-> n - 1]
    BY <2>4, <2>6, Zenon DEF d, x
  <2>9. d = l + k - f
    BY <2>7 DEF d
  <2> QED BY <2>8, <2>9, Zenon DEF x
<1>9. /\ add \in Seq(Place) /\ Len(add) = k
      /\ \A i \in 1 .. k : add[i] = [chr |-> t[i].chr, rx |-> l + i, ry |-> n - 1]
  <2> DEFINE e(i) == [chr |-> t[i].chr, rx |-> l + i, ry |-> n - 1]
  <2>1. \A i \in 1 .. k : e(i) \in Place
    <3> SUFFICES ASSUME NEW i \in 1 .. k PROVE e(i) \in Place
      OBVIOUS
    <3>1. t[i] \in S
      OBVIOUS
    <3> QED BY <1>1, <3>1 DEF Place
  <2> HIDE DEF e
  <2>2. /\ [i \in 1 .. k |-> e(i)] \in Seq(Place) /\ Len([i \in 1 .. k |-> e(i)]) = k
        /\ \A i \in 1 .. k : [j \in 1 .. k |-> e(j)][i] = e(i)
    BY <1>1, <2>1
  <2> QED BY <2>2 DEF e
<1> HIDE DEF a, b, add, f, l, k
<1>10. b = a \o add
  <2>1. /\ a \o add \in Seq(Place) /\ Len(a \o add) = l - f + k
        /\ \A i \in 1 .. l - f + k : (a \o add)[i] = IF i <= l - f THEN a[i] ELSE add[i - (l - f)]
    <3>1. /\ a \o add \in Seq(Place) /\ Len(a \o add) = Len(a) + Len(add)
          /\ \A i \in 1 .. Len(a) + Len(add) :
               (a \o add)[i] = IF i <= Len(a) THEN a[i] ELSE add[i - Len(a)]
      BY <1>7, <1>9, ConcatProperties
    <3>2. Len(a) = l - f /\ Len(add) = k
      BY <1>7, <1>9
    <3> QED BY <3>1, <3>2, Zenon
  <2>2. \A i \in 1 .. l + k - f : b[i] = (a \o add)[i]
    <3> SUFFICES ASSUME NEW i \in 1 .. l + k - f PROVE b[i] = (a \o add)[i]
      OBVIOUS
    <3>1. i \in 1 .. l - f + k /\ f + i \in 1 .. l + k
      BY <1>1, <1>5
    <3>2. CASE i <= l - f
      <4>1. i \in 1 .. l - f /\ f + i <= l
        BY <1>1, <1>5, <3>2
      <4>2. mm[n][f + i] = ll[n][f + i]
        BY <1>2, <1>3, <3>1, <4>1
      <4> QED BY <1>7, <1>8, <2>1, <3>1, <3>2, <4>1, <4>2
    <3>3. CASE ~(i <= l - f)
      <4>1. i - (l - f) \in 1 .. k /\ ~(f + i <= l) /\ f + i - l = i - (l - f)
            /\ l + (i - (l - f)) = f + i
        BY <1>1, <1>5, <3>3
      <4>2. mm[n][f + i] = t[i - (l - f)]
        <5> DEFINE q == f + i
        <5>1. q \in 1 .. l + k /\ ~(q <= l) /\ q - l = i - (l - f)
          BY <1>1, <1>5, <3>1, <4>1
        <5> HIDE DEF q
        <5>2. (ll[n] \o t)[q] = t[q - l]
          BY <1>2, <5>1
        <5> QED BY <1>3, <5>1, <5>2 DEF q
      <4>3. add[i - (l - f)] = [chr |-> t[i - (l - f)].chr, rx |-> f + i, ry |-> n - 1]
        BY <1>9, <4>1
      <4> QED BY <1>8, <2>1, <3>1, <3>3, <4>2, <4>3
    <3> QED BY <3>2, <3>3
  <2>3. Len(b) = Len(a \o add) /\ l + k - f = l - f + k
    BY <1>1, <1>5, <1>8, <2>1
  <2> QED BY <1>8, <2>1, <2>2, <2>3, SeqEqual
<1>11. /\ rs \in Seq(Seq(Place)) /\ Len(rs) = n /\ rs # <<>> /\ rs[n] = a
       /\ \A y \in 1 .. n : rs[y] = Rest(ll, r, y)
  <2>1. /\ rs \in Seq(Seq(Place)) /\ Len(rs) = n
        /\ \A y \in 1 .. n : rs[y] = Rest(ll, r, y)
    BY RestsType DEF n
  <2> HIDE DEF rs
  <2> QED BY <1>1, <2>1 DEF a
<1>12. /\ us \in Seq(Seq(Place)) /\ Len(us) = n /\ us[n] = b
       /\ \A y \in 1 .. n : us[y] = Rest(mm, r, y)
  <2>1. /\ us \in Seq(Seq(Place)) /\ Len(us) = Len(mm)
        /\ \A y \in 1 .. Len(mm) : us[y] = Rest(mm, r, y)
    BY <1>3, <1>4, RestsType
  <2> HIDE DEF us
  <2> QED BY <1>1, <1>3, <2>1 DEF b
<1> HIDE DEF rs, us
<1>13. us = [rs EXCEPT ![Len(rs)] = @ \o add]
  <2> DEFINE v == rs[n] \o add
             A == Seq(Place)
             vs == [rs EXCEPT ![n] = v]
  <2>1. v \in A /\ v = b
    BY <1>8, <1>10, <1>11
  <2> HIDE DEF v, A
  <2>2. vs \in Seq(A) /\ Len(vs) = n /\ \A y \in 1 .. n : vs[y] = IF y = n THEN v ELSE rs[y]
    BY <1>1, <1>11, <2>1, ExceptSeq DEF A
  <2>3. \A y \in 1 .. n : us[y] = vs[y]
    BY <1>6, <1>11, <1>12, <2>1, <2>2
  <2>4. us \in Seq(A)
    BY <1>12 DEF A
  <2> HIDE DEF vs
  <2>5. us = vs
    BY <1>12, <2>2, <2>3, <2>4, SeqEqual
  <2> QED BY <1>11, <2>5 DEF vs, v
<1>14. FlattenSeq(us) = FlattenSeq(rs) \o add
  BY <1>9, <1>11, <1>13, FlattenLast
<1>15. FlattenSeq(rs) \in Seq(Place)
  BY <1>11, FlattenType
<1> DEFINE g == FlattenSeq(rs)
<1> HIDE DEF g
<1>16. Encoded(g \o add) = Encoded(g) \o Encoded(add)
  <2>1. \A p \in Place : p.chr \in Chars
    BY DEF Place
  <2> QED BY <1>9, <1>15, <2>1, EncodedConcat DEF g
<1>17. Encoded(add) = Encoded(t)
  <2>1. \A i \in 1 .. k : add[i].chr = t[i].chr
    BY <1>9
  <2> QED BY <1>9, <2>1, EncodedRunes DEF k
<1> QED BY <1>14, <1>16, <1>17 DEF AheadIn, rs, us, g, mm, n

\* So is a new line, but it has no cells yet.
LEMMA AheadNewLine ==
  ASSUME NEW S, \A c \in S : c.chr \in Chars, NEW ll \in Seq(Seq(S)),
         NEW r, InLines(ll, r), r.ry < Len(ll)
  PROVE  AheadIn(Append(ll, <<>>), r) = AheadIn(ll, r)
<1> DEFINE n == Len(ll)
           mm == Append(ll, <<>>)
           rs == Rests(ll, r)
           us == Rests(mm, r)
<1>1. <<>> \in Seq(S)
  OBVIOUS
<1>2. /\ n \in Nat /\ mm \in Seq(Seq(S)) /\ Len(mm) = n + 1 /\ mm[n + 1] = <<>>
      /\ \A y \in 1 .. n : mm[y] = ll[y]
  BY <1>1
<1> HIDE DEF mm
<1>3. InLines(mm, r)
  <2>1. r.ry + 1 \in 1 .. n /\ r.rx \in 0 .. Len(ll[r.ry + 1])
    <3>1. r.ry \in 0 .. n /\ r.ry < n /\ r.rx \in 0 .. Len(ll[r.ry + 1])
      BY DEF InLines, n
    <3>2. n \in Nat
      BY <1>2
    <3> HIDE DEF n
    <3>3. r.ry + 1 \in 1 .. n
      BY <3>1, <3>2
    <3> QED BY <3>1, <3>3
  <2>2. mm[r.ry + 1] = ll[r.ry + 1] /\ r.ry \in 0 .. Len(mm)
    <3>1. r.ry \in 0 .. n /\ n \in Nat
      BY <1>2 DEF InLines, n
    <3> HIDE DEF n
    <3>2. r.ry \in 0 .. n + 1
      BY <3>1
    <3> QED BY <1>2, <2>1, <3>2
  <2> QED BY <2>1, <2>2 DEF InLines
<1>4. /\ rs \in Seq(Seq(Place)) /\ Len(rs) = n
      /\ \A y \in 1 .. n : rs[y] = Rest(ll, r, y)
  BY RestsType
<1>5. /\ us \in Seq(Seq(Place)) /\ Len(us) = n + 1
      /\ \A y \in 1 .. n + 1 : us[y] = Rest(mm, r, y)
  BY <1>2, <1>3, RestsType
<1> HIDE DEF rs, us, n
<1>6. Rest(mm, r, n + 1) = <<>>
  <2>1. n + 1 \in 1 .. Len(mm) /\ Len(mm[n + 1]) = 0
    BY <1>2
  <2>2. /\ Rest(mm, r, n + 1) \in Seq(Place)
        /\ Len(Rest(mm, r, n + 1)) = Len(mm[n + 1]) - From(mm, r, n + 1)
        /\ From(mm, r, n + 1) \in 0 .. Len(mm[n + 1])
    <3>1. RestOf(mm, r, n + 1)
      BY <1>2, <1>3, <2>1, RestType
    <3> QED BY <3>1 DEF RestOf
  <2>3. Len(Rest(mm, r, n + 1)) = 0
    BY <2>1, <2>2
  <2> QED BY <2>2, <2>3
<1>7. \A y \in 1 .. n : us[y] = rs[y]
  <2>1. ASSUME NEW y \in 1 .. n PROVE Rest(mm, r, y) = Rest(ll, r, y)
    <3>1. mm[y] = ll[y]
      BY <1>2
    <3>2. From(mm, r, y) = From(ll, r, y)
      BY <3>1 DEF From
    <3> QED BY <3>1, <3>2, Zenon DEF Rest
  <2>2. \A y \in 1 .. n : y \in 1 .. n + 1
    BY <1>2
  <2>3. \A y \in 1 .. n : us[y] = Rest(mm, r, y) /\ rs[y] = Rest(ll, r, y)
    BY <1>4, <1>5, <2>2, Zenon
  <2> QED BY <2>1, <2>3, Zenon
<1>8. us = Append(rs, <<>>)
  <2> DEFINE A == Seq(Place)
             e == <<>>
             vs == Append(rs, e)
  <2>1. e \in A /\ rs \in Seq(A) /\ us \in Seq(A)
    BY <1>4, <1>5
  <2> HIDE DEF A, e
  <2>2. vs \in Seq(A) /\ Len(vs) = n + 1 /\ vs[n + 1] = e /\ \A y \in 1 .. n : vs[y] = rs[y]
    BY <1>2, <1>4, <2>1
  <2>3. us[n + 1] = e
    BY <1>2, <1>5, <1>6 DEF e
  <2> HIDE DEF vs
  <2>4. \A y \in 1 .. n + 1 : us[y] = vs[y]
    <3> SUFFICES ASSUME NEW y \in 1 .. n + 1 PROVE us[y] = vs[y]
      OBVIOUS
    <3>1. y = n + 1 \/ y \in 1 .. n
      <4>1. n \in Nat
        BY <1>2
      <4> QED BY <4>1
    <3> QED BY <1>7, <2>2, <2>3, <3>1, Zenon
  <2>5. us = vs
    BY <1>5, <2>1, <2>2, <2>4, SeqEqual
  <2> QED BY <2>5 DEF vs, e
<1>9. FlattenSeq(Append(rs, <<>>)) = FlattenSeq(rs) \o <<>> /\ FlattenSeq(rs) \in Seq(Place)
  <2>1. <<>> \in Seq(Place)
    OBVIOUS
  <2> QED BY <1>4, <2>1, FlattenAppend, FlattenType
<1> DEFINE g == FlattenSeq(rs)
<1> HIDE DEF g
<1>10. g \o <<>> = g
  BY <1>9, ConcatEmptySeq DEF g
<1> QED BY <1>8, <1>9, <1>10 DEF AheadIn, rs, us, g, mm

\* What comes after a place in the middle of three parts.
Middle(a, b, c, i) ==
  LET s == (a \o b) \o c
  IN /\ s[Len(a) + i] = b[i]
     /\ SubSeq(s, Len(a) + i + 1, Len(s)) = SubSeq(b, i + 1, Len(b)) \o c

\* An element of the middle of three sequences, and what follows it.
LEMMA AfterMiddle ==
  ASSUME NEW A, NEW a \in Seq(A), NEW b \in Seq(A), NEW c \in Seq(A), NEW i \in 1 .. Len(b)
  PROVE  Middle(a, b, c, i)
<1> DEFINE ab == a \o b
           s == ab \o c
           x == Len(a)
           y == Len(b)
           z == Len(c)
           u == SubSeq(b, i + 1, y)
           v == SubSeq(s, x + i + 1, Len(s))
           w == u \o c
<1>1. /\ x \in Nat /\ y \in Nat /\ z \in Nat /\ i \in 1 .. y
      /\ \A j \in 1 .. y : b[j] \in A
  OBVIOUS
<1>2. /\ ab \in Seq(A) /\ Len(ab) = x + y
      /\ \A j \in 1 .. x + y : ab[j] = IF j <= x THEN a[j] ELSE b[j - x]
  BY ConcatProperties
<1> HIDE DEF ab
<1>3. /\ s \in Seq(A) /\ Len(s) = x + y + z
      /\ \A j \in 1 .. x + y + z : s[j] = IF j <= x + y THEN ab[j] ELSE c[j - (x + y)]
  <2>1. /\ s \in Seq(A) /\ Len(s) = Len(ab) + z
        /\ \A j \in 1 .. Len(ab) + z : s[j] = IF j <= Len(ab) THEN ab[j] ELSE c[j - Len(ab)]
    <3> HIDE DEF x, y
    <3>1. ab \in Seq(A) /\ c \in Seq(A)
      BY <1>2
    <3> QED BY <3>1, ConcatProperties, SMTT(30)
  <2>2. Len(ab) = x + y
    BY <1>2
  <2> HIDE DEF s, x, y, z
  <2> QED BY <2>1, <2>2, Zenon
<1> HIDE DEF s, x, y, z
<1>4. \A j \in 1 .. y : s[x + j] = b[j]
  <2> SUFFICES ASSUME NEW j \in 1 .. y PROVE s[x + j] = b[j]
    OBVIOUS
  <2> DEFINE k == x + j
  <2>1. k \in 1 .. x + y + z /\ k <= x + y /\ k \in 1 .. x + y /\ ~(k <= x) /\ k - x = j
    BY <1>1
  <2> HIDE DEF k
  <2> QED BY <1>2, <1>3, <2>1 DEF k
<1>5. \A j \in 1 .. z : s[x + y + j] = c[j]
  <2> SUFFICES ASSUME NEW j \in 1 .. z PROVE s[x + y + j] = c[j]
    OBVIOUS
  <2> DEFINE k == x + y + j
  <2>1. k \in 1 .. x + y + z /\ ~(k <= x + y) /\ k - (x + y) = j
    BY <1>1
  <2> HIDE DEF k
  <2> QED BY <1>3, <2>1 DEF k
<1>6. u \in Seq(A) /\ Len(u) = y - i /\ \A j \in 1 .. y - i : u[j] = b[i + j]
  <2>1. i + 1 \in Int /\ y \in Int /\ \A j \in i + 1 .. y : b[j] \in A
    BY <1>1
  <2>2. /\ u \in Seq(A) /\ Len(u) = IF i + 1 <= y THEN y - (i + 1) + 1 ELSE 0
        /\ \A j \in 1 .. y - (i + 1) + 1 : u[j] = b[i + 1 + j - 1]
    BY <2>1, SubSeqProperties
  <2> HIDE DEF u
  <2>3. Len(u) = y - i
    BY <1>1, <2>2
  <2>4. ASSUME NEW j \in 1 .. y - i PROVE u[j] = b[i + j]
    <3>1. j \in 1 .. y - (i + 1) + 1 /\ i + 1 + j - 1 = i + j
      BY <1>1
    <3> QED BY <2>2, <3>1
  <2> QED BY <2>2, <2>3, <2>4
<1>7. v \in Seq(A) /\ Len(v) = y - i + z /\ \A j \in 1 .. y - i + z : v[j] = s[x + i + j]
  <2> DEFINE m == x + i + 1
             n == Len(s)
  <2>1. m \in Int /\ n \in Int /\ \A j \in m .. n : s[j] \in A
    BY <1>1, <1>3
  <2>2. m = x + i + 1 /\ n = x + y + z
    BY <1>3
  <2> HIDE DEF m, n
  <2>3. /\ SubSeq(s, m, n) \in Seq(A) /\ Len(SubSeq(s, m, n)) = IF m <= n THEN n - m + 1 ELSE 0
        /\ \A j \in 1 .. n - m + 1 : SubSeq(s, m, n)[j] = s[m + j - 1]
    BY <2>1, SubSeqProperties
  <2>4. v = SubSeq(s, m, n)
    BY DEF m, n
  <2> HIDE DEF v
  <2>5. Len(v) = y - i + z
    BY <1>1, <2>2, <2>3, <2>4
  <2>6. ASSUME NEW j \in 1 .. y - i + z PROVE v[j] = s[x + i + j]
    <3>1. j \in 1 .. n - m + 1 /\ m + j - 1 = x + i + j
      BY <1>1, <2>2
    <3> QED BY <2>3, <2>4, <3>1
  <2> QED BY <2>3, <2>4, <2>5, <2>6
<1> HIDE DEF u, v
<1>8. /\ w \in Seq(A) /\ Len(w) = y - i + z
      /\ \A j \in 1 .. y - i + z : w[j] = IF j <= y - i THEN u[j] ELSE c[j - (y - i)]
  <2>1. /\ w \in Seq(A) /\ Len(w) = Len(u) + z
        /\ \A j \in 1 .. Len(u) + z : w[j] = IF j <= Len(u) THEN u[j] ELSE c[j - Len(u)]
    BY <1>6, ConcatProperties DEF z
  <2>2. Len(u) = y - i
    BY <1>6
  <2> HIDE DEF w
  <2> QED BY <2>1, <2>2, Zenon
<1> HIDE DEF w
<1>9. \A j \in 1 .. y - i + z : v[j] = w[j]
  <2> SUFFICES ASSUME NEW j \in 1 .. y - i + z PROVE v[j] = w[j]
    OBVIOUS
  <2>1. v[j] = s[x + i + j]
    BY <1>7
  <2>2. CASE j <= y - i
    <3>1. j \in 1 .. y - i /\ i + j \in 1 .. y /\ x + (i + j) = x + i + j
      BY <1>1, <2>2
    <3>2. s[x + (i + j)] = b[i + j]
      BY <1>4, <3>1
    <3> QED BY <1>6, <1>8, <2>1, <2>2, <3>1, <3>2
  <2>3. CASE ~(j <= y - i)
    <3> DEFINE k == j - (y - i)
    <3>1. k \in 1 .. z /\ x + y + k = x + i + j
      BY <1>1, <2>3
    <3> HIDE DEF k
    <3>2. s[x + y + k] = c[k]
      BY <1>5, <3>1
    <3> QED BY <1>8, <2>1, <2>3, <3>1, <3>2 DEF k
  <2> QED BY <2>2, <2>3
<1>10. v = w
  BY <1>7, <1>8, <1>9, SeqEqual
<1> QED BY <1>1, <1>4, <1>10 DEF v, w, u, s, ab, x, y, Middle

\* From a cell on, what is ahead is what came after it.
LEMMA AfterPlace ==
  ASSUME NEW S, \A c \in S : c.chr \in Chars, NEW ll \in Seq(Seq(S)), NEW r, InLines(ll, r),
         NEW k \in 1 .. Len(AheadIn(ll, r)), NEW q,
         q.rx = AheadIn(ll, r)[k].rx, q.ry = AheadIn(ll, r)[k].ry
  PROVE  /\ InLines(ll, q) /\ q.ry < Len(ll)
         /\ AheadIn(ll, q) = SubSeq(AheadIn(ll, r), k + 1, Len(AheadIn(ll, r)))
<1> DEFINE ss == Rests(ll, r)
           n == Len(ll)
           upto(y) == FlattenSeq(SubSeq(ss, 1, y))
           Y == {y \in 1 .. n : Len(upto(y)) >= k}
<1>1. /\ ss \in Seq(Seq(Place)) /\ Len(ss) = n /\ n \in Nat
      /\ \A y \in 1 .. n : ss[y] = Rest(ll, r, y)
      /\ AheadIn(ll, r) = FlattenSeq(ss) /\ FlattenSeq(ss) \in Seq(Place)
  BY RestsType DEF AheadIn
<1>2. k \in Nat /\ k >= 1 /\ k <= Len(FlattenSeq(ss))
  <2> DEFINE f == FlattenSeq(ss)
  <2>1. f \in Seq(Place) /\ k \in 1 .. Len(f)
    BY <1>1
  <2> HIDE DEF f
  <2>2. Len(f) \in Nat
    BY <2>1
  <2>3. k \in Nat /\ k >= 1 /\ k <= Len(f)
    BY <2>1, <2>2
  <2> QED BY <2>3 DEF f
<1>3. n >= 1 /\ upto(n) = FlattenSeq(ss)
  <2>1. SubSeq(ss, 1, n) = ss
    BY <1>1, SubSeqFull
  <2>2. n # 0
    <3> SUFFICES ASSUME n = 0 PROVE FALSE
      OBVIOUS
    <3> HIDE DEF ss, n
    <3>1. ss = <<>>
      BY <1>1
    <3>2. FlattenSeq(ss) = <<>>
      BY <3>1 DEF FlattenSeq
    <3> QED BY <1>2, <3>2
  <2>3. upto(n) = FlattenSeq(ss)
    BY <2>1
  <2>4. n >= 1
    <3> HIDE DEF n
    <3> QED BY <1>1, <2>2
  <2> QED BY <2>3, <2>4
<1> HIDE DEF ss, n
<1>4. PICK y \in 1 .. n : Len(upto(y)) >= k /\ (y = 1 \/ ~(Len(upto(y - 1)) >= k))
  <2>1. n \in Y
    BY <1>1, <1>2, <1>3
  <2>2. Y \subseteq Nat /\ Y # {} /\ \A y \in Y : y \in 1 .. n /\ Len(upto(y)) >= k
    BY <2>1
  <2>3. \A y \in 1 .. n : Len(upto(y)) >= k => y \in Y
    OBVIOUS
  <2> HIDE DEF Y, upto
  <2>4. PICK y \in Y : \A z \in Y : y <= z
    BY <2>2, Least
  <2>5. ASSUME y # 1 PROVE ~(Len(upto(y - 1)) >= k)
    <3>1. y - 1 \in 1 .. n /\ ~(y <= y - 1)
      BY <1>1, <2>2, <2>4, <2>5
    <3> QED BY <2>3, <2>4, <3>1
  <2> QED BY <2>2, <2>4, <2>5
<1> DEFINE a == upto(y - 1)
           b == ss[y]
           c == FlattenSeq(SubSeq(ss, y + 1, n))
           x == Len(a)
           f == From(ll, r, y)
           l == Len(ll[y])
<1>5. /\ a \in Seq(Place) /\ b \in Seq(Place) /\ c \in Seq(Place)
      /\ upto(y) = a \o b /\ FlattenSeq(ss) = (a \o b) \o c
  <2>1. y \in 1 .. Len(ss)
    BY <1>1
  <2>2. ss \in Seq(Seq(Place)) /\ n = Len(ss)
    BY <1>1
  <2>3. b \in Seq(Place)
    BY <2>1, <2>2
  <2>4. /\ FlattenSeq(SubSeq(ss, 1, y - 1)) \in Seq(Place)
        /\ FlattenSeq(SubSeq(ss, y + 1, Len(ss))) \in Seq(Place)
        /\ FlattenSeq(SubSeq(ss, 1, y)) = FlattenSeq(SubSeq(ss, 1, y - 1)) \o ss[y]
        /\ FlattenSeq(ss) = (FlattenSeq(SubSeq(ss, 1, y - 1)) \o ss[y])
                               \o FlattenSeq(SubSeq(ss, y + 1, Len(ss)))
    BY <2>1, <2>2, FlattenAround
  <2> QED BY <2>2, <2>3, <2>4
<1>6. x \in Nat /\ Len(upto(y)) = x + Len(b) /\ Len(b) \in Nat /\ x < k
  <2>1. x \in Nat /\ Len(b) \in Nat
    BY <1>5
  <2>2. Len(upto(y)) = x + Len(b)
    <3> HIDE DEF a, b, upto
    <3>1. Len(a \o b) = Len(a) + Len(b)
      BY <1>5, ConcatProperties
    <3> QED BY <1>5, <3>1
  <2>3. x < k
    <3>1. CASE y = 1
      <4>1. SubSeq(ss, 1, y - 1) = <<>>
        BY <3>1, SubSeqEmpty
      <4>2. a = <<>>
        BY <4>1 DEF FlattenSeq
      <4> HIDE DEF a
      <4>3. x = 0
        BY <4>2
      <4> QED BY <1>2, <4>3
    <3>2. CASE ~(x >= k)
      BY <1>2, <2>1, <3>2
    <3> QED BY <1>4, <3>1, <3>2
  <2> QED BY <2>1, <2>2, <2>3
<1> DEFINE i == k - x
<1>7. i \in 1 .. Len(b) /\ i \in Nat /\ x + i = k
  <2> HIDE DEF b, a, upto
  <2> QED BY <1>2, <1>4, <1>6
<1> HIDE DEF a, b, c, x, i, upto
<1>8. /\ AheadIn(ll, r)[k] = b[i]
      /\ SubSeq(AheadIn(ll, r), k + 1, Len(AheadIn(ll, r))) = SubSeq(b, i + 1, Len(b)) \o c
  <2> DEFINE s == (a \o b) \o c
  <2>1. s[Len(a) + i] = b[i] /\ SubSeq(s, Len(a) + i + 1, Len(s)) = SubSeq(b, i + 1, Len(b)) \o c
    <3>1. a \in Seq(Place) /\ b \in Seq(Place) /\ c \in Seq(Place) /\ i \in 1 .. Len(b)
      BY <1>5, <1>7
    <3>2. Middle(a, b, c, i)
      BY <3>1, AfterMiddle
    <3> QED BY <3>2 DEF Middle
  <2>2. AheadIn(ll, r) = s /\ Len(a) + i = k
    BY <1>1, <1>5, <1>7 DEF x
  <2> HIDE DEF s
  <2> QED BY <2>1, <2>2
<1>9. /\ f \in 0 .. l /\ l \in Nat /\ Len(b) = l - f
      /\ \A j \in 1 .. l - f : b[j] = [chr |-> ll[y][f + j].chr, rx |-> f + j, ry |-> y - 1]
  <2>1. RestOf(ll, r, y) /\ b = Rest(ll, r, y)
    BY <1>1, RestType DEF b, n
  <2> QED BY <2>1 DEF RestOf
<1>10. r.ry \in 0 .. n /\ ~(y - 1 < r.ry)
  <2>1. r.ry \in 0 .. n
    BY DEF InLines, n
  <2>2. y - 1 < r.ry => f = l
    BY DEF From
  <2> HIDE DEF f, l
  <2>3. f # l
    BY <1>7, <1>9
  <2> QED BY <1>6, <2>1, <2>2, <2>3
<1> HIDE DEF f, l
<1>11. q.ry = y - 1 /\ q.rx = f + i
  <2>1. i \in 1 .. l - f
    BY <1>7, <1>9
  <2>2. b[i] = [chr |-> ll[y][f + i].chr, rx |-> f + i, ry |-> y - 1]
    BY <1>9, <2>1
  <2> QED BY <1>8, <2>2
<1>12. InLines(ll, q) /\ q.ry < n
  <2>1. q.ry \in 0 .. n /\ q.ry < n /\ q.ry + 1 = y /\ q.rx \in 0 .. l
    BY <1>1, <1>7, <1>9, <1>11
  <2>2. q.rx \in 0 .. Len(ll[q.ry + 1])
    BY <2>1 DEF l
  <2> QED BY <2>1, <2>2 DEF InLines, n
<1> DEFINE us == Rests(ll, q)
           a2 == FlattenSeq(SubSeq(us, 1, y - 1))
<1>13. /\ us \in Seq(Seq(Place)) /\ Len(us) = n /\ AheadIn(ll, q) = FlattenSeq(us)
       /\ \A z \in 1 .. n : us[z] = Rest(ll, q, z)
  BY <1>12, RestsType DEF AheadIn, n
<1> HIDE DEF us
<1>14. \A z \in 1 .. y - 1 : us[z] = <<>>
  <2> SUFFICES ASSUME NEW z \in 1 .. y - 1 PROVE us[z] = <<>>
    OBVIOUS
  <2>1. z \in 1 .. n /\ z - 1 < q.ry
    BY <1>1, <1>11
  <2>2. RestOf(ll, q, z)
    BY <1>12, <2>1, RestType DEF n
  <2>3. From(ll, q, z) = Len(ll[z])
    BY <2>1 DEF From
  <2>4. Rest(ll, q, z) \in Seq(Place) /\ Len(Rest(ll, q, z)) = 0
    BY <2>2, <2>3 DEF RestOf
  <2>5. Rest(ll, q, z) = <<>>
    BY <2>4
  <2> QED BY <1>13, <2>1, <2>5
<1>15. \A z \in y + 1 .. n : us[z] = ss[z]
  <2> SUFFICES ASSUME NEW z \in y + 1 .. n PROVE us[z] = ss[z]
    OBVIOUS
  <2>1. z \in 1 .. n /\ ~(z - 1 < q.ry) /\ z - 1 # q.ry /\ ~(z - 1 < r.ry) /\ z - 1 # r.ry
    BY <1>1, <1>10, <1>11
  <2>2. From(ll, q, z) = 0 /\ From(ll, r, z) = 0
    BY <2>1 DEF From
  <2>3. Rest(ll, q, z) = Rest(ll, r, z)
    BY <2>2 DEF Rest
  <2> QED BY <1>1, <1>13, <2>1, <2>3
<1>16. us[y] = SubSeq(b, i + 1, Len(b))
  <2> DEFINE u == us[y]
             v == SubSeq(b, i + 1, Len(b))
             m == Len(b)
  <2>1. RestOf(ll, q, y) /\ u = Rest(ll, q, y)
    BY <1>12, <1>13, RestType DEF n
  <2>2. From(ll, q, y) = f + i /\ Len(ll[y]) = l
    BY <1>1, <1>11 DEF From, l
  <2>3. u \in Seq(Place) /\ Len(u) = l - (f + i)
    BY <2>1, <2>2 DEF RestOf
  <2>4. \A j \in 1 .. l - (f + i) :
          u[j] = [chr |-> ll[y][f + i + j].chr, rx |-> f + i + j, ry |-> y - 1]
    <3> SUFFICES ASSUME NEW j \in 1 .. l - (f + i)
                 PROVE  u[j] = [chr |-> ll[y][f + i + j].chr, rx |-> f + i + j, ry |-> y - 1]
      OBVIOUS
    <3>1. j \in 1 .. Len(ll[y]) - From(ll, q, y)
      BY <2>2
    <3>2. u[j] = [chr |-> ll[y][From(ll, q, y) + j].chr, rx |-> From(ll, q, y) + j, ry |-> y - 1]
      BY <2>1, <3>1 DEF RestOf
    <3> HIDE DEF u
    <3> QED BY <2>2, <3>2
  <2>5. m \in Nat /\ m = l - f /\ \A j \in i + 1 .. m : b[j] \in Place
    <3>1. m \in Nat /\ m = l - f /\ \A j \in 1 .. m : b[j] \in Place
      BY <1>5, <1>9
    <3> QED BY <1>7, <3>1
  <2> HIDE DEF u, m
  <2>6. /\ v \in Seq(Place) /\ Len(v) = IF i + 1 <= m THEN m - (i + 1) + 1 ELSE 0
        /\ \A j \in 1 .. m - (i + 1) + 1 : v[j] = b[i + 1 + j - 1]
    BY <1>7, <2>5, SubSeqProperties DEF m
  <2> HIDE DEF v
  <2>7. i \in 1 .. m
    BY <1>7 DEF m
  <2>8. Len(v) = Len(u)
    BY <1>9, <2>3, <2>5, <2>6, <2>7
  <2>9. ASSUME NEW j \in 1 .. Len(u) PROVE u[j] = v[j]
    <3> DEFINE t == i + j
    <3>1. /\ j \in 1 .. l - (f + i) /\ j \in 1 .. m - (i + 1) + 1 /\ i + 1 + j - 1 = t
          /\ t \in 1 .. l - f /\ f + i + j = f + t
      BY <1>9, <2>3, <2>5, <2>7
    <3> HIDE DEF t
    <3>2. v[j] = b[t]
      BY <2>6, <3>1
    <3>3. b[t] = [chr |-> ll[y][f + t].chr, rx |-> f + t, ry |-> y - 1]
      BY <1>9, <3>1
    <3> QED BY <2>4, <3>1, <3>2, <3>3
  <2>10. u = v
    BY <2>3, <2>6, <2>8, <2>9, SeqEqual
  <2> QED BY <2>10 DEF u, v, m
<1>17. SubSeq(us, y + 1, n) = SubSeq(ss, y + 1, n)
  <2> DEFINE A == Seq(Place)
             u == SubSeq(us, y + 1, n)
             v == SubSeq(ss, y + 1, n)
  <2>1. /\ us \in Seq(A) /\ ss \in Seq(A) /\ Len(us) = n /\ Len(ss) = n
    BY <1>1, <1>13
  <2> HIDE DEF A
  <2>2. y + 1 \in Int /\ n \in Int /\ \A j \in y + 1 .. n : us[j] \in A /\ ss[j] \in A
    <3>1. \A j \in 1 .. n : us[j] \in A /\ ss[j] \in A
      BY <2>1
    <3> QED BY <1>1, <3>1
  <2>3. /\ u \in Seq(A) /\ Len(u) = IF y + 1 <= n THEN n - (y + 1) + 1 ELSE 0
        /\ \A j \in 1 .. n - (y + 1) + 1 : u[j] = us[y + 1 + j - 1]
    BY <2>2, SubSeqProperties
  <2>4. /\ v \in Seq(A) /\ Len(v) = IF y + 1 <= n THEN n - (y + 1) + 1 ELSE 0
        /\ \A j \in 1 .. n - (y + 1) + 1 : v[j] = ss[y + 1 + j - 1]
    BY <2>2, SubSeqProperties
  <2> HIDE DEF u, v
  <2>5. ASSUME NEW j \in 1 .. Len(u) PROVE u[j] = v[j]
    <3>1. j \in 1 .. n - (y + 1) + 1
      BY <1>1, <2>3
    <3>2. y + 1 + j - 1 \in y + 1 .. n
      <4> HIDE DEF n
      <4>1. n \in Nat /\ y \in Int
        BY <1>1
      <4> QED BY <3>1, <4>1
    <3> QED BY <1>15, <2>3, <2>4, <3>1, <3>2
  <2>6. u = v
    BY <2>3, <2>4, <2>5, SeqEqual
  <2> QED BY <2>6 DEF u, v
<1>18. a2 = <<>>
  <2> DEFINE A == Seq(Place)
             u == SubSeq(us, 1, y - 1)
  <2>1. us \in Seq(A) /\ Len(us) = n
    BY <1>13
  <2> HIDE DEF A
  <2>2. y - 1 \in Int /\ \A j \in 1 .. y - 1 : us[j] \in A
    <3>1. \A j \in 1 .. n : us[j] \in A
      BY <2>1
    <3> QED BY <1>1, <3>1
  <2>3. /\ u \in Seq(A) /\ Len(u) = IF 1 <= y - 1 THEN y - 1 - 1 + 1 ELSE 0
        /\ \A j \in 1 .. y - 1 - 1 + 1 : u[j] = us[1 + j - 1]
    BY <2>2, SubSeqProperties
  <2> HIDE DEF u
  <2>4. ASSUME NEW j \in 1 .. Len(u) PROVE u[j] = <<>>
    <3>1. j \in 1 .. y - 1 - 1 + 1 /\ 1 + j - 1 = j /\ j \in 1 .. y - 1
      BY <1>1, <2>3
    <3> QED BY <1>14, <2>3, <3>1
  <2>5. FlattenSeq(u) = <<>>
    BY <2>3, <2>4, FlattenEmpties DEF A
  <2> QED BY <2>5 DEF u
<1>19. FlattenSeq(us) = (a2 \o us[y]) \o c
  <2>1. y \in 1 .. Len(us) /\ n = Len(us)
    BY <1>13
  <2>2. FlattenSeq(us) = (a2 \o us[y]) \o FlattenSeq(SubSeq(us, y + 1, Len(us)))
    BY <1>13, <2>1, FlattenAround
  <2> QED BY <1>17, <2>1, <2>2 DEF c
<1>20. <<>> \o us[y] = us[y]
  <2>1. us[y] \in Seq(Place)
    BY <1>13
  <2> DEFINE u == us[y]
  <2> HIDE DEF u
  <2>2. <<>> \o u = u
    BY <2>1, ConcatEmptySeq DEF u
  <2> QED BY <2>2 DEF u
<1> HIDE DEF a2
<1>21. AheadIn(ll, q) = us[y] \o c
  BY <1>13, <1>18, <1>19, <1>20
<1> QED BY <1>8, <1>12, <1>16, <1>21 DEF n

-----------------------------------------------------------------------------
(* The bytes that Read returns.                                            *)

\* While no rune was divided, nothing is left in readBuffer.  A Write that was
\* seen to begin has its text ahead of the reader.  The bytes of the text are
\* those that were read and those that are ahead.
ReadingInv ==
  /\ ~split => reader.buffer = <<>> /\ got \in Seq(AllBytes)
  /\ lock # Free /\ ~missed => reader.ry < Len(lines)
  /\ ~missed /\ ~split => Encoded(Text) = got \o Encoded(AheadIn(lines, reader))

\* The lines and the reader, in the form of the lemmas.
LEMMA LinesAndReader ==
  ASSUME StreamInv
  PROVE  \E S : /\ lines \in Seq(Seq(S)) /\ \A c \in S : c.chr \in Chars
               /\ Text \in Seq(S) /\ Len(lines) \in Nat
               /\ InLines(lines, reader) /\ reader.ry \in Nat /\ reader.ry <= Len(lines)
<1>1. PICK S : lines \in Seq(Seq(S)) /\ \A c \in S : Cell(c)
  BY DEF StreamInv, TextInv
<1>2. InLines(lines, reader) /\ reader.ry \in 0 .. Len(lines)
  BY DEF StreamInv, ReaderInv, InLines
<1>3. Len(lines) \in Nat
  BY <1>1
<1>4. Text \in Seq(S)
  BY <1>1, FlattenType DEF Text
<1> QED BY <1>1, <1>2, <1>3, <1>4 DEF Cell

\* What a rune does to the lines.
LEMMA PutRuneLines ==
  ASSUME StreamInv, NEW w \in Writers, PutRune(w)
  PROVE  \/ lines' = lines
         \/ lines' = Append(lines, <<>>)
         \/ \E call, style, runes : runes \in Seq(Chars) /\ AddCells(call, style, runes)
<1> DEFINE j == job[w]
           ch == Head(job[w].runes)
           r == ParseOne(mode, ei, ch)
<1>1. j.runes \in Seq(Chars \cup {Newline}) /\ j.runes # <<>>
  BY DEF StreamInv, LockInv, PutRune
<1>2. ch \in Chars \cup {Newline}
  BY <1>1
<1>3. Interpreter(ei)
  BY DEF StreamInv, HeldInv
<1>4. ASSUME ch # Newline PROVE ch \in Chars /\ Parsed(ei, ch, r)
  <2>1. ch \in Chars
    BY <1>2, <1>4
  <2> HIDE DEF ch
  <2> QED BY <1>3, <2>1, ParseOneResult
<1> HIDE DEF r, ch
<1>5. \/ lines' = Append(lines, <<>>)
      \/ lines' = lines
      \/ /\ ch # Newline
         /\ AddCells(j.call, ei.style, IF ch = Tab THEN [i \in 1 .. 4 |-> ch] ELSE <<ch>>)
      \/ ch # Newline /\ r.is \in {"parse", "overlong"} /\ Reject(r, j.call)
  BY DEF PutRune, r, ch
<1>6. CASE /\ ch # Newline
           /\ AddCells(j.call, ei.style, IF ch = Tab THEN [i \in 1 .. 4 |-> ch] ELSE <<ch>>)
  <2> DEFINE runes == IF ch = Tab THEN [i \in 1 .. 4 |-> ch] ELSE <<ch>>
  <2>1. runes \in Seq(Chars)
    BY <1>4, <1>6
  <2>2. AddCells(j.call, ei.style, runes)
    BY <1>6
  <2> HIDE DEF runes, j
  <2> QED BY <2>1, <2>2
<1>7. CASE ch # Newline /\ r.is \in {"parse", "overlong"} /\ Reject(r, j.call)
  <2>1. Interpreter(r.ei)
    BY <1>4, <1>7 DEF Parsed
  <2>2. Runes(r.ei) \in Seq(Chars)
    BY <2>1, RunesType
  <2>3. AddCells(j.call, Style, Runes(r.ei))
    BY <1>7 DEF Reject
  <2> HIDE DEF j
  <2> QED BY <2>2, <2>3
<1> QED BY <1>5, <1>6, <1>7

\* Text at the end is ahead of a reader that is before it.
LEMMA GrowReading ==
  ASSUME StreamInv, ReadingInv, lines # <<>>, lock # Free,
         UNCHANGED <<reader, got, split, missed, lock>>,
         NEW call, NEW style, NEW runes \in Seq(Chars), AddCells(call, style, runes)
  PROVE  ReadingInv'
<1> DEFINE new == [i \in DOMAIN runes |-> [chr |-> runes[i], style |-> style, call |-> call]]
           T == {[chr |-> c, style |-> style, call |-> call] : c \in Chars}
           n == Len(lines)
<1>1. PICK S : /\ lines \in Seq(Seq(S)) /\ \A c \in S : c.chr \in Chars
               /\ Text \in Seq(S) /\ n \in Nat
               /\ InLines(lines, reader) /\ reader.ry \in Nat /\ reader.ry <= n
  BY LinesAndReader
<1> DEFINE U == S \cup T
<1>2. \A c \in U : c.chr \in Chars
  BY <1>1
<1>3. new \in Seq(T)
  <2>1. Len(runes) \in Nat /\ DOMAIN runes = 1 .. Len(runes)
    OBVIOUS
  <2>2. \A i \in DOMAIN runes : [chr |-> runes[i], style |-> style, call |-> call] \in T
    OBVIOUS
  <2> HIDE DEF T
  <2> QED BY <2>1, <2>2
<1> HIDE DEF T, new
<1>4. lines \in Seq(Seq(U)) /\ new \in Seq(U) /\ Text \in Seq(U)
  BY <1>1, <1>3, WiderSeq
<1> HIDE DEF U
<1>5. lines' = [lines EXCEPT ![n] = @ \o new]
  BY DEF AddCells, new
<1>6. Text' = Text \o new
  BY <1>4, <1>5, FlattenLast DEF Text
<1>7. Len(lines') = n
  <2>1. n \in 1 .. n /\ lines[n] \o new \in Seq(U)
    <3>1. n \in 1 .. n /\ lines[n] \in Seq(U)
      BY <1>4
    <3> QED BY <1>4, <3>1, ConcatProperties
  <2> QED BY <1>4, <1>5, <2>1, ExceptSeq
<1>8. ASSUME ~missed, ~split
      PROVE  Encoded(Text') = got \o Encoded(AheadIn(lines', reader))
  <2>1. reader.ry < n /\ Encoded(Text) = got \o Encoded(AheadIn(lines, reader))
        /\ got \in Seq(AllBytes)
    BY <1>8 DEF ReadingInv
  <2> DEFINE a == Encoded(AheadIn(lines, reader))
             b == Encoded(new)
             t == Text
  <2>2. Encoded(AheadIn(lines', reader)) = a \o b
    <3> HIDE DEF n
    <3>1. Encoded(AheadIn([lines EXCEPT ![Len(lines)] = @ \o new], reader))
            = Encoded(AheadIn(lines, reader)) \o Encoded(new)
      BY <1>1, <1>2, <1>4, <2>1, AheadGrows DEF n
    <3> QED BY <1>5, <3>1 DEF n
  <2>3. AheadIn(lines, reader) \in Seq(Place) /\ \A p \in Place : p.chr \in Chars
    BY <1>1, RestsType DEF Place
  <2>4. a \in Seq(AllBytes) /\ b \in Seq(AllBytes)
    <3>1. a \in Seq(AllBytes)
      BY <2>3, CodesType
    <3>2. b \in Seq(AllBytes)
      BY <1>2, <1>4, CodesType
    <3> QED BY <3>1, <3>2
  <2>5. Encoded(t \o new) = Encoded(t) \o b
    <3> HIDE DEF t
    <3> QED BY <1>2, <1>4, EncodedConcat DEF t
  <2> HIDE DEF a, b
  <2>6. (got \o a) \o b = got \o (a \o b)
    BY <2>1, <2>4, ConcatAssociative, SMTT(30)
  <2> QED BY <1>6, <2>1, <2>2, <2>5, <2>6 DEF a, t
<1> QED BY <1>7, <1>8 DEF ReadingInv

\* One rune of a Write.
LEMMA PutRuneReading ==
  ASSUME StreamInv, ReadingInv, NEW w \in Writers, PutRune(w)
  PROVE  ReadingInv'
<1>1. UNCHANGED <<reader, got, split, missed, lock>>
  BY DEF PutRune, NotReading
<1>2. lock = w /\ w # Free /\ lines # <<>>
  BY ViewStreamAssumption DEF StreamInv, LockInv, PutRune
<1>3. CASE lines' = lines
  BY <1>1, <1>3 DEF ReadingInv, Text
<1>4. CASE lines' = Append(lines, <<>>)
  <2>1. PICK S : /\ lines \in Seq(Seq(S)) /\ \A c \in S : c.chr \in Chars
                 /\ Text \in Seq(S) /\ Len(lines) \in Nat
                 /\ InLines(lines, reader) /\ reader.ry \in Nat /\ reader.ry <= Len(lines)
    BY LinesAndReader
  <2>2. Text' = Text
    <3>1. <<>> \in Seq(S)
      OBVIOUS
    <3>2. FlattenSeq(Append(lines, <<>>)) = FlattenSeq(lines) \o <<>>
      BY <2>1, <3>1, FlattenAppend
    <3> DEFINE t == Text
    <3> HIDE DEF t
    <3>3. t \o <<>> = t
      BY <2>1, ConcatEmptySeq DEF t
    <3> QED BY <1>4, <3>2, <3>3 DEF Text, t
  <2>3. Len(lines') = Len(lines) + 1
    <3>1. <<>> \in Seq(S)
      OBVIOUS
    <3> QED BY <1>4, <2>1, <3>1
  <2>4. ASSUME ~missed, ~split
        PROVE  Encoded(Text') = got \o Encoded(AheadIn(lines', reader))
    <3>1. reader.ry < Len(lines)
      BY <1>2, <2>4 DEF ReadingInv
    <3>2. AheadIn(lines', reader) = AheadIn(lines, reader)
      BY <1>4, <2>1, <3>1, AheadNewLine
    <3> QED BY <2>2, <2>4, <3>2 DEF ReadingInv
  <2>5. lock # Free /\ ~missed => reader.ry < Len(lines')
    BY <2>1, <2>3 DEF ReadingInv
  <2> QED BY <1>1, <2>4, <2>5 DEF ReadingInv
<1>5. CASE \E call, style, runes : runes \in Seq(Chars) /\ AddCells(call, style, runes)
  BY <1>1, <1>2, <1>5, GrowReading
<1> QED BY <1>3, <1>4, <1>5, PutRuneLines

\* A Write begins: when there is text and it was all read, the new text is
\* missed.
LEMMA WriteReading ==
  ASSUME StreamInv, ReadingInv, NEW w \in Writers, NEW p \in Inputs, Write(w, p)
  PROVE  ReadingInv'
<1>1. /\ UNCHANGED <<reader, got, split>>
      /\ lines' = IF lines = <<>> THEN <<(<<>>)>> ELSE lines
      /\ missed' = (missed \/ (lines # <<>> /\ reader.ry >= Len(lines)))
  BY DEF Write, NotReading
<1>2. PICK S : /\ lines \in Seq(Seq(S)) /\ \A c \in S : c.chr \in Chars
               /\ Text \in Seq(S) /\ Len(lines) \in Nat
               /\ InLines(lines, reader) /\ reader.ry \in Nat /\ reader.ry <= Len(lines)
  BY LinesAndReader
<1>3. CASE lines # <<>>
  <2>1. lines' = lines
    BY <1>1, <1>3
  <2>2. ~missed' => ~missed /\ reader.ry < Len(lines)
    <3>1. ~missed' => ~missed /\ ~(reader.ry >= Len(lines))
      BY <1>1, <1>3, Zenon
    <3>2. ~(reader.ry >= Len(lines)) => reader.ry < Len(lines)
      BY <1>2
    <3> QED BY <3>1, <3>2
  <2> QED BY <1>1, <2>1, <2>2 DEF ReadingInv, Text
<1>4. CASE lines = <<>>
  <2>1. reader.ry = 0 /\ reader.rx = 0 /\ Len(lines) = 0
    BY <1>2, <1>4 DEF StreamInv, ReaderInv
  <2>2. <<>> \in Seq(S) /\ lines' = <<(<<>>)>> /\ lines' = Append(<<>>, <<>>)
        /\ <<>> \in Seq(Seq(S)) /\ lines' \in Seq(Seq(S)) /\ Len(lines') = 1 /\ lines'[1] = <<>>
    BY <1>1, <1>4
  <2>3. Text' = Text
    <3>1. FlattenSeq(<<>>) = <<>>
      BY DEF FlattenSeq
    <3>2. FlattenSeq(Append(<<>>, <<>>)) = FlattenSeq(<<>>) \o <<>>
      BY <2>2, FlattenAppend
    <3>3. FlattenSeq(Append(<<>>, <<>>)) = <<>>
      BY <3>1, <3>2
    <3> QED BY <1>4, <2>2, <3>1, <3>3 DEF Text
  <2>4. InLines(lines', reader)
    BY <2>1, <2>2 DEF InLines
  <2>5. AheadIn(lines', reader) = <<>>
    BY <1>2, <2>1, <2>2, <2>4, AheadAtEnd
  <2>6. AheadIn(lines, reader) = <<>>
    BY <1>2, <2>1, AheadAtEnd
  <2>7. ~missed' => ~missed
    BY <1>1, <1>4
  <2> QED BY <1>1, <2>1, <2>2, <2>3, <2>5, <2>6, <2>7 DEF ReadingInv
<1> QED BY <1>3, <1>4

\* Clear puts the reader at the start of an empty text.
LEMMA ClearReading ==
  ASSUME StreamInv, ReadingInv, Clear
  PROVE  ReadingInv'
<1>1. /\ lock' = Free /\ lines' = <<>> /\ got' = <<>>
      /\ reader'.rx = 0 /\ reader'.ry = 0 /\ reader'.buffer = <<>>
  BY DEF Clear, FromStart
<1> DEFINE E == {}
<1>2. lines' \in Seq(Seq(E)) /\ Len(lines') = 0 /\ \A c \in E : c.chr \in Chars
  BY <1>1
<1>3. InLines(lines', reader')
  BY <1>1, <1>2 DEF InLines
<1>4. AheadIn(lines', reader') = <<>>
  BY <1>1, <1>2, <1>3, AheadAtEnd
<1>5. Text' = <<>>
  BY <1>1 DEF Text, FlattenSeq
<1>6. Encoded(<<>>) = <<>>
  <2>1. <<>> \in Seq(E)
    OBVIOUS
  <2>2. Codes(<<>>) \in Seq(Seq(AllBytes)) /\ Len(Codes(<<>>)) = 0
    BY <1>2, <2>1, CodesType
  <2>3. Codes(<<>>) = <<>>
    BY <2>2
  <2>4. FlattenSeq(<<>>) = <<>>
    BY DEF FlattenSeq
  <2> QED BY <1>2, <2>1, <2>3, <2>4, CodesType
<1>7. <<>> \in Seq(AllBytes) /\ <<>> \o <<>> = <<>>
  OBVIOUS
<1> QED BY <1>1, <1>4, <1>5, <1>6, <1>7 DEF ReadingInv

\* A Read returns the bytes of the cells it passes.
LEMMA ReadReading ==
  ASSUME StreamInv, ReadingInv, NEW n \in Lens, Read(n)
  PROVE  ReadingInv'
<1> DEFINE a == AheadIn(lines, reader)
           len == Len(a)
           runes(k) == Encoded(SubSeq(a, 1, k))
           full == {k \in DOMAIN a : Len(runes(k)) >= n}
           k == Min(full)
           over == Len(runes(k)) - n
           buffer == FoldLeft(LAMBDA b, c : Over(b, Bytes(c.chr)), NoBytes, SubSeq(a, 1, k))
<1>1. UNCHANGED <<lines, lock, missed>> /\ lock = Free /\ Text' = Text
  BY DEF Read, Text
<1>2. PICK S : /\ lines \in Seq(Seq(S)) /\ \A c \in S : c.chr \in Chars
               /\ Text \in Seq(S) /\ Len(lines) \in Nat
               /\ InLines(lines, reader) /\ reader.ry \in Nat /\ reader.ry <= Len(lines)
  BY LinesAndReader
<1>3. n \in Nat /\ n >= 1
  BY ViewStreamAssumption
<1>4. /\ a \in Seq(Place) /\ len \in Nat /\ DOMAIN a = 1 .. len
      /\ \A p \in Place : p.chr \in Chars
  <2>1. AheadIn(lines, reader) \in Seq(Place)
    BY <1>2, RestsType
  <2>2. a \in Seq(Place)
    BY <2>1
  <2> HIDE DEF a
  <2>3. len \in Nat /\ DOMAIN a = 1 .. len
    BY <2>2
  <2>4. \A p \in Place : p.chr \in Chars
    BY DEF Place
  <2> QED BY <2>2, <2>3, <2>4
<1>5. \/ /\ Len(reader.buffer) >= n /\ UNCHANGED split
      \/ /\ full # {}
         /\ reader' = [rx |-> a[k].rx, ry |-> a[k].ry,
                       buffer |-> IF over > 0 THEN SubSeq(buffer, over + 1, 4) ELSE <<>>]
         /\ got' = got \o SubSeq(runes(k), 1, n) /\ split' = (split \/ over > 0)
      \/ /\ reader' = [rx |-> IF reader.ry < Len(lines) THEN 0 ELSE reader.rx,
                       ry |-> Max({reader.ry, Len(lines)}), buffer |-> <<>>]
         /\ got' = got \o Encoded(a) /\ UNCHANGED split
  BY AheadIsIn DEF Read
<1> HIDE DEF a, buffer
<1>6. ReadingInv' <=> /\ ~split' => reader'.buffer = <<>> /\ got' \in Seq(AllBytes)
                      /\ ~missed /\ ~split' => Encoded(Text) = got' \o Encoded(AheadIn(lines, reader'))
  BY <1>1 DEF ReadingInv
<1> SUFFICES ASSUME ~split'
             PROVE  /\ reader'.buffer = <<>> /\ got' \in Seq(AllBytes)
                    /\ ~missed => Encoded(Text) = got' \o Encoded(AheadIn(lines, reader'))
  BY <1>6
<1>7. CASE Len(reader.buffer) >= n /\ UNCHANGED split
  <2>1. Len(reader.buffer) = 0
    BY <1>7 DEF ReadingInv
  <2> QED BY <1>3, <1>7, <2>1
<1>8. CASE /\ full # {}
           /\ reader' = [rx |-> a[k].rx, ry |-> a[k].ry,
                         buffer |-> IF over > 0 THEN SubSeq(buffer, over + 1, 4) ELSE <<>>]
           /\ got' = got \o SubSeq(runes(k), 1, n) /\ split' = (split \/ over > 0)
  <2> DEFINE F == full
  <2>1. F \subseteq Nat /\ F # {} /\ \A j \in F : j \in 1 .. len /\ Len(runes(j)) >= n
    <3> HIDE DEF runes
    <3> QED BY <1>4, <1>8
  <2>2. k \in F
    <3> HIDE DEF F
    <3>1. \E x \in F : \A y \in F : x <= y
      BY <2>1, Least
    <3>2. Min(F) \in F
      BY <3>1 DEF Min
    <3> QED BY <3>2 DEF F
  <2> HIDE DEF F, k
  <2>3. k \in 1 .. len /\ Len(runes(k)) >= n
    BY <2>1, <2>2
  <2> DEFINE pre == SubSeq(a, 1, k)
             post == SubSeq(a, k + 1, len)
  <2>4. pre \in Seq(Place) /\ post \in Seq(Place) /\ a = pre \o post
    <3>1. \A j \in 1 .. len : a[j] \in Place
      BY <1>4
    <3>2. (\A j \in 1 .. k : a[j] \in Place) /\ (\A j \in k + 1 .. len : a[j] \in Place)
          /\ k \in Int /\ k + 1 \in Int /\ len \in Int /\ 1 \in Int
      <4> HIDE DEF len
      <4> QED BY <1>4, <2>3, <3>1
    <3>3. pre \in Seq(Place) /\ post \in Seq(Place)
      BY <3>2, SubSeqProperties
    <3>4. 1 \in 1 .. len + 1 /\ k \in 1 - 1 .. len /\ len \in k .. len
      <4> HIDE DEF len
      <4> QED BY <1>4, <2>3
    <3>5. SubSeq(a, 1, len) = pre \o post
      BY <1>4, <3>4, ConcatAdjacentSubSeq
    <3> QED BY <1>4, <3>3, <3>5, SubSeqFull
  <2> HIDE DEF pre, post
  <2>5. Encoded(pre) \in Seq(AllBytes) /\ Encoded(post) \in Seq(AllBytes)
        /\ Encoded(pre \o post) = Encoded(pre) \o Encoded(post)
    BY <1>4, <2>4, CodesType, EncodedConcat
  <2> DEFINE e == Encoded(pre)
  <2>6. over = Len(e) - n /\ Len(e) >= n /\ Len(e) \in Nat
    BY <2>3, <2>5 DEF pre
  <2>7. ~split /\ ~(over > 0)
    BY <1>8, Zenon
  <2> HIDE DEF e, over, runes
  <2>8. Len(e) = n
    BY <1>3, <2>6, <2>7
  <2>9. got' = got \o e
    <3>1. SubSeq(e, 1, Len(e)) = e
      BY <2>5, SubSeqFull DEF e
    <3>2. got' = got \o SubSeq(e, 1, n)
      BY <1>8 DEF e, runes, pre
    <3> QED BY <2>8, <3>1, <3>2
  <2>10. reader'.rx = a[k].rx /\ reader'.ry = a[k].ry /\ reader'.buffer = <<>>
    BY <1>8, <2>7
  <2>11. AheadIn(lines, reader') = post
    <3>1. k \in 1 .. Len(AheadIn(lines, reader))
      BY <2>3 DEF a
    <3>2. reader'.rx = AheadIn(lines, reader)[k].rx /\ reader'.ry = AheadIn(lines, reader)[k].ry
      BY <2>10 DEF a
    <3>3. AheadIn(lines, reader') =
            SubSeq(AheadIn(lines, reader), k + 1, Len(AheadIn(lines, reader)))
      <4> DEFINE q == reader'
      <4> HIDE DEF q, len
      <4>1. q.rx = AheadIn(lines, reader)[k].rx /\ q.ry = AheadIn(lines, reader)[k].ry
        BY <3>2 DEF q
      <4>2. AheadIn(lines, q) =
              SubSeq(AheadIn(lines, reader), k + 1, Len(AheadIn(lines, reader)))
        BY <1>2, <3>1, <4>1, AfterPlace
      <4> QED BY <4>2 DEF q
    <3> QED BY <3>3 DEF post, a
  <2>12. got \in Seq(AllBytes) /\ e \in Seq(AllBytes)
    BY <2>5, <2>7 DEF ReadingInv, e
  <2>13. got' \in Seq(AllBytes)
    BY <2>9, <2>12, ConcatProperties
  <2>14. ASSUME ~missed PROVE Encoded(Text) = got' \o Encoded(AheadIn(lines, reader'))
    <3> DEFINE d == Encoded(post)
    <3>1. Encoded(Text) = got \o (e \o d)
      BY <2>4, <2>5, <2>7, <2>14 DEF ReadingInv, a, e
    <3> HIDE DEF d
    <3>2. (got \o e) \o d = got \o (e \o d)
      BY <2>5, <2>12, ConcatAssociative, SMTT(30) DEF d
    <3> QED BY <2>9, <2>11, <3>1, <3>2 DEF d
  <2> QED BY <2>10, <2>13, <2>14
<1>9. CASE /\ reader' = [rx |-> IF reader.ry < Len(lines) THEN 0 ELSE reader.rx,
                         ry |-> Max({reader.ry, Len(lines)}), buffer |-> <<>>]
           /\ got' = got \o Encoded(a) /\ UNCHANGED split
  <2>1. reader'.ry = Len(lines) /\ reader'.buffer = <<>>
    <3> DEFINE ry == reader.ry
               m == Len(lines)
               x == Max({ry, m})
    <3>1. \E y \in {ry, m} : \A z \in {ry, m} : y >= z
      BY <1>2
    <3>2. x \in {ry, m} /\ x >= ry /\ x >= m
      BY <3>1 DEF Max
    <3>3. reader'.ry = x /\ reader'.buffer = <<>>
      BY <1>9
    <3> HIDE DEF ry, m, x
    <3>4. x = m
      BY <1>2, <3>2 DEF ry, m
    <3> QED BY <3>3, <3>4 DEF m
  <2>2. InLines(lines, reader')
    BY <1>2, <2>1 DEF InLines
  <2>3. AheadIn(lines, reader') = <<>>
    BY <1>2, <2>1, <2>2, AheadAtEnd
  <2> DEFINE e == Encoded(a)
             none == Encoded(<<>>)
  <2>4. e \in Seq(AllBytes) /\ none \in Seq(AllBytes) /\ none = <<>>
    <3>1. <<>> \in Seq(Place)
      OBVIOUS
    <3>2. Codes(<<>>) \in Seq(Seq(AllBytes)) /\ Len(Codes(<<>>)) = 0
          /\ none = FlattenSeq(Codes(<<>>)) /\ none \in Seq(AllBytes)
      BY <1>4, <3>1, CodesType
    <3>3. Codes(<<>>) = <<>>
      BY <3>2
    <3>4. FlattenSeq(<<>>) = <<>>
      BY DEF FlattenSeq
    <3> QED BY <1>4, <3>2, <3>3, <3>4, CodesType
  <2>5. ~split
    BY <1>9
  <2>6. got \in Seq(AllBytes)
    BY <2>5 DEF ReadingInv
  <2> HIDE DEF e, none
  <2>7. got' = got \o e /\ got' \in Seq(AllBytes)
    BY <1>9, <2>4, <2>6, ConcatProperties DEF e
  <2>8. got' \o none = got'
    BY <2>4, <2>7, ConcatEmptySeq
  <2>9. ~missed => Encoded(Text) = got \o e
    BY <2>5 DEF ReadingInv, a, e
  <2> QED BY <2>1, <2>3, <2>7, <2>8, <2>9 DEF none
<1> QED BY <1>5, <1>7, <1>8, <1>9

\* It holds in every state.
LEMMA ReadingInvariant == Spec => []ReadingInv
<1>1. Init => ReadingInv
  <2> SUFFICES ASSUME Init PROVE ReadingInv
    OBVIOUS
  <2>1. /\ lines = <<>> /\ lock = Free /\ got = <<>> /\ reader.buffer = <<>>
        /\ reader.rx = 0 /\ reader.ry = 0
    BY DEF Init, FromStart
  <2> DEFINE E == {}
  <2>2. lines \in Seq(Seq(E)) /\ Len(lines) = 0 /\ \A c \in E : c.chr \in Chars
    BY <2>1
  <2>3. InLines(lines, reader)
    BY <2>1, <2>2 DEF InLines
  <2>4. AheadIn(lines, reader) = <<>>
    BY <2>1, <2>2, <2>3, AheadAtEnd
  <2>5. Text = <<>>
    BY <2>1 DEF Text, FlattenSeq
  <2>6. Encoded(<<>>) = <<>>
    <3>1. <<>> \in Seq(E)
      OBVIOUS
    <3>2. Codes(<<>>) \in Seq(Seq(AllBytes)) /\ Len(Codes(<<>>)) = 0
      BY <2>2, <3>1, CodesType
    <3>3. Codes(<<>>) = <<>>
      BY <3>2
    <3>4. FlattenSeq(<<>>) = <<>>
      BY DEF FlattenSeq
    <3> QED BY <2>2, <3>1, <3>3, <3>4, CodesType
  <2>7. <<>> \in Seq(AllBytes) /\ <<>> \o <<>> = <<>>
    OBVIOUS
  <2> QED BY <2>1, <2>4, <2>5, <2>6, <2>7 DEF ReadingInv
<1>2. ASSUME StreamInv, ReadingInv, [Next]_vars PROVE ReadingInv'
  <2> USE <1>2
  <2>1. CASE UNCHANGED vars
    BY <2>1 DEF vars, ReadingInv, Text
  <2>2. ASSUME NEW w \in Writers, PutRune(w) PROVE ReadingInv'
    BY <2>2, PutRuneReading
  <2>3. ASSUME NEW w \in Writers, EndWrite(w) PROVE ReadingInv'
    BY <2>3 DEF EndWrite, NotReading, ReadingInv, Text
  <2>4. ASSUME NEW w \in Writers, NEW p \in Inputs, Write(w, p) PROVE ReadingInv'
    BY <2>4, WriteReading
  <2>5. ASSUME NEW n \in Lens, Read(n) PROVE ReadingInv'
    BY <2>5, ReadReading
  <2> QED BY <2>1, <2>2, <2>3, <2>4, <2>5, ClearReading DEF Next
<1> QED BY <1>1, <1>2, StreamInvariant, PTL DEF Spec

\* What was read is the start of the text.
LEMMA ReadingInvOrder == StreamInv /\ ReadingInv => WholeRunesInOrder
<1> SUFFICES ASSUME StreamInv, ReadingInv, ~missed, ~split
             PROVE  /\ IsPrefix(got, Encoded(Text))
                    /\ reader.ry >= Len(lines) => got = Encoded(Text)
  BY DEF WholeRunesInOrder
<1>1. PICK S : /\ lines \in Seq(Seq(S)) /\ \A c \in S : c.chr \in Chars
               /\ Text \in Seq(S) /\ Len(lines) \in Nat
               /\ InLines(lines, reader) /\ reader.ry \in Nat /\ reader.ry <= Len(lines)
  BY LinesAndReader
<1>2. AheadIn(lines, reader) \in Seq(Place) /\ \A p \in Place : p.chr \in Chars
  BY <1>1, RestsType DEF Place
<1> DEFINE e == Encoded(AheadIn(lines, reader))
           t == Encoded(Text)
<1>3. e \in Seq(AllBytes) /\ got \in Seq(AllBytes) /\ t = got \o e
  BY <1>2, CodesType DEF ReadingInv
<1>4. reader.ry >= Len(lines) => e = <<>>
  <2> SUFFICES ASSUME reader.ry >= Len(lines) PROVE e = <<>>
    OBVIOUS
  <2>1. AheadIn(lines, reader) = <<>>
    BY <1>1, AheadAtEnd
  <2>2. <<>> \in Seq(Place)
    OBVIOUS
  <2>3. Codes(<<>>) \in Seq(Seq(AllBytes)) /\ Len(Codes(<<>>)) = 0
        /\ Encoded(<<>>) = FlattenSeq(Codes(<<>>))
    BY <1>2, <2>2, CodesType
  <2>4. Codes(<<>>) = <<>>
    BY <2>3
  <2>5. FlattenSeq(<<>>) = <<>>
    BY DEF FlattenSeq
  <2> QED BY <2>1, <2>3, <2>4, <2>5
<1> HIDE DEF e, t
<1>5. IsPrefix(got, t)
  <2> DEFINE m == Len(got)
             u == SubSeq(t, 1, m)
  <2>1. /\ t \in Seq(AllBytes) /\ Len(t) = m + Len(e) /\ m \in Nat /\ Len(e) \in Nat
        /\ \A i \in 1 .. m + Len(e) : t[i] = IF i <= m THEN got[i] ELSE e[i - m]
    BY <1>3, ConcatProperties
  <2> HIDE DEF m
  <2>2. 1 \in Int /\ m \in Int /\ \A i \in 1 .. m : t[i] \in AllBytes
    BY <2>1
  <2>3. u \in Seq(AllBytes) /\ Len(u) = (IF 1 <= m THEN m - 1 + 1 ELSE 0)
        /\ \A i \in 1 .. m - 1 + 1 : u[i] = t[1 + i - 1]
    BY <2>2, SubSeqProperties
  <2> HIDE DEF u
  <2>4. \A i \in 1 .. m : u[i] = got[i]
    BY <2>1, <2>3
  <2>5. u = got
    BY <1>3, <2>1, <2>3, <2>4, SeqEqual DEF m
  <2>6. SubSeq(got, 1, m) = got
    BY <1>3, SubSeqFull DEF m
  <2> QED BY <2>1, <2>5, <2>6 DEF IsPrefix, m, u
<1>6. reader.ry >= Len(lines) => got = t
  <2>1. got \o <<>> = got
    BY <1>3, ConcatEmptySeq
  <2> QED BY <1>3, <1>4, <2>1
<1> QED BY <1>5, <1>6 DEF t

\* Read goes over the cells in order, and takes the bytes of each once: until
\* a rune is divided between two slices, or text is added where Read has
\* already been told io.EOF, what it returned is the start of the text, and
\* after io.EOF all of it.
THEOREM ReadsInOrder == Spec => []WholeRunesInOrder
BY StreamInvariant, ReadingInvariant, ReadingInvOrder, PTL

=============================================================================
