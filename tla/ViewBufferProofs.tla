-------------------------- MODULE ViewBufferProofs --------------------------
(***************************************************************************)
(* What TLAPS proves of ViewBuffer for all bounds, inputs and runes: that  *)
(* every slice ends where its array does, that no two lines share an       *)
(* array, and that the slices implement TextBuffer for an application that *)
(* does not write past the end of a text it has shortened.                 *)
(*                                                                         *)
(* The invariant is BufferInv: the buffer is Good (typed, slices within    *)
(* their arrays, lines apart), and as long as nothing was taken out it is  *)
(* Clean (nothing but zero cells behind the end of a line, nothing but nil *)
(* headers behind the last line).  Each call is first shown to do to the   *)
(* text what the call of TextBuffer does, for a buffer of any value        *)
(* (WriteAllText, InsertRuneText, TakeRuneText, JoinLinesText,             *)
(* SplitLineText, SetLineText); Set then numbers the arrays anew, which    *)
(* shows nowhere (NumberedSame).                                           *)
(***************************************************************************)
EXTENDS ViewBuffer, SequenceFacts

(* The operators of TextLines on sequences.                                *)

\* All but the first n.
LEMMA DropType ==
  ASSUME NEW S, NEW s \in Seq(S), NEW n \in Nat
  PROVE  /\ Drop(s, n) \in Seq(S) /\ Len(Drop(s, n)) = IF n <= Len(s) THEN Len(s) - n ELSE 0
         /\ \A i \in 1 .. Len(s) - n : Drop(s, n)[i] = s[n + i]
BY DEF Drop

\* As many as were there and more.
LEMMA PadType ==
  ASSUME NEW S, NEW s \in Seq(S), NEW n \in Int, NEW e \in S
  PROVE  /\ Pad(s, n, e) \in Seq(S)
         /\ Len(Pad(s, n, e)) = IF n > Len(s) THEN n ELSE Len(s)
         /\ \A i \in 1 .. Len(s) : Pad(s, n, e)[i] = s[i]
         /\ \A i \in Len(s) + 1 .. Len(Pad(s, n, e)) : Pad(s, n, e)[i] = e
<1> DEFINE k == IF n > Len(s) THEN n - Len(s) ELSE 0
           more == [i \in 1 .. k |-> e]
<1>1. k \in Nat /\ Len(s) \in Nat
  OBVIOUS
<1>2. more \in Seq(S) /\ Len(more) = k /\ \A i \in 1 .. k : more[i] = e
  <2> HIDE DEF k
  <2> QED BY <1>1
<1>3. Pad(s, n, e) = s \o more
  BY DEF Pad
<1> HIDE DEF more
<1>4. /\ s \o more \in Seq(S) /\ Len(s \o more) = Len(s) + k
      /\ \A i \in 1 .. Len(s) : (s \o more)[i] = s[i]
      /\ \A i \in Len(s) + 1 .. Len(s) + k : (s \o more)[i] = more[i - Len(s)]
  <2> HIDE DEF k
  <2> QED BY <1>1, <1>2
<1>5. \A i \in Len(s) + 1 .. Len(s) + k : (s \o more)[i] = e
  <2> HIDE DEF k
  <2> QED BY <1>1, <1>2, <1>4
<1>6. Len(s) + k = IF n > Len(s) THEN n ELSE Len(s)
  OBVIOUS
<1> HIDE DEF k
<1> QED BY <1>1, <1>3, <1>4, <1>5, <1>6

-----------------------------------------------------------------------------
(* Buffers.                                                                *)

Buffers == [heap : Seq(Seq(Cells)), lines : Seq(Slices), spare : Seq(Slices), wx : Nat, wy : Nat]

\* A buffer with one field or two of another value.
WithLines(b, v) == [b EXCEPT !.lines = v]
WithWx(b, v) == [b EXCEPT !.wx = v]
WithHeap(b, v, w) == [b EXCEPT !.heap = v, !.lines = w]
WithSpare(b, v, w) == [b EXCEPT !.lines = v, !.spare = w]
WithWy(b, v, w) == [b EXCEPT !.wy = v, !.wx = w]

\* The fields of such a buffer.
LEMMA Fields ==
  ASSUME NEW b \in Buffers, NEW v, NEW w
  PROVE  /\ WithLines(b, v) = [heap |-> b.heap, lines |-> v, spare |-> b.spare, wx |-> b.wx, wy |-> b.wy]
         /\ WithWx(b, v) = [heap |-> b.heap, lines |-> b.lines, spare |-> b.spare, wx |-> v, wy |-> b.wy]
         /\ WithHeap(b, v, w) = [heap |-> v, lines |-> w, spare |-> b.spare, wx |-> b.wx, wy |-> b.wy]
         /\ WithSpare(b, v, w) = [heap |-> b.heap, lines |-> v, spare |-> w, wx |-> b.wx, wy |-> b.wy]
         /\ WithWy(b, v, w) = [heap |-> b.heap, lines |-> b.lines, spare |-> b.spare, wx |-> w, wy |-> v]
<1>1. PICK h, ls, sp, x, y : b = [heap |-> h, lines |-> ls, spare |-> sp, wx |-> x, wy |-> y]
  BY DEF Buffers
<1>2. b.heap = h /\ b.lines = ls /\ b.spare = sp /\ b.wx = x /\ b.wy = y
  BY <1>1
<1>3. ASSUME NEW c, c = [b EXCEPT !.lines = v]
      PROVE  c = [heap |-> h, lines |-> v, spare |-> sp, wx |-> x, wy |-> y]
  BY <1>1, <1>3
<1>4. ASSUME NEW c, c = [b EXCEPT !.wx = v]
      PROVE  c = [heap |-> h, lines |-> ls, spare |-> sp, wx |-> v, wy |-> y]
  BY <1>1, <1>4
<1>5. [b EXCEPT !.heap = v, !.lines = w] = [heap |-> v, lines |-> w, spare |-> sp, wx |-> x, wy |-> y]
  <2>1. PICK c : c = [b EXCEPT !.heap = v]
    OBVIOUS
  <2>2. c = [heap |-> v, lines |-> ls, spare |-> sp, wx |-> x, wy |-> y]
    BY <1>1, <2>1
  <2>3. PICK d : d = [c EXCEPT !.lines = w]
    OBVIOUS
  <2>4. d = [heap |-> v, lines |-> w, spare |-> sp, wx |-> x, wy |-> y]
    BY <2>2, <2>3
  <2>5. d = [b EXCEPT !.heap = v, !.lines = w]
    BY <2>1, <2>3
  <2> QED BY <2>4, <2>5
<1>6. [b EXCEPT !.lines = v, !.spare = w] = [heap |-> h, lines |-> v, spare |-> w, wx |-> x, wy |-> y]
  <2>1. PICK c : c = [b EXCEPT !.lines = v]
    OBVIOUS
  <2>2. c = [heap |-> h, lines |-> v, spare |-> sp, wx |-> x, wy |-> y]
    BY <1>1, <2>1
  <2>3. PICK d : d = [c EXCEPT !.spare = w]
    OBVIOUS
  <2>4. d = [heap |-> h, lines |-> v, spare |-> w, wx |-> x, wy |-> y]
    BY <2>2, <2>3
  <2>5. d = [b EXCEPT !.lines = v, !.spare = w]
    BY <2>1, <2>3
  <2> QED BY <2>4, <2>5
<1>7. [b EXCEPT !.wy = v, !.wx = w] = [heap |-> h, lines |-> ls, spare |-> sp, wx |-> w, wy |-> v]
  <2>1. PICK c : c = [b EXCEPT !.wy = v]
    OBVIOUS
  <2>2. c = [heap |-> h, lines |-> ls, spare |-> sp, wx |-> x, wy |-> v]
    BY <1>1, <2>1
  <2>3. PICK d : d = [c EXCEPT !.wx = w]
    OBVIOUS
  <2>4. d = [heap |-> h, lines |-> ls, spare |-> sp, wx |-> w, wy |-> v]
    BY <2>2, <2>3
  <2>5. d = [b EXCEPT !.wy = v, !.wx = w]
    BY <2>1, <2>3
  <2> QED BY <2>4, <2>5
<1> QED BY <1>2, <1>3, <1>4, <1>5, <1>6, <1>7 DEF WithLines, WithWx, WithHeap, WithSpare, WithWy

\* A slice ends where its array does.
Sound(b, l) == l = Nil \/ (l.arr \in DOMAIN b.heap /\ l.len <= Len(b.heap[l.arr]))

\* No two lines share an array.
Apart(b) ==
  \A i, j \in DOMAIN b.lines : i # j /\ b.lines[i].arr = b.lines[j].arr => b.lines[i] = Nil

Good(b) ==
  /\ b \in Buffers /\ Apart(b)
  /\ \A i \in DOMAIN b.lines : Sound(b, b.lines[i])
  /\ \A i \in DOMAIN b.spare : Sound(b, b.spare[i])

\* Behind the end of a line that was never shortened is nothing.
NulAfter(w, n) == \A c \in n + 1 .. Len(w) : w[c] = NUL
Clean(b) ==
  /\ \A i \in DOMAIN b.spare : b.spare[i] = Nil
  /\ \A i \in DOMAIN b.lines : NulAfter(Whole(b, b.lines[i]), b.lines[i].len)

\* The text that the slices stand for.
Txt(b) == [i \in DOMAIN b.lines |-> Content(b, b.lines[i])]

\* The array of a line, and its content.
LEMMA LineType ==
  ASSUME NEW b, Good(b), NEW l, l \in Slices, Sound(b, l)
  PROVE  /\ Whole(b, l) \in Seq(Cells) /\ Len(Whole(b, l)) \in Nat /\ l.len \in 0 .. Len(Whole(b, l))
         /\ Content(b, l) \in Seq(Cells) /\ Len(Content(b, l)) = l.len
         /\ \A i \in 1 .. l.len : Content(b, l)[i] = Whole(b, l)[i]
<1> DEFINE w == Whole(b, l)
<1>1. b.heap \in Seq(Seq(Cells)) /\ l.arr \in Nat /\ l.len \in Nat
  BY DEF Good, Buffers, Slices
<1>2. w \in Seq(Cells) /\ l.len <= Len(w)
  BY <1>1 DEF Whole, Sound, Nil
<1>3. Content(b, l) = SubSeq(w, 1, l.len)
  BY DEF Content
<1> HIDE DEF w
<1>4. l.len \in 0 .. Len(w) /\ Len(w) \in Nat
  BY <1>1, <1>2
<1> QED BY <1>2, <1>3, <1>4, SubSeqType DEF w

\* The lines of a good buffer.
LEMMA LinesType ==
  ASSUME NEW b, Good(b)
  PROVE  /\ b.lines \in Seq(Slices) /\ Len(b.lines) \in Nat /\ DOMAIN b.lines = 1 .. Len(b.lines)
         /\ \A i \in 1 .. Len(b.lines) : b.lines[i] \in Slices /\ Sound(b, b.lines[i])
         /\ b.spare \in Seq(Slices) /\ Len(b.spare) \in Nat /\ DOMAIN b.spare = 1 .. Len(b.spare)
         /\ \A i \in 1 .. Len(b.spare) : b.spare[i] \in Slices /\ Sound(b, b.spare[i])
         /\ b.heap \in Seq(Seq(Cells)) /\ b.wx \in Nat /\ b.wy \in Nat
<1>1. b.lines \in Seq(Slices) /\ b.spare \in Seq(Slices) /\ b.heap \in Seq(Seq(Cells)) /\ b.wx \in Nat /\ b.wy \in Nat
  BY DEF Good, Buffers
<1> QED BY <1>1 DEF Good

\* The text of a good buffer.
LEMMA TxtType ==
  ASSUME NEW b, Good(b)
  PROVE  /\ Txt(b) \in Seq(Seq(Cells)) /\ Len(Txt(b)) = Len(b.lines)
         /\ \A i \in 1 .. Len(b.lines) :
              /\ Txt(b)[i] = Content(b, b.lines[i]) /\ Txt(b)[i] \in Seq(Cells)
              /\ Len(Txt(b)[i]) = b.lines[i].len
<1> DEFINE n == Len(b.lines)
<1>1. n \in Nat /\ DOMAIN b.lines = 1 .. n /\ \A i \in 1 .. n : b.lines[i] \in Slices /\ Sound(b, b.lines[i])
  BY LinesType
<1>2. \A i \in 1 .. n : Content(b, b.lines[i]) \in Seq(Cells) /\ Len(Content(b, b.lines[i])) = b.lines[i].len
  BY <1>1, LineType
<1>3. Txt(b) = [i \in 1 .. n |-> Content(b, b.lines[i])]
  BY <1>1 DEF Txt
<1> HIDE DEF n
<1>4. [i \in 1 .. n |-> Content(b, b.lines[i])] \in Seq(Seq(Cells))
  BY <1>1, <1>2
<1>5. Len([i \in 1 .. n |-> Content(b, b.lines[i])]) = n
  BY <1>1
<1>6. \A i \in 1 .. n : [j \in 1 .. n |-> Content(b, b.lines[j])][i] = Content(b, b.lines[i])
  OBVIOUS
<1> QED BY <1>2, <1>3, <1>4, <1>5, <1>6 DEF n

-----------------------------------------------------------------------------
(* One line changes.                                                       *)

\* The line y of the buffer gets this array and length, the rest stays.
Becomes(b, c, y, w, n) ==
  /\ Good(c) /\ Len(c.lines) = Len(b.lines) /\ c.spare = b.spare /\ c.wx = b.wx /\ c.wy = b.wy
  /\ \A i \in 1 .. Len(b.lines) : i # y + 1 =>
       Whole(c, c.lines[i]) = Whole(b, b.lines[i]) /\ c.lines[i].len = b.lines[i].len
  /\ Whole(c, Line(c.lines, y)) = w /\ Line(c.lines, y).len = n

\* One change after another.
LEMMA BecomesTwice ==
  ASSUME NEW b, NEW c, NEW d, NEW y, NEW v, NEW w, NEW m, NEW n,
         Becomes(b, c, y, v, m), Becomes(c, d, y, w, n)
  PROVE  Becomes(b, d, y, w, n)
BY DEF Becomes

\* What it does to the text.
LEMMA BecomesText ==
  ASSUME NEW b, Good(b), NEW y \in Nat, y < Len(b.lines), NEW c, NEW w, NEW n, Becomes(b, c, y, w, n)
  PROVE  /\ Txt(c) = [Txt(b) EXCEPT ![y + 1] = SubSeq(w, 1, n)]
         /\ w \in Seq(Cells) /\ n \in 0 .. Len(w)
         /\ Clean(b) /\ NulAfter(w, n) => Clean(c)
<1> DEFINE k == Len(b.lines)
           t == [Txt(b) EXCEPT ![y + 1] = SubSeq(w, 1, n)]
<1>1. /\ k \in Nat /\ DOMAIN b.lines = 1 .. k /\ Good(c)
      /\ DOMAIN c.lines = 1 .. k /\ Len(c.lines) = k /\ y + 1 \in 1 .. k
  BY LinesType DEF Becomes
<1>2. /\ Txt(c) \in Seq(Seq(Cells)) /\ Len(Txt(c)) = k
      /\ \A i \in 1 .. k : Txt(c)[i] = Content(c, c.lines[i])
  BY <1>1, TxtType
<1>3. /\ Txt(b) \in Seq(Seq(Cells)) /\ Len(Txt(b)) = k
      /\ \A i \in 1 .. k : Txt(b)[i] = Content(b, b.lines[i])
  BY <1>1, TxtType
<1>4. c.lines[y + 1] \in Slices /\ Sound(c, c.lines[y + 1])
  BY <1>1, LinesType
<1>5. w \in Seq(Cells) /\ n \in 0 .. Len(w) /\ Content(c, c.lines[y + 1]) = SubSeq(w, 1, n)
  <2>1. w = Whole(c, c.lines[y + 1]) /\ n = c.lines[y + 1].len
    BY DEF Becomes, Line
  <2> QED BY <1>1, <1>4, <2>1, LineType DEF Content
<1>6. SubSeq(w, 1, n) \in Seq(Cells)
  BY <1>5, SubSeqType
<1>7. t \in Seq(Seq(Cells)) /\ Len(t) = k
      /\ \A i \in 1 .. k : t[i] = IF i = y + 1 THEN SubSeq(w, 1, n) ELSE Txt(b)[i]
  BY <1>1, <1>3, <1>6
<1>8. \A i \in 1 .. k : i # y + 1 => Content(c, c.lines[i]) = Content(b, b.lines[i])
  BY DEF Becomes, Content
<1>9. \A i \in 1 .. k : Txt(c)[i] = t[i]
  BY <1>2, <1>3, <1>5, <1>7, <1>8
<1>10. Txt(c) = t
  <2> HIDE DEF t
  <2> QED BY <1>2, <1>7, <1>9, SameSequence
<1>11. ASSUME Clean(b), NulAfter(w, n) PROVE Clean(c)
  <2>1. \A i \in DOMAIN c.spare : c.spare[i] = Nil
    BY <1>11 DEF Becomes, Clean
  <2>2. \A i \in 1 .. k : NulAfter(Whole(c, c.lines[i]), c.lines[i].len)
    BY <1>1, <1>11 DEF Becomes, Clean, Line
  <2> QED BY <1>1, <2>1, <2>2 DEF Clean
<1> QED BY <1>5, <1>10, <1>11

\* An array with some of its cells overwritten.
Poked(w, x, cells) == [i \in DOMAIN w |-> IF i - x \in DOMAIN cells THEN cells[i - x] ELSE w[i]]

\* The length and the cells of such an array.
LEMMA PokedType ==
  ASSUME NEW w \in Seq(Cells), NEW x \in Nat, NEW cells \in Seq(Cells)
  PROVE  /\ Poked(w, x, cells) \in Seq(Cells) /\ Len(Poked(w, x, cells)) = Len(w)
         /\ \A i \in 1 .. Len(w) : Poked(w, x, cells)[i] =
              IF i - x \in 1 .. Len(cells) THEN cells[i - x] ELSE w[i]
<1> DEFINE k == Len(w)
           e(i) == IF i - x \in 1 .. Len(cells) THEN cells[i - x] ELSE w[i]
<1>1. k \in Nat /\ DOMAIN w = 1 .. k /\ DOMAIN cells = 1 .. Len(cells)
  OBVIOUS
<1>2. \A i \in 1 .. k : e(i) \in Cells
  BY <1>1
<1>3. Poked(w, x, cells) = [i \in 1 .. k |-> e(i)]
  BY <1>1 DEF Poked
<1> HIDE DEF k, e
<1>4. /\ [i \in 1 .. k |-> e(i)] \in Seq(Cells) /\ Len([i \in 1 .. k |-> e(i)]) = k
      /\ \A i \in 1 .. k : [j \in 1 .. k |-> e(j)][i] = e(i)
  BY <1>1, <1>2
<1> QED BY <1>3, <1>4 DEF k, e

\* Poke changes the array of the line, and of no other line.
LEMMA PokeLine ==
  ASSUME NEW b, Good(b), NEW y \in Nat, y < Len(b.lines), NEW x \in Nat, NEW cells \in Seq(Cells)
  PROVE  /\ Becomes(b, Poke(b, y, x, cells), y, Poked(Whole(b, Line(b.lines, y)), x, cells),
                    Line(b.lines, y).len)
         /\ Poke(b, y, x, cells).lines = b.lines
<1> DEFINE l == Line(b.lines, y)
           e(a) == IF a = l.arr THEN Poked(b.heap[a], x, cells) ELSE b.heap[a]
           h == [a \in DOMAIN b.heap |-> e(a)]
           c == Poke(b, y, x, cells)
<1>1. /\ b.lines \in Seq(Slices) /\ Len(b.lines) \in Nat /\ DOMAIN b.lines = 1 .. Len(b.lines)
      /\ b.heap \in Seq(Seq(Cells)) /\ b.spare \in Seq(Slices) /\ b.wx \in Nat /\ b.wy \in Nat
      /\ y + 1 \in 1 .. Len(b.lines) /\ l \in Slices /\ Sound(b, l) /\ l = b.lines[y + 1]
  BY LinesType DEF Line
<1>2. b = [heap |-> b.heap, lines |-> b.lines, spare |-> b.spare, wx |-> b.wx, wy |-> b.wy]
  BY DEF Good, Buffers
<1>3. \A a \in DOMAIN b.heap : b.heap[a] \in Seq(Cells)
  BY <1>1
<1>4. \A a \in DOMAIN b.heap :
        [i \in DOMAIN b.heap[a] |->
           IF a = l.arr /\ i - x \in DOMAIN cells THEN cells[i - x] ELSE b.heap[a][i]] = e(a)
  <2> TAKE a \in DOMAIN b.heap
  <2>1. b.heap[a] = [i \in DOMAIN b.heap[a] |-> b.heap[a][i]]
    BY <1>3
  <2>2. CASE a = l.arr
    BY <2>2 DEF Poked
  <2>3. CASE a # l.arr
    BY <2>1, <2>3
  <2> QED BY <2>2, <2>3
<1>5. c = [heap |-> h, lines |-> b.lines, spare |-> b.spare, wx |-> b.wx, wy |-> b.wy]
  <2>1. c = [b EXCEPT !.heap = h]
    <3> HIDE DEF e
    <3>1. h = [a \in DOMAIN b.heap |-> [i \in DOMAIN b.heap[a] |->
                 IF a = l.arr /\ i - x \in DOMAIN cells THEN cells[i - x] ELSE b.heap[a][i]]]
      BY <1>4
    <3> HIDE DEF h
    <3> QED BY <3>1, Zenon DEF Poke, c, l
  <2> HIDE DEF h, c
  <2> QED BY <1>2, <2>1
<1>6. /\ h \in Seq(Seq(Cells)) /\ DOMAIN h = DOMAIN b.heap /\ \A a \in DOMAIN h : h[a] = e(a)
      /\ \A a \in DOMAIN h : Len(h[a]) = Len(b.heap[a])
  <2>1. \A a \in DOMAIN b.heap : e(a) \in Seq(Cells) /\ Len(e(a)) = Len(b.heap[a])
    BY <1>3, PokedType
  <2>2. Len(b.heap) \in Nat /\ DOMAIN b.heap = 1 .. Len(b.heap)
    BY <1>1
  <2> HIDE DEF e
  <2> QED BY <2>1, <2>2
<1> HIDE DEF h, c
<1>7. c.heap = h /\ c.lines = b.lines /\ c.spare = b.spare /\ c.wx = b.wx /\ c.wy = b.wy
  BY <1>5
<1>8. c \in Buffers
  BY <1>1, <1>5, <1>6 DEF Buffers
<1>9. \A s \in Slices : Sound(b, s) => Sound(c, s)
  BY <1>6, <1>7 DEF Sound
<1>10. Good(c)
  BY <1>7, <1>8, <1>9, LinesType DEF Good, Apart
<1>11. \A i \in 1 .. Len(b.lines) : i # y + 1 => Whole(c, b.lines[i]) = Whole(b, b.lines[i])
  <2> SUFFICES ASSUME NEW i \in 1 .. Len(b.lines), i # y + 1
               PROVE  Whole(c, b.lines[i]) = Whole(b, b.lines[i])
    OBVIOUS
  <2>1. CASE b.lines[i].arr = 0
    BY <2>1 DEF Whole
  <2>2. CASE b.lines[i].arr # 0
    <3>0. b.lines[i] # Nil /\ i \in DOMAIN b.lines
      BY <1>1, <2>2 DEF Nil
    <3>1. b.lines[i].arr # l.arr
      BY <1>1, <3>0 DEF Good, Apart
    <3>2. b.lines[i].arr \in DOMAIN b.heap
      BY <3>0 DEF Good, Sound
    <3> QED BY <1>6, <1>7, <2>2, <3>1, <3>2 DEF Whole
  <2> QED BY <2>1, <2>2
<1>12. Whole(c, l) = Poked(Whole(b, l), x, cells)
  <2>1. CASE l.arr = 0
    BY <2>1 DEF Whole, Poked
  <2>2. CASE l.arr # 0
    <3>1. l.arr \in DOMAIN b.heap
      BY <1>1, <2>2 DEF Sound, Nil
    <3> QED BY <1>6, <1>7, <2>2, <3>1 DEF Whole
  <2> QED BY <2>1, <2>2
<1> QED BY <1>7, <1>10, <1>11, <1>12 DEF Becomes, c, l

\* A buffer with one header replaced, by one that is sound.
Headed(b, y, l) == [b EXCEPT !.lines = [@ EXCEPT ![y + 1] = l]]

\* The header of the line alone changes, to an array that no other line has.
LEMMA HeadLine ==
  ASSUME NEW b, Good(b), NEW y \in Nat, y < Len(b.lines), NEW l \in Slices, Sound(b, l),
         \A i \in 1 .. Len(b.lines) : i # y + 1 /\ b.lines[i].arr = l.arr => l = Nil /\ b.lines[i] = Nil
  PROVE  /\ Becomes(b, Headed(b, y, l), y, Whole(b, l), l.len)
         /\ Headed(b, y, l) = [heap |-> b.heap, lines |-> [b.lines EXCEPT ![y + 1] = l],
                               spare |-> b.spare, wx |-> b.wx, wy |-> b.wy]
<1> DEFINE ls == [b.lines EXCEPT ![y + 1] = l]
           c == Headed(b, y, l)
           k == Len(b.lines)
<1>1. /\ b.lines \in Seq(Slices) /\ k \in Nat /\ DOMAIN b.lines = 1 .. k
      /\ b.heap \in Seq(Seq(Cells)) /\ b.spare \in Seq(Slices) /\ b.wx \in Nat /\ b.wy \in Nat
      /\ y + 1 \in 1 .. k
  BY LinesType
<1>2. b = [heap |-> b.heap, lines |-> b.lines, spare |-> b.spare, wx |-> b.wx, wy |-> b.wy]
  BY DEF Good, Buffers
<1>3. ls \in Seq(Slices) /\ Len(ls) = k /\ DOMAIN ls = 1 .. k
      /\ \A i \in 1 .. k : ls[i] = IF i = y + 1 THEN l ELSE b.lines[i]
  BY <1>1
<1>4. c = [b EXCEPT !.lines = ls]
  BY DEF Headed
<1> HIDE DEF ls, c
<1>5. c = [heap |-> b.heap, lines |-> ls, spare |-> b.spare, wx |-> b.wx, wy |-> b.wy]
  BY <1>2, <1>4
<1>6. c.heap = b.heap /\ c.lines = ls /\ c.spare = b.spare /\ c.wx = b.wx /\ c.wy = b.wy
  BY <1>5
<1>7. c \in Buffers
  BY <1>1, <1>3, <1>5 DEF Buffers
<1>8. \A s : Sound(b, s) => Sound(c, s)
  BY <1>6 DEF Sound
<1>9. Apart(c)
  <2> SUFFICES ASSUME NEW i \in 1 .. k, NEW j \in 1 .. k, i # j, ls[i].arr = ls[j].arr
               PROVE  ls[i] = Nil
    BY <1>3, <1>6 DEF Apart
  <2> QED BY <1>1, <1>3 DEF Good, Apart
<1>10. Good(c)
  BY <1>3, <1>6, <1>7, <1>8, <1>9 DEF Good
<1>11. \A s : Whole(c, s) = Whole(b, s)
  BY <1>6 DEF Whole
<1>12. Becomes(b, c, y, Whole(b, l), l.len)
  BY <1>1, <1>3, <1>6, <1>10, <1>11 DEF Becomes, Line
<1> QED BY <1>5, <1>12 DEF c, ls

\* The line gets another length, as far as its array goes.
LEMMA LenLine ==
  ASSUME NEW b, Good(b), NEW y \in Nat, y < Len(b.lines),
         NEW n \in 0 .. Len(Whole(b, Line(b.lines, y)))
  PROVE  Becomes(b, [b EXCEPT !.lines[y + 1].len = n], y, Whole(b, Line(b.lines, y)), n)
<1> DEFINE o == Line(b.lines, y)
           l == [arr |-> o.arr, len |-> n]
<1>1. /\ b.lines \in Seq(Slices) /\ DOMAIN b.lines = 1 .. Len(b.lines) /\ y + 1 \in DOMAIN b.lines
      /\ o = b.lines[y + 1] /\ o \in Slices /\ Sound(b, o) /\ Len(b.lines) \in Nat
  BY LinesType DEF Line
<1>2. [b.lines[y + 1] EXCEPT !.len = n] = l
  <2>1. o = [arr |-> o.arr, len |-> o.len]
    BY <1>1 DEF Slices
  <2>2. b.lines[y + 1] = o
    BY <1>1
  <2> HIDE DEF o
  <2> QED BY <2>1, <2>2
<1>3. Whole(b, l) = Whole(b, o) /\ l.len = n /\ n \in Nat
  <2> HIDE DEF o
  <2> QED BY DEF Whole
<1>4. l \in Slices
  BY <1>1, <1>3 DEF Slices
<1>5. Sound(b, l)
  <2>1. CASE o.arr = 0
    <3>1. Whole(b, o) = <<>>
      BY <2>1 DEF Whole
    <3>2. Len(Whole(b, o)) = 0
      BY <3>1
    <3>3. n = 0
      BY <3>2
    <3> QED BY <2>1, <3>3 DEF Sound, Nil
  <2>2. CASE o.arr # 0
    <3>1. o.arr \in DOMAIN b.heap
      BY <1>1, <2>2 DEF Sound, Nil
    <3>2. b.heap[o.arr] = Whole(b, o)
      BY <2>2 DEF Whole
    <3>3. b.heap \in Seq(Seq(Cells)) /\ Len(Whole(b, o)) \in Nat /\ n <= Len(Whole(b, o))
      BY <1>1, LinesType, LineType
    <3> HIDE DEF o
    <3> QED BY <3>1, <3>2, <3>3 DEF Sound
  <2> QED BY <2>1, <2>2
<1>6. ASSUME NEW i \in 1 .. Len(b.lines), i # y + 1, b.lines[i].arr = l.arr
      PROVE  l = Nil /\ b.lines[i] = Nil
  <2>1. b.lines[i].arr = o.arr
    BY <1>6
  <2>2. b.lines[i] = Nil /\ o = Nil
    BY <1>1, <1>6, <2>1 DEF Good, Apart
  <2>3. o.arr = 0
    BY <2>2 DEF Nil
  <2>4. Whole(b, o) = <<>>
    BY <2>3 DEF Whole
  <2>5. Len(Whole(b, o)) = 0
    BY <2>4
  <2>6. n = 0
    BY <2>5
  <2> QED BY <2>2, <2>3, <2>6 DEF Nil
<1>7. [b EXCEPT !.lines[y + 1].len = n] = Headed(b, y, l)
  BY <1>2 DEF Headed
<1> HIDE DEF o, l
<1>8. Becomes(b, Headed(b, y, l), y, Whole(b, l), l.len)
  BY <1>4, <1>5, <1>6, HeadLine
<1> QED BY <1>3, <1>7, <1>8 DEF o

\* A line with a new array: what is in it and how much room it has.
FreshArray(cells, slack) ==
  IF cells = <<>> THEN <<>> ELSE Pad(cells, Min({MaxX, Len(cells) + slack}), NUL)

\* Fresh gives the line such an array, and no other line changes.
LEMMA FreshLine ==
  ASSUME NEW b, Good(b), NEW y \in Nat, y < Len(b.lines), NEW cells \in Seq(Cells), NEW slack \in Nat
  PROVE  /\ Becomes(b, Fresh(b, y, cells, slack), y, FreshArray(cells, slack), Len(cells))
         /\ SubSeq(FreshArray(cells, slack), 1, Len(cells)) = cells
         /\ NulAfter(FreshArray(cells, slack), Len(cells))
<1> DEFINE w == FreshArray(cells, slack)
           k == Len(b.heap) + 1
           h == Append(b.heap, w)
           c == [heap |-> h, lines |-> b.lines, spare |-> b.spare, wx |-> b.wx, wy |-> b.wy]
           l == [arr |-> k, len |-> Len(cells)]
<1>1. /\ b.lines \in Seq(Slices) /\ Len(b.lines) \in Nat /\ DOMAIN b.lines = 1 .. Len(b.lines)
      /\ b.heap \in Seq(Seq(Cells)) /\ b.spare \in Seq(Slices) /\ b.wx \in Nat /\ b.wy \in Nat
      /\ y + 1 \in 1 .. Len(b.lines) /\ Len(b.heap) \in Nat /\ DOMAIN b.heap = 1 .. Len(b.heap)
      /\ \A i \in 1 .. Len(b.lines) : b.lines[i] \in Slices /\ Sound(b, b.lines[i])
  BY LinesType
<1>2. b = [heap |-> b.heap, lines |-> b.lines, spare |-> b.spare, wx |-> b.wx, wy |-> b.wy]
  BY DEF Good, Buffers
<1>3. CASE cells = <<>>
  <2>1. Nil \in Slices /\ Sound(b, Nil) /\ Whole(b, Nil) = <<>> /\ Nil.len = 0 /\ Nil.arr = 0
    BY DEF Nil, Slices, Sound, Whole
  <2>2. \A i \in 1 .. Len(b.lines) : b.lines[i].arr = 0 => b.lines[i] = Nil
    BY <1>1 DEF Sound
  <2>3. Fresh(b, y, cells, slack) = Headed(b, y, Nil)
    BY <1>3 DEF Fresh, Headed
  <2>4. Becomes(b, Headed(b, y, Nil), y, Whole(b, Nil), Nil.len)
    BY <2>1, <2>2, HeadLine
  <2>5. w = <<>> /\ Len(cells) = 0
    BY <1>3 DEF FreshArray
  <2>6. NulAfter(<<>>, 0) /\ SubSeq(<<>>, 1, 0) = <<>>
    BY DEF NulAfter
  <2> QED BY <1>3, <2>1, <2>3, <2>4, <2>5, <2>6
<1>4. CASE cells # <<>>
  <2>1. NUL \in Cells /\ MaxX \in Nat /\ Len(cells) \in Nat /\ Len(cells) > 0
    BY <1>4, ViewBufferAssumption DEF Cells, TB!Constants
  <2>2. Min({MaxX, Len(cells) + slack}) \in Int
    BY <2>1, TwoNumbers
  <2>3. w = Pad(cells, Min({MaxX, Len(cells) + slack}), NUL)
    BY <1>4 DEF FreshArray
  <2>4. /\ w \in Seq(Cells) /\ Len(w) >= Len(cells) /\ Len(w) \in Nat
        /\ \A i \in 1 .. Len(cells) : w[i] = cells[i]
        /\ \A i \in Len(cells) + 1 .. Len(w) : w[i] = NUL
    <3> DEFINE m == Min({MaxX, Len(cells) + slack})
    <3>1. m \in Int /\ w = Pad(cells, m, NUL)
      BY <2>2, <2>3
    <3> HIDE DEF m, w
    <3>a. NUL \in Cells /\ m \in Int
      BY <2>1, <3>1
    <3>2. /\ w \in Seq(Cells)
          /\ Len(w) = IF m > Len(cells) THEN m ELSE Len(cells)
      BY <3>a, <3>1, PadType
    <3>3. \A i \in 1 .. Len(cells) : w[i] = cells[i]
      BY <3>a, <3>1, PadType
    <3>4. \A i \in Len(cells) + 1 .. Len(w) : w[i] = NUL
      BY <3>a, <3>1, PadType
    <3>5. Len(w) \in Nat /\ Len(w) >= Len(cells)
      BY <2>1, <3>a, <3>2
    <3> QED BY <3>2, <3>3, <3>4, <3>5
  <2> HIDE DEF w
  <2>5. SubSeq(w, 1, Len(cells)) = cells
    <3>1. Len(cells) \in 0 .. Len(w)
      BY <2>1, <2>4
    <3>2. /\ SubSeq(w, 1, Len(cells)) \in Seq(Cells) /\ Len(SubSeq(w, 1, Len(cells))) = Len(cells)
          /\ \A i \in 1 .. Len(cells) : SubSeq(w, 1, Len(cells))[i] = w[i]
      BY <2>4, <3>1, SubSeqType
    <3> DEFINE front == SubSeq(w, 1, Len(cells))
    <3>3. /\ front \in Seq(Cells) /\ Len(front) = Len(cells)
          /\ \A i \in 1 .. Len(cells) : front[i] = cells[i]
      BY <2>4, <3>2
    <3> HIDE DEF front
    <3>4. front = cells
      BY <3>3, SameSequence
    <3> QED BY <3>4 DEF front
  <2>6. NulAfter(w, Len(cells))
    BY <2>4 DEF NulAfter
  <2>7. /\ h \in Seq(Seq(Cells)) /\ DOMAIN h = 1 .. k /\ h[k] = w
        /\ \A a \in DOMAIN b.heap : h[a] = b.heap[a] /\ a \in DOMAIN h /\ a # k
    BY SMTT(30), <1>1, <2>4
  <2> HIDE DEF h
  <2>8. c.heap = h /\ c.lines = b.lines /\ c.spare = b.spare /\ c.wx = b.wx /\ c.wy = b.wy
    OBVIOUS
  <2>9. c \in Buffers
    BY <1>1, <2>7 DEF Buffers
  <2> HIDE DEF c
  <2>10. \A s : Sound(b, s) => Sound(c, s) /\ s.arr # k /\ Whole(c, s) = Whole(b, s)
    <3> SUFFICES ASSUME NEW s, Sound(b, s)
                 PROVE  Sound(c, s) /\ s.arr # k /\ Whole(c, s) = Whole(b, s)
      OBVIOUS
    <3>1. CASE s = Nil
      <4>1. Nil.arr = 0 /\ 0 # k
        BY <1>1 DEF Nil
      <4> QED BY <3>1, <4>1 DEF Sound, Whole
    <3>2. CASE s.arr \in DOMAIN b.heap /\ s.len <= Len(b.heap[s.arr])
      BY <1>1, <2>7, <2>8, <3>2 DEF Sound, Whole
    <3> QED BY <3>1, <3>2 DEF Sound
  <2>11. Good(c)
    BY <1>1, <2>8, <2>9, <2>10, LinesType DEF Good, Apart
  <2>12. l \in Slices /\ Sound(c, l) /\ Whole(c, l) = w /\ l.len = Len(cells) /\ l.arr = k
    <3>a. k \in Nat /\ k # 0
      BY <1>1
    <3>b. k \in DOMAIN h
      <4> HIDE DEF k
      <4> QED BY <2>7, <3>a
    <3>1. l.len = Len(cells) /\ l.arr = k /\ k \in DOMAIN h /\ k # 0 /\ l \in Slices
      <4> HIDE DEF k
      <4> QED BY <2>1, <3>a, <3>b DEF Slices
    <3> HIDE DEF l, k
    <3> QED BY <2>4, <2>7, <2>8, <3>1 DEF Sound, Whole
  <2>13. Fresh(b, y, cells, slack) = Headed(c, y, l)
    <3>1. Fresh(b, y, cells, slack) = [b EXCEPT !.heap = h, !.lines = [@ EXCEPT ![y + 1] = l]]
      <4>1. h = Append(b.heap, Pad(cells, Min({MaxX, Len(cells) + slack}), NUL))
        BY <2>3 DEF h
      <4> HIDE DEF h
      <4> QED BY <1>4, <4>1 DEF Fresh
    <3>2. [b EXCEPT !.heap = h, !.lines = [@ EXCEPT ![y + 1] = l]]
            = [heap |-> h, lines |-> [b.lines EXCEPT ![y + 1] = l], spare |-> b.spare, wx |-> b.wx, wy |-> b.wy]
      <4> DEFINE ls == [b.lines EXCEPT ![y + 1] = l]
      <4>1. [b EXCEPT !.heap = h, !.lines = [@ EXCEPT ![y + 1] = l]] = WithHeap(b, h, ls)
        BY DEF WithHeap
      <4> HIDE DEF ls
      <4>2. WithHeap(b, h, ls) = [heap |-> h, lines |-> ls, spare |-> b.spare, wx |-> b.wx, wy |-> b.wy]
        BY Fields DEF Good
      <4> QED BY <4>1, <4>2 DEF ls
    <3>3. Headed(c, y, l)
            = [heap |-> h, lines |-> [b.lines EXCEPT ![y + 1] = l], spare |-> b.spare, wx |-> b.wx, wy |-> b.wy]
      <4> DEFINE v == [b.lines EXCEPT ![y + 1] = l]
      <4> HIDE DEF l
      <4>1. c.lines = b.lines
        BY DEF c
      <4>2. Headed(c, y, l) = [c EXCEPT !.lines = v]
        BY <4>1 DEF Headed
      <4> HIDE DEF v
      <4>3. [c EXCEPT !.lines = v] = [heap |-> h, lines |-> v, spare |-> b.spare, wx |-> b.wx, wy |-> b.wy]
        BY DEF c
      <4> QED BY <4>2, <4>3 DEF v
    <3> QED BY <3>1, <3>2, <3>3
  <2> HIDE DEF l, k
  <2>14. Becomes(c, Headed(c, y, l), y, Whole(c, l), l.len)
    <3>1. \A i \in 1 .. Len(c.lines) : c.lines[i].arr # l.arr
      BY <1>1, <2>8, <2>10, <2>12
    <3> QED BY <2>8, <2>11, <2>12, <3>1, HeadLine
  <2>15. Becomes(b, Headed(c, y, l), y, Whole(c, l), l.len)
    <3>1. \A i \in 1 .. Len(b.lines) : Whole(c, b.lines[i]) = Whole(b, b.lines[i])
      BY <1>1, <2>10
    <3> QED BY <2>8, <2>14, <3>1 DEF Becomes
  <2> QED BY <2>5, <2>6, <2>12, <2>13, <2>15 DEF w
<1> QED BY <1>3, <1>4

\* The line y of the text gets another content.
Gets(b, c, y, line) ==
  /\ Good(c) /\ Len(c.lines) = Len(b.lines) /\ c.spare = b.spare /\ c.wx = b.wx /\ c.wy = b.wy
  /\ Txt(c) = [Txt(b) EXCEPT ![y + 1] = line]
  /\ Clean(b) => Clean(c)

\* A line with another array and length has what the array holds up to there.
LEMMA BecomesGets ==
  ASSUME NEW b, Good(b), NEW y \in Nat, y < Len(b.lines), NEW c, NEW w, NEW n, Becomes(b, c, y, w, n),
         NEW line, SubSeq(w, 1, n) = line, Clean(b) => NulAfter(w, n)
  PROVE  Gets(b, c, y, line)
<1>1. Good(c) /\ Len(c.lines) = Len(b.lines) /\ c.spare = b.spare /\ c.wx = b.wx /\ c.wy = b.wy
  BY DEF Becomes
<1>2. Txt(c) = [Txt(b) EXCEPT ![y + 1] = SubSeq(w, 1, n)] /\ (Clean(b) => Clean(c))
  BY BecomesText
<1> QED BY <1>1, <1>2 DEF Gets

\* One change of a line after another.
LEMMA GetsTwice ==
  ASSUME NEW b, Good(b), NEW y \in Nat, y < Len(b.lines), NEW c, NEW d, NEW s \in Seq(Cells), NEW t,
         Gets(b, c, y, s), Gets(c, d, y, t)
  PROVE  Gets(b, d, y, t)
<1>1. Txt(b) \in Seq(Seq(Cells))
  BY TxtType
<1>2. [[Txt(b) EXCEPT ![y + 1] = s] EXCEPT ![y + 1] = t] = [Txt(b) EXCEPT ![y + 1] = t]
  BY <1>1
<1> QED BY <1>2 DEF Gets

\* append to the first n cells of a line: in place or in a new array.
LEMMA AppendCellsLine ==
  ASSUME NEW b, Good(b), NEW y \in Nat, y < Len(b.lines), NEW cells \in Seq(Cells), NEW slack \in Nat,
         NEW n \in 0 .. Len(Whole(b, Line(b.lines, y))), NEW l, l = [arr |-> Line(b.lines, y).arr, len |-> n]
  PROVE  LET old == Whole(b, Line(b.lines, y))
             m == n + Len(cells)
         IN \E w : /\ Becomes(b, AppendCells(b, y, l, cells, slack), y, w, m)
                   /\ SubSeq(w, 1, m) = SubSeq(old, 1, n) \o cells
                   /\ NulAfter(old, m) => NulAfter(w, m)
<1> DEFINE o == Line(b.lines, y)
           old == Whole(b, o)
           m == n + Len(cells)
           c == AppendCells(b, y, l, cells, slack)
<1>1. o \in Slices /\ Sound(b, o)
  <2>1. y + 1 \in 1 .. Len(b.lines)
    BY LinesType
  <2> QED BY <2>1, LinesType DEF Line
<1>2. old \in Seq(Cells) /\ Len(old) \in Nat /\ Len(cells) \in Nat /\ n \in Nat /\ n <= Len(old) /\ m \in Nat
  BY <1>1, LineType
<1>3. Whole(b, l) = old /\ l.len = n /\ Capacity(b, l) = Len(old) /\ Content(b, l) = SubSeq(old, 1, n)
  BY DEF Whole, Capacity, Content
<1>4. /\ SubSeq(old, 1, n) \in Seq(Cells) /\ Len(SubSeq(old, 1, n)) = n
      /\ \A i \in 1 .. n : SubSeq(old, 1, n)[i] = old[i]
  <2> HIDE DEF old
  <2> QED BY <1>2, SubSeqType
<1> DEFINE first == SubSeq(old, 1, n)
           new == first \o cells
<1>5. /\ new \in Seq(Cells) /\ Len(new) = m
      /\ \A i \in 1 .. m : new[i] = IF i <= n THEN old[i] ELSE cells[i - n]
  <2>1. first \in Seq(Cells) /\ Len(first) = n /\ \A i \in 1 .. n : first[i] = old[i]
    BY <1>4
  <2> HIDE DEF first, old
  <2>2. /\ new \in Seq(Cells) /\ Len(new) = m
        /\ \A i \in 1 .. n : new[i] = first[i]
        /\ \A i \in n + 1 .. m : new[i] = cells[i - n]
    <3> DEFINE q == Len(cells)
    <3> HIDE DEF q
    <3>1. Concatenated(Cells, first, cells, n, q)
      BY <2>1, ConcatType DEF q
    <3>2. m = n + q
      BY DEF q
    <3> QED BY <3>1, <3>2 DEF Concatenated
  <2> HIDE DEF new, m
  <2>3. \A i \in 1 .. m : i \in 1 .. n \/ (i \in n + 1 .. m /\ ~(i <= n))
    BY <1>2
  <2> QED BY <2>1, <2>2, <2>3
<1>6. CASE m <= Len(old)
  <2> DEFINE p == Poke(b, y, n, cells)
             w == Poked(old, n, cells)
  <2>1. Becomes(b, p, y, w, o.len) /\ p.lines = b.lines
    BY <1>2, PokeLine
  <2>2. c = [p EXCEPT !.lines[y + 1].len = m]
    BY <1>3, <1>6 DEF AppendCells
  <2>3. /\ w \in Seq(Cells) /\ Len(w) = Len(old)
        /\ \A i \in 1 .. Len(old) : w[i] = IF i - n \in 1 .. Len(cells) THEN cells[i - n] ELSE old[i]
    <3>1. old \in Seq(Cells) /\ n \in Nat
      BY <1>2
    <3> HIDE DEF old
    <3> QED BY <3>1, PokedType
  <2> HIDE DEF p, w, c
  <2>4. Good(p) /\ y < Len(p.lines) /\ Whole(p, Line(p.lines, y)) = w
    BY <2>1 DEF Becomes
  <2> HIDE DEF old
  <2>5. m \in 0 .. Len(w)
    BY <1>2, <1>6, <2>3
  <2>6. Becomes(p, c, y, w, m)
    BY <2>2, <2>4, <2>5, LenLine
  <2>7. Becomes(b, c, y, w, m)
    BY <2>1, <2>6, BecomesTwice
  <2>8. SubSeq(w, 1, m) = new
    <3>1. /\ SubSeq(w, 1, m) \in Seq(Cells) /\ Len(SubSeq(w, 1, m)) = m
          /\ \A i \in 1 .. m : SubSeq(w, 1, m)[i] = w[i]
      BY <2>3, <2>5, SubSeqType
    <3>2. \A i \in 1 .. m : w[i] = new[i]
      <4> HIDE DEF new
      <4> SUFFICES ASSUME NEW i \in 1 .. m PROVE w[i] = new[i]
        OBVIOUS
      <4>1. i \in 1 .. Len(old) /\ (i - n \in 1 .. Len(cells) <=> ~(i <= n))
        BY <1>2, <1>6
      <4> QED BY <1>5, <2>3, <4>1
    <3> HIDE DEF new, m
    <3> QED BY <1>5, <3>1, <3>2, SameSequence
  <2>9. NulAfter(old, m) => NulAfter(w, m)
    <3>1. \A i \in m + 1 .. Len(old) : i \in 1 .. Len(old) /\ i - n \notin 1 .. Len(cells)
      BY <1>2
    <3> HIDE DEF m
    <3> QED BY <2>3, <3>1 DEF NulAfter
  <2> QED BY <2>7, <2>8, <2>9 DEF c, old
<1>7. CASE m > Len(old)
  <2>1. c = Fresh(b, y, new, slack)
    <3>1. ~(l.len + Len(cells) <= Capacity(b, l))
      <4> HIDE DEF old
      <4> QED BY <1>2, <1>3, <1>7
    <3> QED BY <1>3, <3>1 DEF AppendCells
  <2> HIDE DEF new, old, c
  <2>2. /\ Becomes(b, c, y, FreshArray(new, slack), Len(new))
        /\ SubSeq(FreshArray(new, slack), 1, Len(new)) = new
        /\ NulAfter(FreshArray(new, slack), Len(new))
    BY <1>5, <2>1, FreshLine
  <2>3. \E w : Becomes(b, c, y, w, m) /\ SubSeq(w, 1, m) = new /\ NulAfter(w, m)
    BY <1>5, <2>2
  <2> QED BY <2>3 DEF new, c, old
<1>8. m <= Len(old) \/ m > Len(old)
  <2> HIDE DEF old
  <2> QED BY <1>2
<1> QED BY <1>6, <1>7, <1>8

-----------------------------------------------------------------------------
(* Lines are added.                                                        *)

\* The text has n empty lines more.
Extends(b, c, n) ==
  /\ Good(c) /\ Len(c.lines) = Len(b.lines) + n /\ c.wx = b.wx /\ c.wy = b.wy
  /\ Txt(c) = Pad(Txt(b), Len(b.lines) + n, <<>>)
  /\ Clean(b) => Clean(c)

\* Headers without an array.
LEMMA NilsType ==
  ASSUME NEW n \in Int
  PROVE  /\ Nils(n) \in Seq(Slices) /\ Len(Nils(n)) = IF n >= 0 THEN n ELSE 0
         /\ \A i \in 1 .. Len(Nils(n)) : Nils(n)[i] = Nil
<1>1. Nil \in Slices
  BY DEF Nil, Slices
<1> DEFINE k == IF n >= 0 THEN n ELSE 0
<1>2. k \in Nat /\ 1 .. n = 1 .. k
  OBVIOUS
<1>3. Nils(n) = [i \in 1 .. k |-> Nil]
  BY <1>2 DEF Nils
<1> HIDE DEF k
<1>4. [i \in 1 .. k |-> Nil] \in Seq(Slices) /\ Len([i \in 1 .. k |-> Nil]) = k
  BY <1>1, <1>2
<1>5. \A i \in 1 .. k : [j \in 1 .. k |-> Nil][i] = Nil
  OBVIOUS
<1> QED BY <1>3, <1>4, <1>5 DEF k

\* No slice is lost by a larger set of lines.
LEMMA MoreLines ==
  ASSUME NEW b, Good(b), NEW new \in Seq(Slices), \A i \in 1 .. Len(new) : new[i] = Nil,
         NEW sp \in Seq(Slices), \A i \in 1 .. Len(sp) : Sound(b, sp[i]),
         Clean(b) => \A i \in 1 .. Len(sp) : sp[i] = Nil
  PROVE  Extends(b, WithSpare(b, b.lines \o new, sp), Len(new))
<1> DEFINE k == Len(b.lines)
           n == Len(new)
           ls == b.lines \o new
           c == WithSpare(b, ls, sp)
           t == Pad(Txt(b), k + n, <<>>)
<1>1. /\ b.lines \in Seq(Slices) /\ k \in Nat /\ DOMAIN b.lines = 1 .. k /\ n \in Nat
      /\ b.heap \in Seq(Seq(Cells)) /\ b.wx \in Nat /\ b.wy \in Nat
      /\ \A i \in 1 .. k : b.lines[i] \in Slices /\ Sound(b, b.lines[i])
  BY LinesType
<1>2. /\ ls \in Seq(Slices) /\ Len(ls) = k + n
      /\ \A i \in 1 .. k : ls[i] = b.lines[i]
      /\ \A i \in k + 1 .. k + n : ls[i] = Nil
  <2>1. /\ ls \in Seq(Slices) /\ Len(ls) = k + n
        /\ \A i \in 1 .. k : ls[i] = b.lines[i]
        /\ \A i \in k + 1 .. k + n : ls[i] = new[i - k]
    <3>1. Concatenated(Slices, b.lines, new, k, n)
      BY <1>1, ConcatType
    <3> QED BY <3>1 DEF Concatenated
  <2>2. \A i \in k + 1 .. k + n : i - k \in 1 .. n
    BY <1>1
  <2> HIDE DEF ls, k, n
  <2>3. \A i \in k + 1 .. k + n : ls[i] = Nil
    BY <2>1, <2>2 DEF n
  <2> QED BY <2>1, <2>3
<1>3. \A i \in 1 .. k + n : i \in 1 .. k \/ i \in k + 1 .. k + n
  BY <1>1
<1>4. \A i \in 1 .. k + n : (i \in 1 .. k /\ ls[i] = b.lines[i]) \/ (i \in k + 1 .. k + n /\ ls[i] = Nil)
  <2> HIDE DEF ls, k, n
  <2> SUFFICES ASSUME NEW i \in 1 .. k + n
               PROVE  (i \in 1 .. k /\ ls[i] = b.lines[i]) \/ (i \in k + 1 .. k + n /\ ls[i] = Nil)
    OBVIOUS
  <2>1. CASE i \in 1 .. k
    BY <1>2, <2>1
  <2>2. CASE i \in k + 1 .. k + n
    BY <1>2, <2>2
  <2> QED BY <1>3, <2>1, <2>2
<1>5. DOMAIN ls = 1 .. k + n
  <2> HIDE DEF ls
  <2> QED BY <1>2
<1> HIDE DEF ls
<1>6. c = [heap |-> b.heap, lines |-> ls, spare |-> sp, wx |-> b.wx, wy |-> b.wy]
  BY Fields DEF Good
<1> HIDE DEF c
<1>7. c.heap = b.heap /\ c.lines = ls /\ c.spare = sp /\ c.wx = b.wx /\ c.wy = b.wy
  BY <1>6
<1>8. c \in Buffers
  BY <1>1, <1>2, <1>6 DEF Buffers
<1>9. \A s : (Sound(b, s) => Sound(c, s)) /\ Whole(c, s) = Whole(b, s) /\ Content(c, s) = Content(b, s)
  BY <1>7 DEF Sound, Whole, Content
<1>10. Apart(c)
  <2> SUFFICES ASSUME NEW i \in 1 .. k + n, NEW j \in 1 .. k + n, i # j, ls[i].arr = ls[j].arr, ls[i] # Nil
               PROVE  FALSE
    BY <1>5, <1>7 DEF Apart
  <2>1. i \in 1 .. k /\ ls[i] = b.lines[i] /\ b.lines[i].arr # 0
    <3>1. i \in 1 .. k /\ ls[i] = b.lines[i]
      BY <1>4
    <3>2. Sound(b, b.lines[i]) /\ b.lines[i] # Nil
      BY <1>1, <3>1
    <3>3. b.lines[i].arr \in DOMAIN b.heap
      BY <3>2 DEF Sound
    <3>4. Nil.arr = 0 /\ b.heap \in Seq(Seq(Cells))
      BY <1>1 DEF Nil
    <3>5. 0 \notin DOMAIN b.heap
      BY <3>4
    <3> QED BY <3>1, <3>3, <3>5
  <2>2. j \in 1 .. k /\ ls[j] = b.lines[j]
    <3>1. Nil.arr = 0
      BY DEF Nil
    <3> QED BY <1>4, <2>1, <3>1
  <2> QED BY <1>1, <2>1, <2>2 DEF Good, Apart
<1>11. Good(c)
  <2>1. Sound(c, Nil)
    BY DEF Sound
  <2>2. \A i \in 1 .. k + n : Sound(c, ls[i])
    BY <1>1, <1>4, <1>9, <2>1
  <2>3. \A i \in DOMAIN sp : Sound(c, sp[i])
    BY <1>9
  <2> QED BY <1>5, <1>7, <1>8, <1>10, <2>2, <2>3 DEF Good
<1>12. Content(b, Nil) = <<>> /\ Whole(b, Nil) = <<>> /\ Nil.len = 0
  BY DEF Content, Whole, Nil
<1>13. Txt(c) = t
  <2>1. /\ Txt(c) \in Seq(Seq(Cells)) /\ Len(Txt(c)) = k + n
        /\ \A i \in 1 .. k + n : Txt(c)[i] = Content(b, ls[i])
    <3>1. Len(c.lines) = k + n
      BY <1>2, <1>7
    <3>2. /\ Txt(c) \in Seq(Seq(Cells)) /\ Len(Txt(c)) = Len(c.lines)
          /\ \A i \in 1 .. Len(c.lines) : Txt(c)[i] = Content(c, c.lines[i])
      BY <1>11, TxtType
    <3> QED BY <1>7, <1>9, <3>1, <3>2
  <2>2. /\ Txt(b) \in Seq(Seq(Cells)) /\ Len(Txt(b)) = k
        /\ \A i \in 1 .. k : Txt(b)[i] = Content(b, b.lines[i])
    BY TxtType
  <2>3. <<>> \in Seq(Cells) /\ k + n \in Int /\ k + n >= k
    BY <1>1
  <2> DEFINE q == k + n
             tb == Txt(b)
             e == <<>>
  <2>4. q \in Int /\ e \in Seq(Cells) /\ tb \in Seq(Seq(Cells)) /\ t = Pad(tb, q, e) /\ Len(tb) = k
    BY <2>2, <2>3
  <2> HIDE DEF q, tb, e, t
  <2>5. t \in Seq(Seq(Cells)) /\ Len(t) = IF q > Len(tb) THEN q ELSE Len(tb)
    BY <2>4, PadType
  <2>6. \A i \in 1 .. Len(tb) : t[i] = tb[i]
    BY <2>4, PadType
  <2>7. \A i \in Len(tb) + 1 .. Len(t) : t[i] = e
    BY <2>4, PadType
  <2>8. Len(t) = k + n
    BY <1>1, <2>4, <2>5 DEF q
  <2>9. \A i \in 1 .. k + n : Txt(c)[i] = t[i]
    <3> SUFFICES ASSUME NEW i \in 1 .. k + n PROVE Txt(c)[i] = t[i]
      OBVIOUS
    <3>1. CASE i \in 1 .. k /\ ls[i] = b.lines[i]
      BY <2>1, <2>2, <2>4, <2>6, <3>1 DEF tb
    <3>2. CASE i \in k + 1 .. k + n /\ ls[i] = Nil
      BY <1>12, <2>1, <2>4, <2>7, <2>8, <3>2 DEF e
    <3> QED BY <1>4, <3>1, <3>2
  <2> HIDE DEF k, n
  <2> QED BY <2>1, <2>5, <2>8, <2>9, SameSequence
<1>14. ASSUME Clean(b) PROVE Clean(c)
  <2>1. \A i \in DOMAIN c.spare : c.spare[i] = Nil
    BY <1>7, <1>14
  <2>2. \A i \in 1 .. k + n : NulAfter(Whole(b, ls[i]), ls[i].len)
    <3>1. NulAfter(<<>>, 0)
      BY DEF NulAfter
    <3> QED BY <1>1, <1>4, <1>12, <1>14, <3>1 DEF Clean
  <2> QED BY <1>5, <1>7, <1>9, <2>1, <2>2 DEF Clean
<1> QED BY <1>2, <1>7, <1>11, <1>13, <1>14 DEF Extends, c, ls

\* append of nil lines, over headers that are there or not.
LEMMA AppendLinesExtends ==
  ASSUME NEW b, Good(b), NEW n \in Nat, NEW slack \in Nat
  PROVE  Extends(b, AppendLines(b, n, slack), n)
<1> DEFINE m == Min({MaxY + 1, Len(b.lines) + n + slack}) - (Len(b.lines) + n)
           sp == IF n <= Len(b.spare) THEN Drop(b.spare, n) ELSE Nils(m)
<1>1. /\ b.spare \in Seq(Slices) /\ Len(b.spare) \in Nat /\ Len(b.lines) \in Nat /\ MaxY \in Nat
      /\ \A i \in 1 .. Len(b.spare) : Sound(b, b.spare[i])
  BY LinesType, ViewBufferAssumption DEF TB!Constants
<1>2. Nils(n) \in Seq(Slices) /\ Len(Nils(n)) = n /\ \A i \in 1 .. Len(Nils(n)) : Nils(n)[i] = Nil
  BY NilsType
<1>3. m \in Int
  <2>1. Min({MaxY + 1, Len(b.lines) + n + slack}) \in Int
    BY <1>1, TwoNumbers
  <2> QED BY <1>1, <2>1
<1>4. AppendLines(b, n, slack) = WithSpare(b, b.lines \o Nils(n), sp)
  BY DEF AppendLines, WithSpare, Room
<1>5. /\ sp \in Seq(Slices) /\ \A i \in 1 .. Len(sp) : Sound(b, sp[i])
      /\ Clean(b) => \A i \in 1 .. Len(sp) : sp[i] = Nil
  <2>1. CASE n <= Len(b.spare)
    <3>1. /\ sp \in Seq(Slices) /\ Len(sp) = Len(b.spare) - n
          /\ \A i \in 1 .. Len(b.spare) - n : sp[i] = b.spare[n + i]
      BY <1>1, <2>1, DropType
    <3>2. \A i \in 1 .. Len(b.spare) - n : n + i \in 1 .. Len(b.spare)
      BY <1>1
    <3> HIDE DEF sp
    <3>3. \A i \in 1 .. Len(sp) : n + i \in 1 .. Len(b.spare) /\ sp[i] = b.spare[n + i]
      BY <3>1, <3>2
    <3>4. Clean(b) => \A i \in 1 .. Len(b.spare) : b.spare[i] = Nil
      BY <1>1 DEF Clean
    <3> QED BY <1>1, <3>1, <3>3, <3>4
  <2>2. CASE ~(n <= Len(b.spare))
    <3>1. sp = Nils(m)
      BY <2>2
    <3> HIDE DEF sp, m
    <3>2. Nils(m) \in Seq(Slices) /\ \A i \in 1 .. Len(Nils(m)) : Nils(m)[i] = Nil
      BY <1>3, NilsType
    <3> QED BY <3>1, <3>2 DEF Sound
  <2> QED BY <2>1, <2>2
<1> HIDE DEF sp
<1>6. Extends(b, WithSpare(b, b.lines \o Nils(n), sp), Len(Nils(n)))
  BY <1>2, <1>5, MoreLines
<1> QED BY <1>2, <1>4, <1>6

-----------------------------------------------------------------------------
(* Write.                                                                  *)

\* A line with cells written over it.
LEMMA OverType ==
  ASSUME NEW line \in Seq(Cells), NEW x \in 0 .. Len(line), NEW cells \in Seq(Cells)
  PROVE  LET o == TB!Over(line, x, cells)
             k == Len(cells)
         IN /\ o \in Seq(Cells) /\ Len(o) = IF x + k > Len(line) THEN x + k ELSE Len(line)
            /\ \A i \in 1 .. Len(o) : o[i] = IF i <= x THEN line[i]
                                             ELSE IF i <= x + k THEN cells[i - x] ELSE line[i]
<1> DEFINE a == SubSeq(line, 1, x)
           k == Len(cells)
           d == Drop(line, x + k)
           ac == a \o cells
           o == ac \o d
<1>1. Len(line) \in Nat /\ k \in Nat /\ x \in Nat /\ x <= Len(line) /\ x + k \in Nat
  OBVIOUS
<1>2. TB!Over(line, x, cells) = o
  BY DEF TB!Over, TB!Drop, Drop
<1>3. a \in Seq(Cells) /\ Len(a) = x /\ \A i \in 1 .. x : a[i] = line[i]
  BY SubSeqType
<1>4. /\ d \in Seq(Cells) /\ Len(d) = IF x + k <= Len(line) THEN Len(line) - (x + k) ELSE 0
      /\ \A i \in 1 .. Len(line) - (x + k) : d[i] = line[x + k + i]
  <2> DEFINE q == x + k
  <2>1. q \in Nat
    BY <1>1
  <2> HIDE DEF q
  <2>2. /\ Drop(line, q) \in Seq(Cells) /\ Len(Drop(line, q)) = IF q <= Len(line) THEN Len(line) - q ELSE 0
        /\ \A i \in 1 .. Len(line) - q : Drop(line, q)[i] = line[q + i]
    BY <2>1, DropType
  <2> QED BY <2>2 DEF q
<1> HIDE DEF a, d, k
<1>5. ac \in Seq(Cells) /\ Len(ac) = x + k
      /\ (\A i \in 1 .. x : ac[i] = line[i]) /\ (\A i \in x + 1 .. x + k : ac[i] = cells[i - x])
  <2>1. Concatenated(Cells, a, cells, x, k)
    BY <1>3, ConcatType DEF k
  <2> QED BY <1>3, <2>1 DEF Concatenated
<1> HIDE DEF ac
<1> DEFINE q == x + k
           e == Len(d)
           z == Len(line)
<1>q. /\ q \in Nat /\ q = x + k /\ k \in Nat /\ x \in Nat /\ x <= z /\ z \in Nat
      /\ e = IF q <= z THEN z - q ELSE 0
  BY <1>1, <1>4
<1>a. ac \in Seq(Cells) /\ Len(ac) = q /\ d \in Seq(Cells) /\ e = Len(d)
  BY <1>4, <1>5
<1>s. \A i \in 1 .. z - q : d[i] = line[q + i]
  BY <1>4 DEF q
<1> HIDE DEF q, e, z
<1>t. e \in Nat /\ q + e = IF q > z THEN q ELSE z
  BY <1>q
<1>6. Concatenated(Cells, ac, d, q, e)
  BY <1>a, ConcatType
<1>b. /\ o \in Seq(Cells) /\ Len(o) = q + e
      /\ (\A i \in 1 .. q : o[i] = ac[i]) /\ (\A i \in q + 1 .. q + e : o[i] = d[i - q])
  BY <1>6 DEF Concatenated
<1> HIDE DEF o
<1>7. Len(o) = (IF q > z THEN q ELSE z) /\ o \in Seq(Cells)
  BY <1>t, <1>b
<1>8. ASSUME NEW i \in 1 .. Len(o)
      PROVE  o[i] = IF i <= x THEN line[i] ELSE IF i <= q THEN cells[i - x] ELSE line[i]
  <2>n. Len(o) \in Nat /\ Len(o) = q + e
    BY <1>q, <1>t, <1>b
  <2>0. i \in Nat /\ i >= 1 /\ i <= q + e
    BY <2>n
  <2>1. CASE i <= x
    <3>1. i \in 1 .. q /\ i \in 1 .. x
      BY <1>q, <2>0, <2>1
    <3>2. o[i] = ac[i] /\ ac[i] = line[i]
      BY <1>5, <1>b, <3>1
    <3> QED BY <2>1, <3>2
  <2>2. CASE ~(i <= x) /\ i <= q
    <3>1. i \in 1 .. q /\ i \in x + 1 .. x + k
      BY <1>q, <2>0, <2>2
    <3>2. o[i] = ac[i] /\ ac[i] = cells[i - x]
      BY <1>5, <1>b, <3>1
    <3> QED BY <2>2, <3>2
  <2>3. CASE ~(i <= x) /\ ~(i <= q)
    <3>1. i \in q + 1 .. q + e /\ i - q \in 1 .. z - q /\ q + (i - q) = i
      BY <1>q, <1>t, <2>0, <2>3
    <3>2. o[i] = d[i - q] /\ d[i - q] = line[q + (i - q)]
      BY <1>b, <1>s, <3>1
    <3> QED BY <2>3, <3>1, <3>2
  <2> QED BY <2>1, <2>2, <2>3
<1>9. /\ Len(o) = IF x + k > Len(line) THEN x + k ELSE Len(line)
      /\ \A i \in 1 .. Len(o) : o[i] = IF i <= x THEN line[i]
                                       ELSE IF i <= x + k THEN cells[i - x] ELSE line[i]
  BY <1>7, <1>8, Zenon DEF q, z
<1> QED BY <1>2, <1>7, <1>9 DEF k

\* writeCells: the line gets the cells, over what was there and behind it.
LEMMA WriteCellsLine ==
  ASSUME NEW b, Good(b), b.wy < Len(b.lines), b.wx <= Line(b.lines, b.wy).len,
         NEW cells \in Seq(Cells), NEW slack \in Nat
  PROVE  Gets(b, WriteCells(b, cells, slack), b.wy, TB!Over(Txt(b)[b.wy + 1], b.wx, cells))
<1> DEFINE x == b.wx
           y == b.wy
           l == Line(b.lines, y)
           w == Whole(b, l)
           k == Len(cells)
           room == Len(w) - x
           full == Poke(b, y, x, cells)
           p == Poked(w, x, cells)
           line == Txt(b)[y + 1]
           o == TB!Over(line, x, cells)
           c == WriteCells(b, cells, slack)
<1>1. x \in Nat /\ y \in Nat /\ y + 1 \in 1 .. Len(b.lines) /\ l = b.lines[y + 1]
  BY LinesType DEF Line
<1>2. l \in Slices /\ Sound(b, l)
  BY <1>1, LinesType
<1>3. w \in Seq(Cells) /\ Len(w) \in Nat /\ l.len \in Nat /\ l.len <= Len(w) /\ k \in Nat /\ x <= l.len
  BY <1>2, LineType
<1>4. line \in Seq(Cells) /\ Len(line) = l.len /\ \A i \in 1 .. l.len : line[i] = w[i]
  <2>1. line = Content(b, l) /\ line \in Seq(Cells)
    BY <1>1, TxtType
  <2> HIDE DEF line, l
  <2> QED BY <1>2, <2>1, LineType
<1>5. Becomes(b, full, y, p, l.len) /\ full.lines = b.lines
  BY <1>1, PokeLine
<1>6. /\ p \in Seq(Cells) /\ Len(p) = Len(w)
      /\ \A i \in 1 .. Len(w) : p[i] = IF i - x \in 1 .. k THEN cells[i - x] ELSE w[i]
  <2>1. w \in Seq(Cells) /\ x \in Nat
    BY <1>1, <1>3
  <2> HIDE DEF w, x
  <2> QED BY <2>1, PokedType
<1>7. Good(full) /\ y < Len(full.lines) /\ Whole(full, Line(full.lines, y)) = p /\ Line(full.lines, y) = l
  BY <1>5 DEF Becomes
<1>8. /\ o \in Seq(Cells) /\ Len(o) = IF x + k > l.len THEN x + k ELSE l.len
      /\ \A i \in 1 .. Len(o) : o[i] = IF i <= x THEN line[i] ELSE IF i <= x + k THEN cells[i - x] ELSE line[i]
  <2>1. x \in 0 .. Len(line)
    BY <1>1, <1>3, <1>4
  <2> HIDE DEF line, x
  <2> QED BY <1>4, <2>1, OverType
<1>9. Clean(b) => NulAfter(w, l.len)
  BY <1>1, LinesType DEF Clean
<1>10. c = IF room < k
           THEN AppendCells(full, y, [l EXCEPT !.len = x + room], Drop(cells, room), slack)
           ELSE [full EXCEPT !.lines[y + 1].len = Max({@, x + k})]
  BY DEF WriteCells, Capacity
<1> HIDE DEF full, p, w, line, o, c, l
<1>11. CASE room < k
  <2> DEFINE lw == [l EXCEPT !.len = x + room]
             n == Len(w)
             d == Drop(cells, room)
             m == n + Len(d)
  <2>1. x + room = n /\ room \in Nat
    <3>1. x \in Nat /\ n \in Nat /\ x <= n /\ room = n - x
      BY <1>1, <1>3
    <3> HIDE DEF x, n, room
    <3> QED BY <3>1
  <2>2. lw = [arr |-> l.arr, len |-> n]
    <3>1. l = [arr |-> l.arr, len |-> l.len]
      BY <1>2 DEF Slices
    <3> HIDE DEF n, room, x
    <3> QED BY <2>1, <3>1
  <2>3. d \in Seq(Cells) /\ Len(d) = k - room /\ \A i \in 1 .. k - room : d[i] = cells[room + i]
    <3> HIDE DEF room
    <3> QED BY <1>3, <1>11, <2>1, DropType
  <2> HIDE DEF d
  <2>4. m = x + k
    <3>1. Len(d) = k - room /\ k \in Nat /\ x \in Nat
      BY <1>1, <1>3, <2>3
    <3> HIDE DEF k, x
    <3> QED BY <1>3, <3>1
  <2>5. PICK v : /\ Becomes(full, c, y, v, m)
                 /\ SubSeq(v, 1, m) = SubSeq(p, 1, n) \o d
                 /\ NulAfter(p, m) => NulAfter(v, m)
    <3>1. n \in 0 .. Len(Whole(full, Line(full.lines, y)))
      BY <1>3, <1>6, <1>7
    <3>2. lw = [arr |-> Line(full.lines, y).arr, len |-> n]
      BY <1>7, <2>2
    <3>3. c = AppendCells(full, y, lw, d, slack)
      BY <1>10, <1>11 DEF d
    <3> HIDE DEF n, lw, x, y, room
    <3>4. y \in Nat
      BY <1>1
    <3> QED BY <1>7, <2>3, <3>1, <3>2, <3>3, <3>4, AppendCellsLine
  <2>6. SubSeq(p, 1, n) \o d = o
    <3> DEFINE f == SubSeq(p, 1, n)
    <3>1. f \in Seq(Cells) /\ Len(f) = n /\ \A i \in 1 .. n : f[i] = p[i]
      BY <1>3, <1>6, SubSeqType
    <3> HIDE DEF f
    <3> DEFINE g == k - room
    <3>a. /\ n \in Nat /\ l.len \in Nat /\ l.len <= n /\ k \in Nat /\ x \in Nat /\ x <= l.len
          /\ room \in Nat /\ x + room = n /\ room < k
      BY <1>1, <1>3, <1>11, <2>1
    <3>b. d \in Seq(Cells) /\ Len(d) = g /\ \A i \in 1 .. g : d[i] = cells[room + i]
      BY <2>3
    <3> HIDE DEF x, k, n, room
    <3>c. g \in Nat /\ n + g = x + k /\ n <= x + k /\ x + k > l.len
      BY <3>a
    <3> HIDE DEF g
    <3>d. Concatenated(Cells, f, d, n, g)
      BY <3>1, <3>b, ConcatType
    <3>2. /\ f \o d \in Seq(Cells) /\ Len(f \o d) = n + g
          /\ \A i \in 1 .. n : (f \o d)[i] = f[i]
          /\ \A i \in n + 1 .. n + g : (f \o d)[i] = d[i - n]
      BY <3>d DEF Concatenated
    <3>3. Len(o) = x + k /\ Len(f \o d) = x + k
      BY <1>8, <3>2, <3>c
    <3>e. /\ \A i \in 1 .. l.len : line[i] = w[i]
          /\ \A i \in 1 .. n : p[i] = IF i - x \in 1 .. k THEN cells[i - x] ELSE w[i]
      BY <1>4, <1>6 DEF n
    <3>f. \A i \in 1 .. x + k :
            o[i] = IF i <= x THEN line[i] ELSE IF i <= x + k THEN cells[i - x] ELSE line[i]
      BY <1>8, <3>3
    <3>4. ASSUME NEW i \in 1 .. x + k PROVE (f \o d)[i] = o[i]
      <4>0. i \in Nat /\ i >= 1 /\ i <= x + k
        BY <3>a
      <4>1. CASE i <= x
        <5>1. i \in 1 .. n /\ i \in 1 .. l.len /\ i - x \notin 1 .. k
          BY <3>a, <4>0, <4>1
        <5>2. (f \o d)[i] = w[i]
          BY <3>1, <3>2, <3>e, <5>1
        <5>3. o[i] = line[i]
          BY <3>f, <4>1
        <5> QED BY <3>e, <5>1, <5>2, <5>3
      <4>2. CASE ~(i <= x) /\ i <= n
        <5>1. i \in 1 .. n /\ i - x \in 1 .. k
          BY <3>a, <3>c, <4>0, <4>2
        <5>2. (f \o d)[i] = cells[i - x]
          BY <3>1, <3>2, <3>e, <5>1
        <5>3. o[i] = cells[i - x]
          BY <3>f, <4>0, <4>2
        <5> QED BY <5>2, <5>3
      <4>3. CASE i > n
        <5>1. i \in n + 1 .. n + g /\ i - n \in 1 .. g /\ ~(i <= x) /\ room + (i - n) = i - x
          BY <3>a, <3>c, <4>0, <4>3
        <5>2. (f \o d)[i] = cells[room + (i - n)]
          BY <3>2, <3>b, <5>1
        <5>3. o[i] = cells[i - x]
          BY <3>f, <4>0, <5>1
        <5> QED BY <5>1, <5>2, <5>3
      <4>4. i <= x \/ (~(i <= x) /\ i <= n) \/ i > n
        <5>1. i \in Nat /\ n \in Nat /\ x \in Nat
          BY <3>a, <4>0
        <5> QED BY <5>1
      <4> QED BY <4>1, <4>2, <4>3, <4>4, Zenon
    <3> QED BY <1>8, <3>2, <3>3, <3>4, SameSequence DEF f
  <2>7. NulAfter(p, m)
    BY <1>3, <1>6, <1>11, <2>3 DEF NulAfter
  <2>8. Becomes(b, c, y, v, m)
    BY <1>5, <2>5, BecomesTwice
  <2> HIDE DEF m, x
  <2> QED BY <1>1, <2>5, <2>6, <2>7, <2>8, BecomesGets DEF c, o, line, x
<1>12. CASE ~(room < k)
  <2> DEFINE m == IF x + k > l.len THEN x + k ELSE l.len
  <2>1. m \in 0 .. Len(p) /\ m \in Nat
    <3> DEFINE n == Len(w)
               j == l.len
    <3>1. /\ x \in Nat /\ n \in Nat /\ j \in Nat /\ k \in Nat /\ j <= n /\ Len(p) = n
          /\ ~(n - x < k) /\ m = IF x + k > j THEN x + k ELSE j
      BY <1>1, <1>3, <1>6, <1>12
    <3> HIDE DEF x, n, j, k, m
    <3> QED BY <3>1
  <2>2. c = [full EXCEPT !.lines[y + 1].len = m]
    <3>1. full.lines[y + 1].len = l.len
      BY <1>7 DEF Line
    <3>2. Max({l.len, x + k}) = m
      <4> DEFINE q == x + k
      <4>1. q \in Int
        BY <1>1, <1>3
      <4> HIDE DEF q
      <4> DEFINE e == l.len
      <4>a. e \in Int
        BY <1>3
      <4> HIDE DEF e
      <4>2. Max({e, q}) = IF e <= q THEN q ELSE e
        BY <4>a, <4>1, TwoNumbers
      <4>3. Max({e, q}) = IF q > e THEN q ELSE e
        BY <4>a, <4>1, <4>2
      <4> QED BY <4>3 DEF e, q, m
    <3>3. c = [full EXCEPT !.lines[y + 1].len = Max({@, x + k})]
      BY <1>10, <1>12
    <3> HIDE DEF m
    <3> QED BY <3>1, <3>2, <3>3
  <2> HIDE DEF m
  <2>3. Becomes(full, c, y, p, m)
    BY <1>1, <1>7, <2>1, <2>2, LenLine
  <2>4. Becomes(b, c, y, p, m)
    BY <1>5, <2>3, BecomesTwice
  <2>5. SubSeq(p, 1, m) = o
    <3> DEFINE f == SubSeq(p, 1, m)
    <3>1. f \in Seq(Cells) /\ Len(f) = m /\ \A i \in 1 .. m : f[i] = p[i]
      BY <1>6, <2>1, SubSeqType
    <3> HIDE DEF f
    <3>2. Len(o) = m
      BY <1>8 DEF m
    <3>a. /\ l.len \in Nat /\ k \in Nat /\ x \in Nat /\ x <= l.len /\ m \in Nat /\ m <= Len(w)
          /\ m = (IF x + k > l.len THEN x + k ELSE l.len) /\ Len(w) \in Nat
      BY <1>1, <1>3, <1>6, <2>1 DEF m
    <3>b. /\ \A i \in 1 .. l.len : line[i] = w[i]
          /\ \A i \in 1 .. Len(w) : p[i] = IF i - x \in 1 .. k THEN cells[i - x] ELSE w[i]
      BY <1>4, <1>6
    <3>c. \A i \in 1 .. m : o[i] = IF i <= x THEN line[i] ELSE IF i <= x + k THEN cells[i - x] ELSE line[i]
      BY <1>8, <3>2
    <3> HIDE DEF x, k
    <3>3. ASSUME NEW i \in 1 .. m PROVE p[i] = o[i]
      <4>0. i \in Nat /\ i >= 1 /\ i \in 1 .. Len(w)
        BY <3>a
      <4>1. CASE i <= x
        <5>1. i \in 1 .. l.len /\ i - x \notin 1 .. k
          BY <3>a, <4>0, <4>1
        <5> QED BY <3>b, <3>c, <4>0, <4>1, <5>1
      <4>2. CASE ~(i <= x) /\ i <= x + k
        <5>1. i - x \in 1 .. k
          BY <3>a, <4>0, <4>2
        <5> QED BY <3>b, <3>c, <4>0, <4>2, <5>1
      <4>3. CASE ~(i <= x + k)
        <5>1. i \in 1 .. l.len /\ i - x \notin 1 .. k /\ ~(i <= x)
          BY <3>a, <4>0, <4>3
        <5> QED BY <3>b, <3>c, <4>0, <4>3, <5>1
      <4> QED BY <4>1, <4>2, <4>3
    <3> QED BY <1>8, <3>1, <3>2, <3>3, SameSequence DEF f
  <2>6. Clean(b) => NulAfter(p, m)
    <3> SUFFICES ASSUME NulAfter(w, l.len), NEW i \in m + 1 .. Len(p) PROVE p[i] = NUL
      BY <1>9 DEF NulAfter
    <3>1. i \in 1 .. Len(w) /\ i - x \notin 1 .. k /\ i \in l.len + 1 .. Len(w)
      <4>1. /\ l.len \in Nat /\ k \in Nat /\ x \in Nat /\ x <= l.len /\ m \in Nat /\ Len(w) \in Nat
            /\ m = (IF x + k > l.len THEN x + k ELSE l.len) /\ Len(p) = Len(w)
        BY <1>1, <1>3, <1>6, <2>1 DEF m
      <4> HIDE DEF x, k
      <4> QED BY <4>1
    <3> QED BY <1>6, <3>1 DEF NulAfter
  <2> HIDE DEF x
  <2> QED BY <1>1, <2>4, <2>5, <2>6, BecomesGets DEF c, o, line, x
<1> QED BY <1>11, <1>12 DEF c, o, line

-----------------------------------------------------------------------------
(* makeWriteable.                                                          *)

\* What is long enough is not padded.
LEMMA PadNone ==
  ASSUME NEW S, NEW s \in Seq(S), NEW n \in Int, n <= Len(s), NEW e \in S
  PROVE  Pad(s, n, e) = s
<1> DEFINE t == Pad(s, n, e)
<1>1. t \in Seq(S) /\ Len(t) = Len(s) /\ \A i \in 1 .. Len(s) : t[i] = s[i]
  BY PadType
<1> HIDE DEF t
<1>2. t = s
  BY <1>1, SameSequence
<1> QED BY <1>2 DEF t

\* The room that append makes for headers.
LEMMA RoomType ==
  ASSUME NEW b, Good(b), NEW n \in Nat, NEW slack \in Nat
  PROVE  /\ Room(b, n, slack) \in Seq(Slices)
         /\ \A i \in 1 .. Len(Room(b, n, slack)) : Room(b, n, slack)[i] = Nil
<1> DEFINE m == Min({MaxY + 1, Len(b.lines) + n + slack}) - (Len(b.lines) + n)
<1>1. Len(b.lines) \in Nat /\ MaxY \in Nat
  BY LinesType, ViewBufferAssumption DEF TB!Constants
<1>2. Min({MaxY + 1, Len(b.lines) + n + slack}) \in Int
  BY <1>1, TwoNumbers
<1>3. m \in Int
  BY <1>1, <1>2
<1>4. Room(b, n, slack) = Nils(m)
  BY DEF Room
<1> HIDE DEF m
<1> QED BY <1>3, <1>4, NilsType

\* Its first loop: the missing lines are there, and empty.
LEMMA WriteableLinesText ==
  ASSUME NEW b, Good(b), Clean(b), NEW y \in Nat, NEW slack \in Nat
  PROVE  LET c == WriteableLines(b, y, slack)
         IN /\ Good(c) /\ Clean(c) /\ c.wx = b.wx /\ c.wy = b.wy /\ y < Len(c.lines)
            /\ Txt(c) = Pad(Txt(b), y + 1, <<>>)
<1> DEFINE n == y + 1 - Len(b.lines)
           m == IF n <= Len(b.spare) THEN n ELSE Len(b.spare)
           c == WriteableLines(b, y, slack)
           sub == SubSeq(b.spare, 1, m)
           more == Nils(n - m)
           new == sub \o more
           sp == IF n = m THEN Drop(b.spare, m) ELSE Room(b, n, slack)
<1>1. /\ b.lines \in Seq(Slices) /\ b.spare \in Seq(Slices) /\ Len(b.lines) \in Nat /\ Len(b.spare) \in Nat
      /\ \A i \in 1 .. Len(b.spare) : b.spare[i] = Nil
  BY LinesType DEF Clean
<1>2. CASE n <= 0
  <2>1. c = b
    BY <1>2 DEF WriteableLines
  <2>2. y < Len(b.lines)
    BY <1>1, <1>2
  <2>3. Pad(Txt(b), y + 1, <<>>) = Txt(b)
    <3>1. Txt(b) \in Seq(Seq(Cells)) /\ Len(Txt(b)) = Len(b.lines) /\ <<>> \in Seq(Cells)
      BY TxtType
    <3>2. y + 1 \in Int /\ y + 1 <= Len(Txt(b))
      BY <1>1, <2>2, <3>1
    <3> DEFINE t == Txt(b)
               e == <<>>
               q == y + 1
    <3>3. t \in Seq(Seq(Cells)) /\ e \in Seq(Cells) /\ q \in Int /\ q <= Len(t)
      BY <3>1, <3>2
    <3> HIDE DEF t, e, q
    <3>4. Pad(t, q, e) = t
      BY <3>3, PadNone
    <3> QED BY <3>4 DEF t, e, q
  <2> QED BY <2>1, <2>2, <2>3
<1>3. CASE ~(n <= 0)
  <2>1. n \in Nat /\ m \in 0 .. Len(b.spare) /\ n - m \in Nat /\ Len(b.lines) + n = y + 1
    <3> DEFINE i == Len(b.lines)
               j == Len(b.spare)
    <3>1. i \in Nat /\ j \in Nat
      BY <1>1
    <3> HIDE DEF i, j
    <3>2. /\ n \in Nat /\ i + n = y + 1
          /\ n = y + 1 - i /\ m = (IF n <= j THEN n ELSE j)
      BY <1>3, <3>1 DEF i, j
    <3> HIDE DEF n, m
    <3>3. m \in 0 .. j /\ n - m \in Nat
      BY <3>1, <3>2
    <3> QED BY <3>2, <3>3 DEF i, j
  <2>2. c = WithSpare(b, (b.lines \o sub) \o more, sp)
    BY <1>3 DEF WriteableLines, WithSpare
  <2> HIDE DEF c, m, n
  <2>3. sub \in Seq(Slices) /\ Len(sub) = m /\ \A i \in 1 .. m : sub[i] = Nil
    BY <1>1, <2>1, SubSeqType
  <2>4. more \in Seq(Slices) /\ Len(more) = n - m /\ \A i \in 1 .. n - m : more[i] = Nil
    <3> DEFINE k == n - m
    <3>1. k \in Int /\ k >= 0
      BY <2>1
    <3> HIDE DEF k
    <3>2. Nils(k) \in Seq(Slices) /\ Len(Nils(k)) = k /\ \A i \in 1 .. Len(Nils(k)) : Nils(k)[i] = Nil
      BY <3>1, NilsType
    <3> QED BY <3>2 DEF k
  <2> HIDE DEF sub, more
  <2>5. (b.lines \o sub) \o more = b.lines \o new
    <3> DEFINE old == b.lines
    <3>1. old \in Seq(Slices)
      BY <1>1
    <3> HIDE DEF old
    <3>2. (old \o sub) \o more = old \o (sub \o more)
      BY <2>3, <2>4, <3>1, ConcatAssociative
    <3> QED BY <3>2 DEF old
  <2>6. new \in Seq(Slices) /\ Len(new) = n /\ \A i \in 1 .. n : new[i] = Nil
    <3> DEFINE k == n - m
    <3>1. k = Len(more) /\ m = Len(sub)
      BY <2>3, <2>4
    <3>2. k \in Nat /\ m \in Nat /\ n = m + k
      BY <2>1
    <3>3. \A i \in 1 .. k : more[i] = Nil
      BY <2>4
    <3> HIDE DEF k
    <3>4. Concatenated(Slices, sub, more, m, k)
      BY <2>3, <2>4, <3>1, ConcatType
    <3>5. /\ new \in Seq(Slices) /\ Len(new) = m + k
          /\ \A i \in 1 .. m : new[i] = sub[i]
          /\ \A i \in m + 1 .. m + k : new[i] = more[i - m]
      BY <3>4 DEF Concatenated
    <3> HIDE DEF new
    <3>6. \A i \in 1 .. n : i \in 1 .. m \/ (i \in m + 1 .. m + k /\ i - m \in 1 .. k)
      BY <3>2
    <3>7. \A i \in 1 .. n : new[i] = Nil
      BY <2>3, <3>3, <3>5, <3>6
    <3> QED BY <3>2, <3>5, <3>7
  <2>7. sp \in Seq(Slices) /\ \A i \in 1 .. Len(sp) : sp[i] = Nil
    <3>1. CASE n = m
      <4> DEFINE d == Drop(b.spare, m)
      <4>1. m \in Nat /\ m <= Len(b.spare)
        BY <2>1
      <4>2. d \in Seq(Slices) /\ Len(d) = Len(b.spare) - m /\ \A i \in 1 .. Len(b.spare) - m : d[i] = b.spare[m + i]
        BY <1>1, <4>1, DropType
      <4>3. \A i \in 1 .. Len(b.spare) - m : m + i \in 1 .. Len(b.spare)
        BY <1>1, <4>1
      <4> HIDE DEF d
      <4>4. d \in Seq(Slices) /\ \A i \in 1 .. Len(d) : d[i] = Nil
        BY <1>1, <4>2, <4>3
      <4> QED BY <3>1, <4>4 DEF d
    <3>2. CASE n # m
      BY <2>1, <3>2, RoomType
    <3> QED BY <3>1, <3>2
  <2> HIDE DEF new, sp
  <2>8. \A i \in 1 .. Len(sp) : Sound(b, sp[i])
    BY <2>7 DEF Sound
  <2>9. Extends(b, WithSpare(b, b.lines \o new, sp), n)
    BY <2>6, <2>7, <2>8, MoreLines
  <2>10. Extends(b, c, n)
    BY <2>2, <2>5, <2>9
  <2>11. y < y + 1
    OBVIOUS
  <2> QED BY <2>1, <2>10, <2>11 DEF Extends, c
<1> QED BY <1>2, <1>3

\* Padding a line whose array is empty behind it is taking more of the array.
LEMMA PadWhole ==
  ASSUME NEW w \in Seq(Cells), NEW n \in 0 .. Len(w), NulAfter(w, n), NEW x \in Nat, x > n
  PROVE  /\ x <= Len(w) => SubSeq(w, 1, x) = Pad(SubSeq(w, 1, n), x, NUL) /\ NulAfter(w, x)
         /\ x > Len(w) => Pad(w, x, NUL) = Pad(SubSeq(w, 1, n), x, NUL)
<1> DEFINE s == SubSeq(w, 1, n)
           p == Pad(s, x, NUL)
<1>0. NUL \in Cells /\ Len(w) \in Nat /\ n \in Nat /\ n <= Len(w) /\ x \in Int
  BY DEF Cells
<1>1. s \in Seq(Cells) /\ Len(s) = n /\ \A i \in 1 .. n : s[i] = w[i]
  BY SubSeqType
<1> HIDE DEF s
<1>2. /\ p \in Seq(Cells) /\ Len(p) = x
      /\ \A i \in 1 .. n : p[i] = w[i]
      /\ \A i \in n + 1 .. x : p[i] = NUL
  <2>1. /\ p \in Seq(Cells) /\ Len(p) = IF x > Len(s) THEN x ELSE Len(s)
        /\ \A i \in 1 .. Len(s) : p[i] = s[i]
        /\ \A i \in Len(s) + 1 .. Len(p) : p[i] = NUL
    BY <1>0, <1>1, PadType
  <2> HIDE DEF p
  <2>2. Len(p) = x
    BY <1>1, <2>1
  <2> QED BY <1>1, <2>1, <2>2
<1> HIDE DEF p
<1>3. \A i \in 1 .. x : i \in 1 .. n \/ i \in n + 1 .. x
  BY <1>0
<1>4. ASSUME x <= Len(w) PROVE SubSeq(w, 1, x) = p /\ NulAfter(w, x)
  <2> DEFINE t == SubSeq(w, 1, x)
  <2>1. x \in 0 .. Len(w)
    BY <1>0, <1>4
  <2>2. t \in Seq(Cells) /\ Len(t) = x /\ \A i \in 1 .. x : t[i] = w[i]
    BY <2>1, SubSeqType
  <2> HIDE DEF t
  <2>3. \A i \in n + 1 .. x : i \in n + 1 .. Len(w)
    BY <1>0, <1>4
  <2>4. \A i \in 1 .. x : t[i] = p[i]
    BY <1>2, <1>3, <2>2, <2>3 DEF NulAfter
  <2>5. t = p
    BY <1>2, <2>2, <2>4, SameSequence
  <2>6. \A i \in x + 1 .. Len(w) : i \in n + 1 .. Len(w)
    BY <1>0
  <2> QED BY <2>5, <2>6 DEF NulAfter, t
<1>5. ASSUME x > Len(w) PROVE Pad(w, x, NUL) = p
  <2> DEFINE t == Pad(w, x, NUL)
  <2>1. /\ t \in Seq(Cells) /\ Len(t) = IF x > Len(w) THEN x ELSE Len(w)
        /\ \A i \in 1 .. Len(w) : t[i] = w[i]
        /\ \A i \in Len(w) + 1 .. Len(t) : t[i] = NUL
    BY <1>0, PadType
  <2> HIDE DEF t
  <2>2. Len(t) = x
    BY <1>5, <2>1
  <2>3. \A i \in 1 .. x : /\ i \in 1 .. n => i \in 1 .. Len(w)
                          /\ i \in n + 1 .. x => i \in n + 1 .. Len(w) \/ i \in Len(w) + 1 .. x
                          /\ i \in n + 1 .. Len(w) => i \in 1 .. Len(w)
    BY <1>0, <1>5
  <2>4. ASSUME NEW i \in 1 .. x PROVE t[i] = p[i]
    <3>1. CASE i \in 1 .. n
      BY <1>2, <2>1, <2>3, <3>1
    <3>2. CASE i \in n + 1 .. x
      <4>1. CASE i \in n + 1 .. Len(w)
        BY <1>2, <2>1, <2>3, <3>2, <4>1 DEF NulAfter
      <4>2. CASE i \in Len(w) + 1 .. x
        BY <1>2, <2>1, <2>2, <3>2, <4>2
      <4> QED BY <2>3, <3>2, <4>1, <4>2
    <3> QED BY <1>3, <3>1, <3>2
  <2>5. t = p
    BY <1>2, <2>1, <2>2, <2>4, SameSequence
  <2> QED BY <2>5 DEF t
<1> QED BY <1>4, <1>5 DEF p, s

\* Its second loop: the missing cells are there, and empty.
LEMMA WriteableCellsText ==
  ASSUME NEW b, Good(b), Clean(b), NEW y \in Nat, y < Len(b.lines), NEW x \in Nat, NEW slack \in Nat
  PROVE  Gets(b, WriteableCells(b, x, y, slack), y, Pad(Txt(b)[y + 1], x, NUL))
<1> DEFINE l == Line(b.lines, y)
           w == Whole(b, l)
           n == l.len
           line == Txt(b)[y + 1]
           c == WriteableCells(b, x, y, slack)
<1>1. y + 1 \in 1 .. Len(b.lines) /\ l = b.lines[y + 1]
  BY LinesType DEF Line
<1>2. l \in Slices /\ Sound(b, l)
  BY <1>1, LinesType
<1>3. w \in Seq(Cells) /\ n \in 0 .. Len(w) /\ Len(w) \in Nat
  BY <1>2, LineType
<1>4. line = SubSeq(w, 1, n) /\ line \in Seq(Cells) /\ Len(line) = n
  <2>1. line = Content(b, l) /\ line \in Seq(Cells) /\ Len(line) = l.len
    BY <1>1, TxtType
  <2> QED BY <2>1 DEF Content
<1>5. NulAfter(w, n)
  BY <1>1, LinesType DEF Clean
<1>6. c = IF n >= x THEN b
          ELSE IF x <= Len(w) THEN [b EXCEPT !.lines[y + 1].len = x]
          ELSE Fresh(b, y, Pad(w, x, NUL), slack)
  BY DEF WriteableCells, Capacity
<1>0. NUL \in Cells
  BY DEF Cells
<1> HIDE DEF c
<1>7. CASE n >= x
  <2>1. Pad(line, x, NUL) = line
    <3>1. x \in Int /\ x <= Len(line)
      BY <1>3, <1>4, <1>7
    <3> HIDE DEF line
    <3> QED BY <1>0, <1>4, <3>1, PadNone
  <2>2. [Txt(b) EXCEPT ![y + 1] = line] = Txt(b)
    <3>1. Txt(b) \in Seq(Seq(Cells))
      BY TxtType
    <3> QED BY <3>1
  <2>3. c = b
    BY <1>6, <1>7
  <2> QED BY <2>1, <2>2, <2>3 DEF Gets, c
<1>8. CASE ~(n >= x) /\ x <= Len(w)
  <2>1. x \in 0 .. Len(w) /\ x > n
    BY <1>3, <1>8
  <2>2. Becomes(b, c, y, w, x)
    BY <1>6, <1>8, <2>1, LenLine
  <2>3. SubSeq(w, 1, x) = Pad(line, x, NUL) /\ NulAfter(w, x)
    <3> HIDE DEF w, n, line
    <3> QED BY <1>3, <1>4, <1>5, <1>8, <2>1, PadWhole
  <2> QED BY <2>2, <2>3, BecomesGets DEF c
<1>9. CASE ~(n >= x) /\ ~(x <= Len(w))
  <2> DEFINE cells == Pad(w, x, NUL)
             v == FreshArray(cells, slack)
  <2>0. x > n /\ x > Len(w) /\ x \in Int
    BY <1>3, <1>9
  <2>1. cells \in Seq(Cells)
    BY <1>0, <1>3, <2>0, PadType
  <2>2. cells = Pad(line, x, NUL)
    <3> HIDE DEF w, n, line
    <3> QED BY <1>3, <1>4, <1>5, <2>0, PadWhole
  <2>3. c = Fresh(b, y, cells, slack)
    BY <1>6, <1>9
  <2> HIDE DEF cells
  <2>4. Becomes(b, c, y, v, Len(cells)) /\ SubSeq(v, 1, Len(cells)) = cells /\ NulAfter(v, Len(cells))
    BY <2>1, <2>3, FreshLine
  <2> HIDE DEF v
  <2> QED BY <2>2, <2>4, BecomesGets DEF c
<1> QED BY <1>7, <1>8, <1>9

\* Where Write begins: in the lines, and in or right after a line.
Writing(b) == Good(b) /\ b.wy < Len(b.lines) /\ b.wx <= Line(b.lines, b.wy).len

\* makeWriteable does to the text what its comment says, when nothing is
\* left behind the lines or nothing is missing.
LEMMA MakeWriteableText ==
  ASSUME NEW b, Good(b), NEW slack \in Nat, Clean(b) \/ Writing(b)
  PROVE  LET c == MakeWriteable(b, b.wx, b.wy, slack)
         IN /\ Writing(c) /\ c.wx = b.wx /\ c.wy = b.wy /\ (Clean(b) => Clean(c))
            /\ Txt(c) = TB!Writeable(Txt(b), b.wx, b.wy)
<1> DEFINE x == b.wx
           y == b.wy
           all == Pad(Txt(b), y + 1, <<>>)
           c == MakeWriteable(b, x, y, slack)
<1>1. x \in Nat /\ y \in Nat
  BY LinesType
<1>0. TB!Writeable(Txt(b), x, y) = [all EXCEPT ![y + 1] = Pad(all[y + 1], x, NUL)]
  BY DEF TB!Writeable, TB!Pad, Pad
<1>2. CASE Clean(b)
  <2> DEFINE m == WriteableLines(b, y, slack)
  <2>1. Good(m) /\ Clean(m) /\ m.wx = x /\ m.wy = y /\ y < Len(m.lines) /\ Txt(m) = all
    BY <1>1, <1>2, WriteableLinesText
  <2>2. c = WriteableCells(m, x, y, slack)
    BY DEF MakeWriteable
  <2> HIDE DEF m, x, y
  <2>3. Gets(m, c, y, Pad(Txt(m)[y + 1], x, NUL))
    BY <1>1, <2>1, <2>2, WriteableCellsText
  <2>4. Good(c) /\ Len(c.lines) = Len(m.lines) /\ c.wx = x /\ c.wy = y /\ Clean(c)
    BY <2>1, <2>3 DEF Gets
  <2>5. Txt(c) = [all EXCEPT ![y + 1] = Pad(all[y + 1], x, NUL)]
    BY <2>1, <2>3 DEF Gets
  <2>6. x <= Line(c.lines, y).len
    <3> DEFINE p == Pad(all[y + 1], x, NUL)
    <3>1. all \in Seq(Seq(Cells)) /\ y + 1 \in 1 .. Len(all)
      <4>1. Txt(m) \in Seq(Seq(Cells)) /\ Len(Txt(m)) = Len(m.lines) /\ Len(m.lines) \in Nat
        BY <2>1, TxtType, LinesType
      <4> HIDE DEF all
      <4> QED BY <1>1, <2>1, <4>1
    <3> HIDE DEF all
    <3>2. all[y + 1] \in Seq(Cells) /\ NUL \in Cells /\ x \in Int
      BY <1>1, <3>1 DEF Cells
    <3>3. p \in Seq(Cells) /\ Len(p) = IF x > Len(all[y + 1]) THEN x ELSE Len(all[y + 1])
      BY <3>2, PadType
    <3> HIDE DEF p
    <3>4. Len(p) >= x
      BY <3>2, <3>3
    <3>5. Txt(c)[y + 1] = p
      BY <2>5, <3>1 DEF p
    <3>6. Len(Txt(c)[y + 1]) = c.lines[y + 1].len
      <4>1. y + 1 \in 1 .. Len(c.lines)
        BY <1>1, <2>1, <2>4, LinesType
      <4> QED BY <2>4, <4>1, TxtType
    <3> QED BY <3>4, <3>5, <3>6 DEF Line
  <2>7. Writing(c) /\ c.wx = x /\ c.wy = y /\ Clean(c)
    BY <2>1, <2>4, <2>6 DEF Writing
  <2> QED BY <1>0, <2>5, <2>7 DEF x, y
<1>3. CASE Writing(b)
  <2>1. y + 1 \in 1 .. Len(b.lines) /\ y + 1 <= Len(b.lines) /\ Len(b.lines) \in Nat
    BY <1>1, <1>3, LinesType DEF Writing
  <2>2. WriteableLines(b, y, slack) = b
    <3>1. y + 1 - Len(b.lines) <= 0
      BY <1>1, <2>1
    <3> QED BY <3>1 DEF WriteableLines
  <2>3. b.lines[y + 1].len \in Nat
    BY <2>1, LinesType DEF Slices
  <2>4. c = b
    <3>1. Line(b.lines, y).len >= x
      BY <1>1, <1>3, <2>3 DEF Writing, Line
    <3> QED BY <2>2, <3>1 DEF MakeWriteable, WriteableCells
  <2> DEFINE t == Txt(b)
             e == <<>>
             q == y + 1
  <2>5. t \in Seq(Seq(Cells)) /\ e \in Seq(Cells) /\ q \in Int /\ q <= Len(t) /\ all = Pad(t, q, e)
    <3>1. t \in Seq(Seq(Cells)) /\ Len(t) = Len(b.lines)
      BY TxtType
    <3> HIDE DEF t
    <3> QED BY <1>1, <2>1, <3>1 DEF t
  <2>6. t[y + 1] \in Seq(Cells) /\ x \in Int /\ x <= Len(t[y + 1]) /\ NUL \in Cells
    <3>1. t[y + 1] \in Seq(Cells) /\ Len(t[y + 1]) = b.lines[y + 1].len
      BY <2>1, TxtType
    <3> HIDE DEF t
    <3> QED BY <1>1, <1>3, <3>1 DEF Writing, Line, Cells
  <2> HIDE DEF t, e, q
  <2>7. all = t
    BY <2>5, PadNone
  <2>8. Pad(t[y + 1], x, NUL) = t[y + 1]
    <3> HIDE DEF x
    <3> QED BY <2>6, PadNone
  <2>9. [t EXCEPT ![y + 1] = t[y + 1]] = t
    BY <2>5
  <2> HIDE DEF all
  <2> QED BY <1>0, <1>3, <2>4, <2>7, <2>8, <2>9 DEF t
<1> QED BY <1>2, <1>3

\* Only the place of the next Write is another one.
LEMMA Moved ==
  ASSUME NEW b, Good(b), NEW x \in Nat, NEW y \in Nat, NEW c,
         c = [heap |-> b.heap, lines |-> b.lines, spare |-> b.spare, wx |-> x, wy |-> y]
  PROVE  /\ Good(c) /\ Txt(c) = Txt(b) /\ c.lines = b.lines /\ c.wx = x /\ c.wy = y
         /\ Clean(b) => Clean(c)
<1>1. c.heap = b.heap /\ c.lines = b.lines /\ c.spare = b.spare /\ c.wx = x /\ c.wy = y
  OBVIOUS
<1>2. \A s : /\ Sound(b, s) => Sound(c, s)
             /\ Whole(c, s) = Whole(b, s) /\ Content(c, s) = Content(b, s)
  BY <1>1 DEF Sound, Whole, Content
<1>3. c \in Buffers
  BY LinesType DEF Buffers
<1>4. Good(c)
  BY <1>1, <1>2, <1>3 DEF Good, Apart
<1>5. Txt(c) = Txt(b)
  BY <1>1, <1>2 DEF Txt
<1>6. Clean(b) => Clean(c)
  BY <1>1, <1>2 DEF Clean
<1> QED BY <1>1, <1>4, <1>5, <1>6

\* What a rune is written as.
LEMMA CellsOfType ==
  ASSUME NEW r \in Runes \cup {Tab}
  PROVE  TB!CellsOf(r) \in Seq(Cells)
<1>1. Space \in Cells /\ TabWidth \in Nat
  BY ViewBufferAssumption DEF TB!Constants, Cells
<1>2. [i \in 1 .. TabWidth |-> Space] \in Seq(Cells)
  BY <1>1
<1>3. r # Tab => <<r>> \in Seq(Cells)
  BY DEF Cells
<1> QED BY <1>2, <1>3 DEF TB!CellsOf

\* The state of the buffer as the lines of values have it.
Shown(b) == [text |-> Txt(b), wx |-> b.wx, wy |-> b.wy]

\* A rune is written as over lines of values.
LEMMA WriteOneText ==
  ASSUME NEW b, Writing(b), NEW r \in Runes \cup {Newline, Return, Tab}, NEW slack \in Nat
  PROVE  LET c == WriteOne(b, r, slack)
         IN Writing(c) /\ (Clean(b) => Clean(c)) /\ Shown(c) = TB!WriteOne(Shown(b), r)
<1> DEFINE x == b.wx
           y == b.wy
           c == WriteOne(b, r, slack)
           t == Shown(b)
<1>1. Good(b) /\ x \in Nat /\ y \in Nat /\ y < Len(b.lines) /\ x <= Line(b.lines, y).len /\ Len(b.lines) \in Nat
  BY LinesType DEF Writing
<1>2. t.text = Txt(b) /\ t.wx = x /\ t.wy = y
  BY DEF Shown
<1>3. ASSUME NEW d, Good(d) PROVE \A i \in 1 .. Len(d.lines) : d.lines[i].len \in Nat
  BY <1>3, LinesType DEF Slices
<1>0. Newline # Return
  BY ViewBufferAssumption DEF TB!Constants
<1>4. CASE r = Newline
  <2> DEFINE d == IF y + 1 < Len(b.lines) THEN b ELSE AppendLines(b, 1, slack)
  <2>1. /\ Good(d) /\ d.wx = x /\ d.wy = y /\ y + 1 < Len(d.lines) /\ (Clean(b) => Clean(d))
        /\ Txt(d) = Pad(Txt(b), y + 2, <<>>)
    <3>1. CASE y + 1 < Len(b.lines)
      <4> DEFINE q == y + 2
                 e == <<>>
                 tb == Txt(b)
      <4>1. tb \in Seq(Seq(Cells)) /\ Len(tb) = Len(b.lines) /\ e \in Seq(Cells)
        BY <1>1, TxtType
      <4> HIDE DEF tb, e
      <4>2. q \in Int /\ q <= Len(tb)
        BY <1>1, <3>1, <4>1
      <4> HIDE DEF q
      <4>3. Pad(tb, q, e) = tb
        BY <4>1, <4>2, PadNone
      <4>4. d = b
        BY <3>1
      <4> QED BY <1>1, <3>1, <4>3, <4>4 DEF tb, q, e
    <3>2. CASE ~(y + 1 < Len(b.lines))
      <4>1. Len(b.lines) + 1 = y + 2 /\ y + 1 < Len(b.lines) + 1
        BY <1>1, <3>2
      <4>2. d = AppendLines(b, 1, slack)
        BY <3>2
      <4>3. Extends(b, d, 1)
        BY <1>1, <4>2, AppendLinesExtends
      <4> HIDE DEF d
      <4> QED BY <4>1, <4>3 DEF Extends
    <3> QED BY <3>1, <3>2
  <2>2. c = WithWy(d, y + 1, 0)
    <3>1. c = NewLine(b, slack)
      BY <1>0, <1>4 DEF WriteOne
    <3>2. NewLine(b, slack) = WithWy(d, d.wy + 1, 0)
      BY DEF NewLine, WithWy
    <3> HIDE DEF d
    <3> QED BY <2>1, <3>1, <3>2
  <2> HIDE DEF d, c
  <2>3. c = [heap |-> d.heap, lines |-> d.lines, spare |-> d.spare, wx |-> 0, wy |-> y + 1]
    BY <2>1, <2>2, Fields DEF Good
  <2>4. y + 1 \in Nat /\ 0 \in Nat
    BY <1>1
  <2>5. Good(c) /\ Txt(c) = Txt(d) /\ c.lines = d.lines /\ c.wx = 0 /\ c.wy = y + 1 /\ (Clean(d) => Clean(c))
    BY <2>1, <2>3, <2>4, Moved
  <2>6. Writing(c)
    <3>1. y + 1 + 1 \in 1 .. Len(d.lines)
      BY <1>1, <2>1, LinesType
    <3>2. d.lines[y + 1 + 1].len \in Nat
      BY <1>3, <2>1, <3>1
    <3>3. 0 <= Line(c.lines, y + 1).len
      BY <2>5, <3>2 DEF Line
    <3> QED BY <2>1, <2>5, <3>3 DEF Writing
  <2>7. TB!WriteOne(t, r) = [text |-> Pad(Txt(b), y + 2, <<>>), wx |-> 0, wy |-> y + 1]
    <3>1. TB!WriteOne(t, r) = [text |-> TB!Pad(t.text, t.wy + 2, <<>>), wx |-> 0, wy |-> t.wy + 1]
      <4> HIDE DEF t
      <4> QED BY <1>0, <1>4 DEF TB!WriteOne
    <3>2. TB!Pad(t.text, t.wy + 2, <<>>) = Pad(t.text, t.wy + 2, <<>>)
      BY DEF TB!Pad, Pad
    <3> HIDE DEF t
    <3> QED BY <1>2, <3>1, <3>2
  <2>8. Shown(c) = TB!WriteOne(t, r)
    BY <2>1, <2>5, <2>7 DEF Shown
  <2> QED BY <2>1, <2>5, <2>6, <2>8 DEF c
<1>5. CASE r = Return /\ r # Newline
  <2>1. c = WithWx(b, 0)
    BY <1>5 DEF WriteOne, WithWx
  <2> HIDE DEF c
  <2>2. c = [heap |-> b.heap, lines |-> b.lines, spare |-> b.spare, wx |-> 0, wy |-> y]
    BY <1>1, <2>1, Fields DEF Good
  <2>3. Good(c) /\ Txt(c) = Txt(b) /\ c.lines = b.lines /\ c.wx = 0 /\ c.wy = y /\ (Clean(b) => Clean(c))
    BY <1>1, <2>2, Moved
  <2>4. Writing(c)
    <3>1. y + 1 \in 1 .. Len(b.lines)
      BY <1>1
    <3>2. 0 <= Line(c.lines, y).len
      BY <1>1, <1>3, <2>3, <3>1 DEF Line
    <3> QED BY <1>1, <2>3, <3>2 DEF Writing
  <2>5. TB!WriteOne(t, r) = [text |-> Txt(b), wx |-> 0, wy |-> y]
    <3>1. TB!WriteOne(t, r) = [t EXCEPT !.wx = 0]
      BY <1>5 DEF TB!WriteOne
    <3> QED BY <3>1 DEF Shown
  <2>6. Shown(c) = TB!WriteOne(t, r)
    BY <2>3, <2>5 DEF Shown
  <2> QED BY <2>3, <2>4, <2>6 DEF c
<1>6. CASE r # Return /\ r # Newline
  <2> DEFINE cells == TB!CellsOf(r)
             k == Len(cells)
             d == WriteCells(b, cells, slack)
             o == TB!Over(Txt(b)[y + 1], x, cells)
  <2>1. cells \in Seq(Cells)
    BY <1>6, CellsOfType
  <2>2. c = WithWx(d, d.wx + k)
    BY <1>6 DEF WriteOne, WithWx
  <2>3. TB!WriteOne(t, r) = [t EXCEPT !.text[t.wy + 1] = TB!Over(t.text[t.wy + 1], t.wx, cells), !.wx = t.wx + k]
    BY <1>6 DEF TB!WriteOne
  <2> HIDE DEF cells, c
  <2>4. Gets(b, d, y, o)
    BY <1>1, <2>1, WriteCellsLine
  <2>5. k \in Nat /\ x + k \in Nat
    BY <1>1, <2>1
  <2> HIDE DEF d
  <2>6. d.wx = x /\ d.wy = y /\ Good(d) /\ Len(d.lines) = Len(b.lines) /\ (Clean(b) => Clean(d))
        /\ Txt(d) = [Txt(b) EXCEPT ![y + 1] = o]
    BY <2>4 DEF Gets
  <2>7. c = [heap |-> d.heap, lines |-> d.lines, spare |-> d.spare, wx |-> x + k, wy |-> y]
    <3>1. c = WithWx(d, x + k)
      BY <2>2, <2>6
    <3> HIDE DEF k, x, y
    <3> QED BY <2>6, <3>1, Fields DEF Good
  <2>8. Good(c) /\ Txt(c) = Txt(d) /\ c.lines = d.lines /\ c.wx = x + k /\ c.wy = y /\ (Clean(d) => Clean(c))
    <3> DEFINE q == x + k
    <3>1. q \in Nat /\ y \in Nat
      BY <1>1, <2>5
    <3>2. c = [heap |-> d.heap, lines |-> d.lines, spare |-> d.spare, wx |-> q, wy |-> y]
      BY <2>7
    <3> HIDE DEF q, y
    <3>3. Good(c) /\ Txt(c) = Txt(d) /\ c.lines = d.lines /\ c.wx = q /\ c.wy = y /\ (Clean(d) => Clean(c))
      <4>1. Good(d)
        BY <2>6
      <4> HIDE DEF x, k, o
      <4> QED BY <3>1, <3>2, <4>1, Moved
    <3> QED BY <3>3 DEF q
  <2>9. y + 1 \in 1 .. Len(b.lines)
    BY <1>1
  <2>10. Len(o) >= x + k
    <3> DEFINE line == Txt(b)[y + 1]
    <3>1. line \in Seq(Cells) /\ Len(line) = b.lines[y + 1].len
      BY <1>1, <2>9, TxtType
    <3> HIDE DEF line
    <3>2. x \in 0 .. Len(line)
      BY <1>1, <3>1 DEF Line
    <3>3. Len(TB!Over(line, x, cells)) = IF x + k > Len(line) THEN x + k ELSE Len(line)
      <4> HIDE DEF x
      <4> QED BY <2>1, <3>1, <3>2, OverType
    <3>4. o = TB!Over(line, x, cells)
      BY DEF line
    <3> HIDE DEF o, x, k
    <3>5. Len(line) \in Nat /\ x \in Nat /\ k \in Nat
      BY <1>1, <2>5, <3>1
    <3> QED BY <3>3, <3>4, <3>5
  <2> HIDE DEF o
  <2>11. x + k <= Line(c.lines, y).len
    <3>1. Txt(d)[y + 1] = o
      <4>1. Txt(b) \in Seq(Seq(Cells)) /\ Len(Txt(b)) = Len(b.lines)
        BY <1>1, TxtType
      <4> QED BY <2>6, <2>9, <4>1
    <3>2. Len(Txt(d)[y + 1]) = d.lines[y + 1].len
      BY <2>6, <2>9, TxtType
    <3>3. Line(c.lines, y).len = Len(o)
      BY <2>8, <3>1, <3>2 DEF Line
    <3>4. d.lines[y + 1].len \in Nat
      BY <1>3, <2>6, <2>9
    <3>5. Len(o) \in Nat
      BY <3>1, <3>2, <3>4
    <3> HIDE DEF x, k
    <3> QED BY <1>1, <2>5, <2>10, <3>3, <3>5
  <2>12. Writing(c)
    <3>1. Len(c.lines) = Len(b.lines)
      BY <2>6, <2>8
    <3> QED BY <1>1, <2>8, <2>11, <3>1 DEF Writing
  <2>13. TB!WriteOne(t, r) = [text |-> [Txt(b) EXCEPT ![y + 1] = o], wx |-> x + k, wy |-> y]
    <3>1. PICK u : u = [t EXCEPT !.text[t.wy + 1] = TB!Over(t.text[t.wy + 1], t.wx, cells)]
      OBVIOUS
    <3>2. PICK new : new = [Txt(b) EXCEPT ![y + 1] = o]
      OBVIOUS
    <3>3. t.text[t.wy + 1] = Txt(b)[y + 1]
      BY <1>2
    <3>4. u = [t EXCEPT !.text = [t.text EXCEPT ![y + 1] = o]]
      BY <1>2, <3>1, <3>3 DEF o
    <3>5. u = [t EXCEPT !.text = new]
      BY <1>2, <3>2, <3>4
    <3> HIDE DEF k, x, y
    <3>6. u = [text |-> new, wx |-> x, wy |-> y]
      BY <3>5 DEF Shown, x, y
    <3>7. TB!WriteOne(t, r) = [u EXCEPT !.wx = x + k]
      BY <1>2, <2>3, <3>1
    <3>8. [u EXCEPT !.wx = x + k] = [text |-> new, wx |-> x + k, wy |-> y]
      BY <3>6
    <3> QED BY <3>2, <3>7, <3>8
  <2>14. Shown(c) = TB!WriteOne(t, r)
    BY <2>6, <2>8, <2>13 DEF Shown
  <2> QED BY <2>6, <2>8, <2>12, <2>14 DEF c
<1> QED BY <1>4, <1>5, <1>6

\* WriteAll: the values after each rune of a Write, from the first one.
Written(b, p, slack, n, g) ==
  g = [i \in 0 .. n |-> IF i = 0 THEN b ELSE WriteOne(g[i - 1], p[i], slack)]

\* There is such a function, by induction on n.
LEMMA WrittenExists ==
  ASSUME NEW b, NEW p, NEW slack, NEW n \in Nat
  PROVE  \E g : Written(b, p, slack, n, g)
<1> DEFINE P(k) == \E g : Written(b, p, slack, k, g)
           T == {k \in Nat : ~P(k)}
<1>1. P(0)
  <2> DEFINE g == [i \in 0 .. 0 |-> b]
  <2>1. \A i \in 0 .. 0 : g[i] = IF i = 0 THEN b ELSE WriteOne(g[i - 1], p[i], slack)
    OBVIOUS
  <2>2. g = [i \in 0 .. 0 |-> g[i]]
    OBVIOUS
  <2> HIDE DEF g
  <2>3. g = [i \in 0 .. 0 |-> IF i = 0 THEN b ELSE WriteOne(g[i - 1], p[i], slack)]
    BY <2>1, <2>2
  <2> QED BY <2>3 DEF Written
<1>2. ASSUME NEW k \in Nat, P(k)
      PROVE  P(k + 1)
  <2> PICK g : Written(b, p, slack, k, g)
    BY <1>2
  <2> DEFINE v == WriteOne(g[k], p[k + 1], slack)
             h == [i \in 0 .. k + 1 |-> IF i <= k THEN g[i] ELSE v]
  <2>1. ASSUME NEW i \in 0 .. k + 1
        PROVE  h[i] = IF i = 0 THEN b ELSE WriteOne(h[i - 1], p[i], slack)
    <3>1. CASE i = 0
      <4>1. h[i] = g[0] /\ 0 \in 0 .. k
        BY <3>1
      <4>2. g[0] = b
        BY <4>1 DEF Written
      <4> QED BY <3>1, <4>1, <4>2
    <3>2. CASE i # 0 /\ i <= k
      <4>1. i \in 0 .. k /\ i - 1 \in 0 .. k + 1 /\ i - 1 <= k
        BY <3>2
      <4>2. h[i] = g[i] /\ h[i - 1] = g[i - 1]
        BY <4>1
      <4>3. g[i] = WriteOne(g[i - 1], p[i], slack)
        BY <3>2, <4>1 DEF Written
      <4> HIDE DEF h
      <4> QED BY <3>2, <4>2, <4>3
    <3>3. CASE i = k + 1
      <4>1. k \in 0 .. k + 1 /\ i # 0 /\ ~(i <= k) /\ i - 1 = k /\ k <= k
        BY <3>3
      <4>2. h[i] = v
        BY <4>1
      <4>3. h[k] = g[k]
        BY <4>1
      <4> HIDE DEF h
      <4> QED BY <3>3, <4>1, <4>2, <4>3
    <3> QED BY <3>1, <3>2, <3>3
  <2>2. h = [i \in 0 .. k + 1 |-> h[i]]
    OBVIOUS
  <2> HIDE DEF h
  <2>3. h = [i \in 0 .. k + 1 |-> IF i = 0 THEN b ELSE WriteOne(h[i - 1], p[i], slack)]
    BY <2>1, <2>2
  <2> QED BY <2>3 DEF Written
<1> HIDE DEF P
<1>3. SUFFICES ASSUME T # {} PROVE FALSE
  BY DEF P
<1>4. T \subseteq Nat
  OBVIOUS
<1>5. PICK m \in T : \A k \in T : m <= k
  <2> HIDE DEF T
  <2> QED BY <1>3, <1>4, Least
<1>6. m - 1 \in Nat /\ m - 1 + 1 = m
  BY <1>1, <1>5
<1>7. m - 1 \notin T
  <2>1. ~(m <= m - 1)
    BY <1>6
  <2> QED BY <1>5, <2>1
<1>8. P(m - 1)
  BY <1>6, <1>7
<1>9. P(m - 1 + 1)
  BY <1>2, <1>6, <1>8
<1> QED BY <1>5, <1>6, <1>9

\* WriteAll of TextBuffer: the values after each rune of a Write, from the first one.
WrittenLines(b, p, n, g) ==
  g = [i \in 0 .. n |-> IF i = 0 THEN b ELSE TB!WriteOne(g[i - 1], p[i])]

\* There is such a function, by induction on n.
LEMMA WrittenLinesExists ==
  ASSUME NEW b, NEW p, NEW n \in Nat
  PROVE  \E g : WrittenLines(b, p, n, g)
<1> DEFINE P(k) == \E g : WrittenLines(b, p, k, g)
           T == {k \in Nat : ~P(k)}
<1>1. P(0)
  <2> DEFINE g == [i \in 0 .. 0 |-> b]
  <2>1. \A i \in 0 .. 0 : g[i] = IF i = 0 THEN b ELSE TB!WriteOne(g[i - 1], p[i])
    OBVIOUS
  <2>2. g = [i \in 0 .. 0 |-> g[i]]
    OBVIOUS
  <2> HIDE DEF g
  <2>3. g = [i \in 0 .. 0 |-> IF i = 0 THEN b ELSE TB!WriteOne(g[i - 1], p[i])]
    BY <2>1, <2>2
  <2> QED BY <2>3 DEF WrittenLines
<1>2. ASSUME NEW k \in Nat, P(k)
      PROVE  P(k + 1)
  <2> PICK g : WrittenLines(b, p, k, g)
    BY <1>2
  <2> DEFINE v == TB!WriteOne(g[k], p[k + 1])
             h == [i \in 0 .. k + 1 |-> IF i <= k THEN g[i] ELSE v]
  <2>1. ASSUME NEW i \in 0 .. k + 1
        PROVE  h[i] = IF i = 0 THEN b ELSE TB!WriteOne(h[i - 1], p[i])
    <3>1. CASE i = 0
      <4>1. h[i] = g[0] /\ 0 \in 0 .. k
        BY <3>1
      <4>2. g[0] = b
        BY <4>1 DEF WrittenLines
      <4> QED BY <3>1, <4>1, <4>2
    <3>2. CASE i # 0 /\ i <= k
      <4>1. i \in 0 .. k /\ i - 1 \in 0 .. k + 1 /\ i - 1 <= k
        BY <3>2
      <4>2. h[i] = g[i] /\ h[i - 1] = g[i - 1]
        BY <4>1
      <4>3. g[i] = TB!WriteOne(g[i - 1], p[i])
        BY <3>2, <4>1 DEF WrittenLines
      <4> HIDE DEF h
      <4> QED BY <3>2, <4>2, <4>3
    <3>3. CASE i = k + 1
      <4>1. k \in 0 .. k + 1 /\ i # 0 /\ ~(i <= k) /\ i - 1 = k /\ k <= k
        BY <3>3
      <4>2. h[i] = v
        BY <4>1
      <4>3. h[k] = g[k]
        BY <4>1
      <4> HIDE DEF h
      <4> QED BY <3>3, <4>1, <4>2, <4>3
    <3> QED BY <3>1, <3>2, <3>3
  <2>2. h = [i \in 0 .. k + 1 |-> h[i]]
    OBVIOUS
  <2> HIDE DEF h
  <2>3. h = [i \in 0 .. k + 1 |-> IF i = 0 THEN b ELSE TB!WriteOne(h[i - 1], p[i])]
    BY <2>1, <2>2
  <2> QED BY <2>3 DEF WrittenLines
<1> HIDE DEF P
<1>3. SUFFICES ASSUME T # {} PROVE FALSE
  BY DEF P
<1>4. T \subseteq Nat
  OBVIOUS
<1>5. PICK m \in T : \A k \in T : m <= k
  <2> HIDE DEF T
  <2> QED BY <1>3, <1>4, Least
<1>6. m - 1 \in Nat /\ m - 1 + 1 = m
  BY <1>1, <1>5
<1>7. m - 1 \notin T
  <2>1. ~(m <= m - 1)
    BY <1>6
  <2> QED BY <1>5, <2>1
<1>8. P(m - 1)
  BY <1>6, <1>7
<1>9. P(m - 1 + 1)
  BY <1>2, <1>6, <1>8
<1> QED BY <1>5, <1>6, <1>9

\* What Write is given.
Input == Runes \cup {Newline, Return, Tab}

\* writeRunes: all runes as over lines of values.
LEMMA WriteAllText ==
  ASSUME NEW b, Writing(b), NEW p \in Seq(Input), NEW slack \in Nat
  PROVE  LET c == WriteAll(b, p, slack)
         IN Writing(c) /\ (Clean(b) => Clean(c)) /\ Shown(c) = TB!WriteAll(Shown(b), p)
<1> DEFINE n == Len(p)
           t == Shown(b)
           g == CHOOSE f : f = [i \in 0 .. n |-> IF i = 0 THEN b ELSE WriteOne(f[i - 1], p[i], slack)]
           h == CHOOSE f : f = [i \in 0 .. n |-> IF i = 0 THEN t ELSE TB!WriteOne(f[i - 1], p[i])]
           Same(i) == Writing(g[i]) /\ (Clean(b) => Clean(g[i])) /\ h[i] = Shown(g[i])
           T == {i \in 0 .. n : ~Same(i)}
<1>1. n \in Nat
  OBVIOUS
<1>2. Written(b, p, slack, n, g)
  <2>1. \E f : Written(b, p, slack, n, f)
    BY <1>1, WrittenExists
  <2> QED BY <2>1 DEF Written
<1>3. WrittenLines(t, p, n, h)
  <2>1. \E f : WrittenLines(t, p, n, f)
    BY <1>1, WrittenLinesExists
  <2> QED BY <2>1 DEF WrittenLines
<1>4. WriteAll(b, p, slack) = g[n] /\ TB!WriteAll(t, p) = h[n]
  BY DEF WriteAll, TB!WriteAll
<1> HIDE DEF g, h, n, t
<1>5. /\ \A i \in 0 .. n : g[i] = IF i = 0 THEN b ELSE WriteOne(g[i - 1], p[i], slack)
      /\ \A i \in 0 .. n : h[i] = IF i = 0 THEN t ELSE TB!WriteOne(h[i - 1], p[i])
  BY <1>2, <1>3 DEF Written, WrittenLines
<1>6. Same(0)
  BY <1>1, <1>5 DEF t
<1>7. ASSUME NEW i \in 1 .. n, Same(i - 1)
      PROVE  Same(i)
  <2>1. i \in 0 .. n /\ i # 0
    BY <1>1
  <2>2. g[i] = WriteOne(g[i - 1], p[i], slack) /\ h[i] = TB!WriteOne(h[i - 1], p[i])
    BY <1>5, <2>1
  <2>3. p[i] \in Runes \cup {Newline, Return, Tab}
    BY DEF Input, n
  <2> QED BY <1>7, <2>2, <2>3, WriteOneText
<1> HIDE DEF Same
<1>8. T = {}
  <2> SUFFICES ASSUME T # {} PROVE FALSE
    OBVIOUS
  <2>1. T \subseteq Nat
    BY <1>1
  <2>2. PICK m \in T : \A k \in T : m <= k
    <3> HIDE DEF T
    <3> QED BY <2>1, Least
  <2>3. m \in 1 .. n /\ m - 1 \in 0 .. n /\ ~(m <= m - 1)
    BY <1>1, <1>6, <2>2
  <2>4. Same(m - 1)
    BY <2>2, <2>3
  <2> QED BY <1>7, <2>2, <2>3, <2>4
<1>9. Same(n)
  BY <1>1, <1>8
<1> QED BY <1>4, <1>9 DEF Same, t

-----------------------------------------------------------------------------
(* writeRune.                                                              *)

\* Lines up to y are there, by append.
Longer(b, y, slack) == IF y < Len(b.lines) THEN b ELSE AppendLines(b, y + 1 - Len(b.lines), slack)

\* The missing lines are empty ones.
LEMMA LongerText ==
  ASSUME NEW b, Good(b), NEW y \in Nat, NEW slack \in Nat
  PROVE  LET d == Longer(b, y, slack)
         IN /\ Good(d) /\ d.wx = b.wx /\ d.wy = b.wy /\ y < Len(d.lines) /\ (Clean(b) => Clean(d))
            /\ Txt(d) = Pad(Txt(b), y + 1, <<>>)
<1> DEFINE k == Len(b.lines)
           n == y + 1 - k
           d == IF y < k THEN b ELSE AppendLines(b, n, slack)
<1>0. Longer(b, y, slack) = d
  BY DEF Longer
<1>1. k \in Nat
  BY LinesType
<1>2. CASE y < k
  <2> DEFINE q == y + 1
             e == <<>>
             tb == Txt(b)
  <2>1. tb \in Seq(Seq(Cells)) /\ Len(tb) = k /\ e \in Seq(Cells)
    BY TxtType
  <2> HIDE DEF tb, e
  <2>2. q \in Int /\ q <= Len(tb)
    <3> HIDE DEF k
    <3> QED BY <1>1, <1>2, <2>1
  <2> HIDE DEF q
  <2>3. Pad(tb, q, e) = tb
    BY <2>1, <2>2, PadNone
  <2>4. d = b
    BY <1>2
  <2> HIDE DEF d
  <2> QED BY <1>0, <1>2, <2>3, <2>4 DEF tb, q, e
<1>3. CASE ~(y < k)
  <2>1. n \in Nat /\ k + n = y + 1 /\ y < k + n
    <3> HIDE DEF k
    <3> QED BY <1>1, <1>3
  <2>2. d = AppendLines(b, n, slack)
    BY <1>3
  <2> HIDE DEF d, n
  <2>3. Extends(b, d, n)
    BY <2>1, <2>2, AppendLinesExtends
  <2> QED BY <1>0, <2>1, <2>3 DEF Extends
<1> QED BY <1>2, <1>3

\* The length of the line after it.
NewLen(n, x, overwrite) == IF x >= n THEN x + 1 ELSE IF overwrite THEN n ELSE n + 1
\* And its cells.
NewCell(u, x, ch, overwrite, i) ==
  IF i <= x THEN IF i <= Len(u) THEN u[i] ELSE NUL
  ELSE IF i = x + 1 THEN ch ELSE IF overwrite THEN u[i] ELSE u[i - 1]

\* As lines of values have it.
LEMMA WrittenLine ==
  ASSUME NEW u \in Seq(Cells), NEW x \in Nat, NEW ch \in Cells, NEW overwrite \in BOOLEAN
  PROVE  LET line == Pad(u, x, NUL)
             v == SubSeq(line, 1, x) \o <<ch>> \o Drop(line, IF overwrite THEN x + 1 ELSE x)
             m == NewLen(Len(u), x, overwrite)
         IN /\ v \in Seq(Cells) /\ Len(v) = m
            /\ \A i \in 1 .. m : v[i] = NewCell(u, x, ch, overwrite, i)
<1> DEFINE line == Pad(u, x, NUL)
           n == Len(u)
           k == Len(line)
           q == IF overwrite THEN x + 1 ELSE x
           a == SubSeq(line, 1, x)
           one == <<ch>>
           d == Drop(line, q)
           s == a \o one
           v == s \o d
           e == Len(d)
           m == NewLen(n, x, overwrite)
<1>0. NUL \in Cells /\ n \in Nat /\ x \in Int /\ q \in Nat
  BY DEF Cells
<1>1. /\ line \in Seq(Cells) /\ k = (IF x > n THEN x ELSE n)
      /\ \A i \in 1 .. n : line[i] = u[i]
      /\ \A i \in n + 1 .. k : line[i] = NUL
  <2> HIDE DEF line
  <2> QED BY <1>0, PadType DEF line
<1> HIDE DEF line
<1>2. k \in Nat /\ x \in 0 .. k
  <2> HIDE DEF n, k
  <2> QED BY <1>0, <1>1
<1>3. a \in Seq(Cells) /\ Len(a) = x /\ \A i \in 1 .. x : a[i] = line[i]
  BY <1>1, <1>2, SubSeqType
<1>4. d \in Seq(Cells) /\ e = (IF q <= k THEN k - q ELSE 0) /\ \A i \in 1 .. k - q : d[i] = line[q + i]
  <2> HIDE DEF q
  <2> QED BY <1>0, <1>1, DropType
<1>5. one \in Seq(Cells) /\ Len(one) = 1 /\ one[1] = ch
  OBVIOUS
<1> HIDE DEF a, d, one
<1>6. Concatenated(Cells, a, one, x, 1)
  BY <1>3, <1>5, ConcatType
<1>7. /\ s \in Seq(Cells) /\ Len(s) = x + 1
      /\ \A i \in 1 .. x : s[i] = a[i]
      /\ \A i \in x + 1 .. x + 1 : s[i] = one[i - x]
  BY <1>6 DEF Concatenated
<1>8. s[x + 1] = ch
  <2> DEFINE i == x + 1
  <2>1. i \in x + 1 .. x + 1 /\ i - x = 1
    OBVIOUS
  <2> HIDE DEF i
  <2>2. s[i] = ch
    BY <1>5, <1>7, <2>1
  <2> QED BY <2>2 DEF i
<1> HIDE DEF s
<1> DEFINE z == x + 1
<1>9. z = Len(s) /\ z \in Nat
  BY <1>7
<1> HIDE DEF z, e
<1>10. Concatenated(Cells, s, d, z, e)
  BY <1>4, <1>7, <1>9, ConcatType DEF e
<1>11. /\ v \in Seq(Cells) /\ Len(v) = z + e
       /\ \A i \in 1 .. z : v[i] = s[i]
       /\ \A i \in z + 1 .. z + e : v[i] = d[i - z]
  BY <1>10 DEF Concatenated
<1> HIDE DEF v
<1>12. /\ n \in Nat /\ k \in Nat /\ k = (IF x > n THEN x ELSE n) /\ z = x + 1
       /\ q = (IF overwrite THEN x + 1 ELSE x) /\ e = IF q <= k THEN k - q ELSE 0
  BY <1>0, <1>1, <1>2, <1>4 DEF z
<1> HIDE DEF n, k, q
<1>13. m = z + e /\ e \in Nat /\ m \in Nat
  BY <1>12 DEF NewLen
<1>14. ASSUME NEW i \in 1 .. m PROVE v[i] = NewCell(u, x, ch, overwrite, i)
  <2>0. i \in Nat /\ i >= 1 /\ i <= z + e
    BY <1>13
  <2>1. CASE i <= x
    <3>1. i \in 1 .. x /\ i \in 1 .. z /\ (i \in 1 .. n \/ (~(i <= n) /\ i \in n + 1 .. k)) /\ (i <= n => i \in 1 .. n)
      BY <1>12, <2>0, <2>1
    <3>2. v[i] = line[i]
      BY <1>3, <1>7, <1>11, <3>1
    <3>3. line[i] = IF i <= n THEN u[i] ELSE NUL
      BY <1>1, <3>1
    <3> QED BY <2>1, <3>2, <3>3 DEF NewCell, n
  <2>2. CASE i = x + 1
    <3>1. i \in 1 .. z /\ ~(i <= x)
      BY <1>12, <2>0, <2>2
    <3>2. v[i] = ch
      BY <1>8, <1>11, <2>2, <3>1
    <3> QED BY <2>2, <3>1, <3>2 DEF NewCell
  <2>3. CASE i > x + 1
    <3>1. /\ i \in z + 1 .. z + e /\ ~(i <= x) /\ i # x + 1 /\ i - z \in 1 .. k - q
          /\ q + (i - z) = IF overwrite THEN i ELSE i - 1
      BY <1>12, <2>0, <2>3
    <3>2. overwrite => i \in 1 .. n
      BY <1>12, <2>0, <2>3
    <3>3. ~overwrite => i - 1 \in 1 .. n
      BY <1>12, <2>0, <2>3
    <3>4. v[i] = line[q + (i - z)]
      BY <1>4, <1>11, <3>1
    <3>5. CASE overwrite
      BY <1>1, <3>1, <3>2, <3>4, <3>5 DEF NewCell
    <3>6. CASE ~overwrite
      <4>1. line[i - 1] = u[i - 1]
        BY <1>1, <3>3, <3>6
      <4> QED BY <3>1, <3>4, <3>6, <4>1 DEF NewCell
    <3> QED BY <3>5, <3>6
  <2>4. i <= x \/ i = x + 1 \/ i > x + 1
    BY <2>0
  <2> QED BY <2>1, <2>2, <2>3, <2>4
<1> QED BY <1>11, <1>13, <1>14 DEF v, s, a, d, one, q, line, n

\* What is copied into the line at x, by append and copy.
Copied(text, x, ch, overwrite) ==
  <<ch>> \o (IF overwrite THEN Drop(text, x + 1) ELSE SubSeq(text, x + 1, Len(text) - 1))

\* The line in w, with these cells copied into it.
PokedIs(u, x, ch, overwrite, w, m, cells) ==
  LET p == Poked(w, x, cells)
  IN /\ cells \in Seq(Cells) /\ p \in Seq(Cells) /\ Len(p) = Len(w)
     /\ SubSeq(p, 1, m) \in Seq(Cells) /\ Len(SubSeq(p, 1, m)) = m
     /\ \A i \in 1 .. m : SubSeq(p, 1, m)[i] = NewCell(u, x, ch, overwrite, i)
     /\ NulAfter(w, m) => NulAfter(p, m)

\* As append and copy have it: the line u, in w with room for the rune.
LEMMA PokedLine ==
  ASSUME NEW u \in Seq(Cells), NEW x \in Nat, NEW ch \in Cells, NEW overwrite \in BOOLEAN,
         NEW w \in Seq(Cells), NEW m, m = NewLen(Len(u), x, overwrite), m <= Len(w),
         NEW text \in Seq(Cells), Len(text) = m, SubSeq(w, 1, m) = text,
         \A i \in 1 .. m : text[i] = IF i <= Len(u) THEN u[i] ELSE NUL
  PROVE  PokedIs(u, x, ch, overwrite, w, m, Copied(text, x, ch, overwrite))
<1> DEFINE rest == IF overwrite THEN Drop(text, x + 1) ELSE SubSeq(text, x + 1, Len(text) - 1)
           one == <<ch>>
           cells == one \o rest
           p == Poked(w, x, cells)
           v == SubSeq(p, 1, m)
           n == Len(u)
           e == m - (x + 1)
<1>1. n \in Nat /\ m \in Nat /\ x + 1 <= m /\ e \in Nat /\ m = e + (x + 1)
  <2>1. n \in Nat
    OBVIOUS
  <2> HIDE DEF n
  <2>2. m \in Nat /\ x + 1 <= m
    BY <2>1 DEF NewLen, n
  <2> QED BY <2>1, <2>2
<1>2. /\ rest \in Seq(Cells) /\ Len(rest) = e
      /\ \A i \in 1 .. e : rest[i] = IF overwrite THEN text[x + 1 + i] ELSE text[x + i]
  <2>1. CASE overwrite
    <3> DEFINE q == x + 1
               d == Drop(text, q)
    <3>1. q \in Nat /\ q <= m
      BY <1>1
    <3> HIDE DEF q
    <3>2. d \in Seq(Cells) /\ Len(d) = m - q /\ \A i \in 1 .. m - q : d[i] = text[q + i]
      <4>1. /\ d \in Seq(Cells) /\ Len(d) = IF q <= Len(text) THEN Len(text) - q ELSE 0
            /\ \A i \in 1 .. Len(text) - q : d[i] = text[q + i]
        BY <3>1, DropType
      <4> HIDE DEF d
      <4> QED BY <3>1, <4>1
    <3> HIDE DEF d
    <3>3. rest = d
      BY <2>1 DEF q, d
    <3> HIDE DEF rest
    <3> QED BY <2>1, <3>2, <3>3 DEF q
  <2>2. CASE ~overwrite
    <3>1. rest = SubSeq(text, x + 1, m - 1)
      BY <2>2
    <3>2. /\ SubSeq(text, x + 1, m - 1) \in Seq(Cells) /\ Len(SubSeq(text, x + 1, m - 1)) = e
          /\ \A i \in 1 .. e : SubSeq(text, x + 1, m - 1)[i] = text[x + i]
      <4> DEFINE q == x + 1
                 j == m - 1
                 d == SubSeq(text, q, j)
      <4>1. q \in 1 .. m /\ j \in 0 .. m /\ j + 1 - q = e
        BY <1>1
      <4>2. \A i \in 1 .. e : q + i - 1 = x + i /\ q + i - 1 \in 1 .. m
        BY <1>1
      <4> HIDE DEF e
      <4>3. d = [i \in 1 .. e |-> text[x + i]]
        <5>1. d = [i \in 1 .. j + 1 - q |-> text[q + i - 1]]
          <6> HIDE DEF q, j
          <6> QED BY <4>1
        <5> HIDE DEF q, j, d
        <5> QED BY <4>1, <4>2, <5>1
      <4>4. \A i \in 1 .. e : x + i \in 1 .. m
        BY <4>2
      <4> HIDE DEF d
      <4>5. \A i \in 1 .. e : text[x + i] \in Cells
        BY <4>4
      <4>6. [i \in 1 .. e |-> text[x + i]] \in Seq(Cells) /\ Len([i \in 1 .. e |-> text[x + i]]) = e
        BY <1>1, <4>5
      <4> QED BY <4>3, <4>6 DEF d
    <3> HIDE DEF rest, e
    <3> QED BY <2>2, <3>1, <3>2
  <2> QED BY <2>1, <2>2
<1>3. one \in Seq(Cells) /\ Len(one) = 1 /\ one[1] = ch
  OBVIOUS
<1> HIDE DEF rest, one, e
<1>4. Concatenated(Cells, one, rest, 1, e)
  BY <1>2, <1>3, ConcatType
<1>5. /\ cells \in Seq(Cells) /\ Len(cells) = 1 + e
      /\ \A i \in 1 .. 1 : cells[i] = one[i]
      /\ \A i \in 2 .. 1 + e : cells[i] = rest[i - 1]
  <2>1. /\ cells \in Seq(Cells) /\ Len(cells) = 1 + e
        /\ \A i \in 1 .. 1 : cells[i] = one[i]
        /\ \A i \in 1 + 1 .. 1 + e : cells[i] = rest[i - 1]
    BY <1>4 DEF Concatenated
  <2>2. 2 .. 1 + e = 1 + 1 .. 1 + e
    OBVIOUS
  <2> HIDE DEF cells
  <2> QED BY <2>1, <2>2
<1> HIDE DEF cells
<1>6. /\ p \in Seq(Cells) /\ Len(p) = Len(w)
      /\ \A i \in 1 .. Len(w) : p[i] = IF i - x \in 1 .. 1 + e THEN cells[i - x] ELSE w[i]
  BY <1>5, PokedType
<1> HIDE DEF p
<1>7. m \in 0 .. Len(w) /\ Len(w) \in Nat
  BY <1>1
<1>8. v \in Seq(Cells) /\ Len(v) = m /\ \A i \in 1 .. m : v[i] = p[i]
  BY <1>6, <1>7, SubSeqType
<1>9. \A i \in 1 .. m : w[i] = text[i]
  <2>1. \A i \in 1 .. m : SubSeq(w, 1, m)[i] = w[i]
    BY <1>7, SubSeqType
  <2> QED BY <2>1
<1> HIDE DEF v
<1>10. ASSUME NEW i \in 1 .. m PROVE v[i] = NewCell(u, x, ch, overwrite, i)
  <2>0. i \in Nat /\ i >= 1 /\ i <= e + (x + 1) /\ i \in 1 .. Len(w)
    BY <1>1, <1>7
  <2>a. m = IF x >= n THEN x + 1 ELSE IF overwrite THEN n ELSE n + 1
    BY DEF NewLen
  <2> HIDE DEF n
  <2>1. CASE i <= x
    <3>1. i - x \notin 1 .. 1 + e
      BY <1>1, <2>0, <2>1
    <3>2. v[i] = text[i]
      BY <1>6, <1>8, <1>9, <2>0, <3>1
    <3> QED BY <2>1, <3>2 DEF NewCell
  <2>2. CASE i = x + 1
    <3>1. i - x = 1 /\ i - x \in 1 .. 1 + e /\ ~(i <= x) /\ 1 \in 1 .. 1
      BY <1>1, <2>2
    <3>2. v[i] = ch
      BY ZenonT(40), <1>3, <1>5, <1>6, <1>8, <2>0, <3>1
    <3> QED BY <2>2, <3>1, <3>2 DEF NewCell
  <2>3. CASE i > x + 1
    <3>1. i - x \in 1 .. 1 + e /\ i - x \in 2 .. 1 + e /\ (i - x) - 1 \in 1 .. e /\ ~(i <= x) /\ i # x + 1
      BY <1>1, <2>0, <2>3
    <3>2. v[i] = rest[(i - x) - 1]
      BY <1>5, <1>6, <1>8, <2>0, <3>1
    <3>3. rest[(i - x) - 1] = IF overwrite THEN text[x + 1 + ((i - x) - 1)] ELSE text[x + ((i - x) - 1)]
      BY <1>2, <3>1
    <3>4. x + 1 + ((i - x) - 1) = i /\ x + ((i - x) - 1) = i - 1
      BY <2>0
    <3>5. CASE overwrite
      <4>1. i <= n
        BY <1>1, <2>0, <2>a, <2>3, <3>5
      <4>2. text[i] = u[i]
        BY <4>1 DEF n
      <4> QED BY <3>1, <3>2, <3>3, <3>4, <3>5, <4>2 DEF NewCell
    <3>6. CASE ~overwrite
      <4>1. i - 1 <= n /\ i - 1 \in 1 .. m
        BY <1>1, <2>0, <2>a, <2>3, <3>6
      <4>2. text[i - 1] = u[i - 1]
        BY <4>1 DEF n
      <4> QED BY <3>1, <3>2, <3>3, <3>4, <3>6, <4>2 DEF NewCell
    <3> QED BY <3>5, <3>6
  <2>4. i <= x \/ i = x + 1 \/ i > x + 1
    BY <2>0
  <2> QED BY <2>1, <2>2, <2>3, <2>4
<1>11. ASSUME NulAfter(w, m) PROVE NulAfter(p, m)
  <2> SUFFICES ASSUME NEW i \in m + 1 .. Len(p) PROVE p[i] = NUL
    BY DEF NulAfter
  <2>1. i \in 1 .. Len(w) /\ i \in m + 1 .. Len(w) /\ i - x \notin 1 .. 1 + e
    BY <1>1, <1>6, <1>7
  <2> QED BY <1>6, <1>11, <2>1 DEF NulAfter
<1>12. Copied(text, x, ch, overwrite) = cells
  BY DEF Copied, cells, one, rest
<1> QED BY <1>5, <1>6, <1>8, <1>10, <1>11, <1>12 DEF v, p, PokedIs

\* A call that changes the lines and not the place of the next Write.
Edits(b, c, text) ==
  Good(c) /\ c.wx = b.wx /\ c.wy = b.wy /\ Txt(c) = text /\ (Clean(b) => Clean(c))

\* writeRune on slices is writeRune on lines of values, and leaves nothing
\* behind the lines.
LEMMA InsertRuneText ==
  ASSUME NEW b, Good(b), NEW x \in Nat, NEW y \in Nat, NEW ch \in Runes, NEW overwrite \in BOOLEAN,
         NEW slack \in Nat
  PROVE  Edits(b, InsertRune(b, x, y, ch, overwrite, slack), WriteRune(Txt(b), x, y, ch, overwrite))
<1> DEFINE all == Longer(b, y, slack)
           l == Line(all.lines, y)
           n == l.len
           old == Whole(all, l)
           u == Txt(all)[y + 1]
           new == IF x >= n THEN x - n + 1 ELSE IF overwrite THEN 0 ELSE 1
           long == AppendCells(all, y, l, Zeros(new), slack)
           text == Content(long, Line(long.lines, y))
           cells == Copied(text, x, ch, overwrite)
           c == Poke(long, y, x, cells)
           full == Pad(Txt(b), y + 1, <<>>)
           m == NewLen(n, x, overwrite)
<1>1. InsertRune(b, x, y, ch, overwrite, slack) = c
  BY DEF InsertRune, Longer, Copied
<1>2. Good(all) /\ all.wx = b.wx /\ all.wy = b.wy /\ y < Len(all.lines) /\ (Clean(b) => Clean(all))
      /\ Txt(all) = full
  BY LongerText
<1> HIDE DEF all
<1>3. y + 1 \in 1 .. Len(all.lines) /\ l = all.lines[y + 1]
  BY <1>2, LinesType DEF Line
<1>4. l \in Slices /\ Sound(all, l)
  BY <1>2, <1>3, LinesType
<1>5. old \in Seq(Cells) /\ n \in 0 .. Len(old) /\ Len(old) \in Nat /\ n \in Nat
  BY <1>2, <1>4, LineType
<1>6. u = SubSeq(old, 1, n) /\ u \in Seq(Cells) /\ Len(u) = n
  <2>1. u = Content(all, l) /\ u \in Seq(Cells) /\ Len(u) = l.len
    BY <1>2, <1>3, TxtType
  <2> QED BY <2>1 DEF Content
<1>7. new \in Nat /\ n + new = m /\ m \in Nat
  <2> HIDE DEF n
  <2> QED BY <1>5 DEF NewLen
<1>8. Zeros(new) \in Seq(Cells) /\ Len(Zeros(new)) = new /\ \A i \in 1 .. new : Zeros(new)[i] = NUL
  <2> HIDE DEF new
  <2>1. NUL \in Cells
    BY DEF Cells
  <2> QED BY <1>7, <2>1 DEF Zeros
<1> DEFINE zeros == Zeros(new)
<1> HIDE DEF new, zeros
<1>9. PICK w : /\ Becomes(all, long, y, w, m)
               /\ SubSeq(w, 1, m) = u \o zeros
               /\ NulAfter(old, m) => NulAfter(w, m)
  <2>1. l = [arr |-> Line(all.lines, y).arr, len |-> n]
    BY <1>4 DEF Slices
  <2>2. long = AppendCells(all, y, l, zeros, slack)
    BY DEF zeros
  <2>3. zeros \in Seq(Cells) /\ n + Len(zeros) = m
    BY <1>7, <1>8 DEF zeros
  <2> HIDE DEF m, long, n, l
  <2>4. \E w : /\ Becomes(all, long, y, w, n + Len(zeros))
               /\ SubSeq(w, 1, n + Len(zeros)) = SubSeq(Whole(all, Line(all.lines, y)), 1, n) \o zeros
               /\ NulAfter(Whole(all, Line(all.lines, y)), n + Len(zeros)) => NulAfter(w, n + Len(zeros))
    BY <1>2, <1>5, <2>1, <2>2, <2>3, AppendCellsLine DEF l
  <2> QED BY <1>6, <2>3, <2>4 DEF l
<1>10. /\ Good(long) /\ y < Len(long.lines) /\ Whole(long, Line(long.lines, y)) = w
       /\ Line(long.lines, y).len = m
  BY <1>2, <1>9 DEF Becomes
<1>11. w \in Seq(Cells) /\ m \in 0 .. Len(w) /\ m <= Len(w)
  <2>1. w \in Seq(Cells) /\ m \in 0 .. Len(w)
    BY <1>2, <1>9, BecomesText
  <2> HIDE DEF m
  <2> QED BY <2>1
<1>12. text = SubSeq(w, 1, m)
  BY <1>10 DEF Content
<1> HIDE DEF text, long
<1>13. /\ text \in Seq(Cells) /\ Len(text) = m /\ text = u \o zeros
       /\ \A i \in 1 .. m : text[i] = IF i <= Len(u) THEN u[i] ELSE NUL
  <2>1. text \in Seq(Cells) /\ Len(text) = m
    BY <1>11, <1>12, SubSeqType
  <2>2. text = u \o zeros
    BY <1>9, <1>12
  <2>3. zeros \in Seq(Cells) /\ Len(zeros) = new /\ \A i \in 1 .. new : zeros[i] = NUL
    BY <1>8 DEF zeros
  <2> HIDE DEF m, n, u
  <2>4. Concatenated(Cells, u, zeros, n, new)
    BY <1>6, <2>3, ConcatType
  <2>5. /\ \A i \in 1 .. n : text[i] = u[i]
        /\ \A i \in n + 1 .. n + new : text[i] = zeros[i - n]
    BY <2>2, <2>4 DEF Concatenated
  <2>6. ASSUME NEW i \in 1 .. m PROVE text[i] = IF i <= Len(u) THEN u[i] ELSE NUL
    <3>1. CASE i <= n
      <4>1. i \in 1 .. n
        BY <1>5, <1>7, <3>1
      <4> QED BY <1>6, <2>5, <3>1, <4>1
    <3>2. CASE ~(i <= n)
      <4>1. i \in n + 1 .. n + new /\ i - n \in 1 .. new
        BY <1>5, <1>7, <3>2
      <4> QED BY <1>6, <2>3, <2>5, <3>2, <4>1
    <3> QED BY <3>1, <3>2
  <2> QED BY <2>1, <2>2, <2>6
<1> DEFINE p == Poked(w, x, cells)
           v == SubSeq(p, 1, m)
<1>14. /\ cells \in Seq(Cells) /\ p \in Seq(Cells) /\ v \in Seq(Cells) /\ Len(v) = m
       /\ \A i \in 1 .. m : v[i] = NewCell(u, x, ch, overwrite, i)
       /\ NulAfter(w, m) => NulAfter(p, m)
  <2>1. m = NewLen(Len(u), x, overwrite) /\ SubSeq(w, 1, m) = text /\ ch \in Cells
    BY <1>6, <1>12 DEF Cells
  <2>2. PokedIs(u, x, ch, overwrite, w, m, cells)
    <3> HIDE DEF m, u
    <3> QED BY <1>6, <1>11, <1>13, <2>1, PokedLine
  <2> HIDE DEF cells, m, u
  <2> QED BY <2>2 DEF PokedIs
<1> HIDE DEF cells, p
<1>15. Becomes(all, c, y, p, m)
  <2>1. Becomes(long, c, y, p, m)
    BY <1>10, <1>14, PokeLine DEF p
  <2> QED BY <1>9, <2>1, BecomesTwice
<1> DEFINE line == Pad(u, x, NUL)
           o == SubSeq(line, 1, x) \o <<ch>> \o Drop(line, IF overwrite THEN x + 1 ELSE x)
<1>16. v = o
  <2>1. o \in Seq(Cells) /\ Len(o) = m /\ \A i \in 1 .. m : o[i] = NewCell(u, x, ch, overwrite, i)
    <3>1. m = NewLen(Len(u), x, overwrite) /\ ch \in Cells
      BY <1>6 DEF Cells
    <3> HIDE DEF m, u
    <3> QED BY ZenonT(40), <1>6, <3>1, WrittenLine
  <2> HIDE DEF o, v, m
  <2> QED BY <1>14, <2>1, SameSequence
<1>17. Clean(all) => NulAfter(p, m)
  <2>1. Clean(all) => NulAfter(old, n)
    BY <1>3, LinesType, <1>2 DEF Clean
  <2>2. NulAfter(old, n) => NulAfter(old, m)
    <3> SUFFICES ASSUME NulAfter(old, n), NEW i \in m + 1 .. Len(old) PROVE old[i] = NUL
      BY DEF NulAfter
    <3>1. i \in n + 1 .. Len(old)
      <4> HIDE DEF m, n, old
      <4> QED BY <1>5, <1>7
    <3> QED BY <3>1 DEF NulAfter
  <2> QED BY <1>9, <1>14, <2>1, <2>2
<1> HIDE DEF c, o, m
<1>18. Gets(all, c, y, o)
  BY <1>2, <1>15, <1>16, <1>17, BecomesGets
<1>19. WriteRune(Txt(b), x, y, ch, overwrite) = [full EXCEPT ![y + 1] = o]
  BY <1>2 DEF WriteRune, Line, o
<1> HIDE DEF full
<1> QED BY <1>1, <1>2, <1>18, <1>19 DEF Gets, Edits

-----------------------------------------------------------------------------
(* deleteRune.                                                             *)

\* The line without a cell, before the last one of it is given up.
LEMMA TakenLine ==
  ASSUME NEW w \in Seq(Cells), NEW n \in 1 .. Len(w), NEW x \in Nat, x < n, NEW u, u = SubSeq(w, 1, n)
  PROVE  /\ Drop(u, x + 1) \in Seq(Cells)
         /\ SubSeq(Poked(w, x, Drop(u, x + 1)), 1, n - 1) = SubSeq(u, 1, x) \o Drop(u, x + 1)
<1> DEFINE q == x + 1
           d == Drop(u, q)
           p == Poked(w, x, d)
           k == n - 1
           v == SubSeq(p, 1, k)
           a == SubSeq(u, 1, x)
           e == n - q
           o == a \o d
<1>1. n \in Nat /\ k \in 0 .. Len(w) /\ q \in Nat /\ q <= n /\ e \in Nat /\ x + e = k /\ x \in 0 .. n /\ Len(w) \in Nat
  OBVIOUS
<1>2. u \in Seq(Cells) /\ Len(u) = n /\ \A i \in 1 .. n : u[i] = w[i]
  BY SubSeqType
<1>3. d \in Seq(Cells) /\ Len(d) = e /\ \A i \in 1 .. e : d[i] = u[q + i]
  <2> HIDE DEF q
  <2>1. /\ d \in Seq(Cells) /\ Len(d) = IF q <= Len(u) THEN Len(u) - q ELSE 0
        /\ \A i \in 1 .. Len(u) - q : d[i] = u[q + i]
    <3>1. q \in Nat /\ u \in Seq(Cells)
      BY <1>1, <1>2
    <3> QED BY <3>1, DropType
  <2>2. Len(u) = n /\ q <= n
    BY <1>1, <1>2
  <2> HIDE DEF d
  <2> QED BY <2>1, <2>2
<1>4. a \in Seq(Cells) /\ Len(a) = x /\ \A i \in 1 .. x : a[i] = u[i]
  BY <1>1, <1>2, SubSeqType
<1> HIDE DEF d, a
<1>5. p \in Seq(Cells) /\ Len(p) = Len(w) /\ \A i \in 1 .. Len(w) : p[i] = IF i - x \in 1 .. e THEN d[i - x] ELSE w[i]
  BY <1>3, PokedType
<1> HIDE DEF p, k, e
<1>6. v \in Seq(Cells) /\ Len(v) = k /\ \A i \in 1 .. k : v[i] = p[i]
  BY <1>1, <1>5, SubSeqType
<1>7. Concatenated(Cells, a, d, x, e)
  BY <1>3, <1>4, ConcatType
<1>8. /\ o \in Seq(Cells) /\ Len(o) = x + e
      /\ \A i \in 1 .. x : o[i] = a[i]
      /\ \A i \in x + 1 .. x + e : o[i] = d[i - x]
  BY <1>7 DEF Concatenated
<1> HIDE DEF o, v
<1>9. ASSUME NEW i \in 1 .. k PROVE v[i] = o[i]
  <2>1. i \in 1 .. Len(w) /\ i \in 1 .. n
    BY <1>1 DEF k
  <2>2. CASE i <= x
    <3>1. i \in 1 .. x /\ i - x \notin 1 .. e
      BY <1>1, <2>1, <2>2
    <3> QED BY <1>2, <1>4, <1>5, <1>6, <1>8, <2>1, <3>1
  <2>3. CASE ~(i <= x)
    <3>1. i \in x + 1 .. x + e /\ i - x \in 1 .. e
      BY <1>1, <2>1, <2>3
    <3> QED BY <1>5, <1>6, <1>8, <2>1, <3>1
  <2> QED BY <2>2, <2>3
<1>10. v = o
  <2>1. Len(v) = Len(o)
    BY <1>1, <1>6, <1>8
  <2> QED BY <1>6, <1>8, <1>9, <2>1, SameSequence
<1> QED BY <1>3, <1>10 DEF v, p, k, o, a, d

\* A call after which the headers tell that something was taken out.
Shrinks(b, c) ==
  \/ Len(c.lines) # Len(b.lines)
  \/ \E i \in 1 .. Len(b.lines) : c.lines[i].len # b.lines[i].len

\* deleteRune on slices is deleteRune on lines of values, and the lengths of
\* the slices tell that it took something out.
LEMMA TakeRuneText ==
  ASSUME NEW b, Good(b), NEW x \in Nat, NEW y \in Nat
  PROVE  LET c == TakeRune(b, x, y)
         IN /\ Good(c) /\ c.wx = b.wx /\ c.wy = b.wy /\ Txt(c) = DeleteRune(Txt(b), x, y)
            /\ c = b \/ Shrinks(b, c)
<1> DEFINE l == Line(b.lines, y)
           n == l.len
           w == Whole(b, l)
           t == Txt(b)
           u == t[y + 1]
           c == TakeRune(b, x, y)
<1>1. t \in Seq(Seq(Cells)) /\ Len(t) = Len(b.lines) /\ Len(b.lines) \in Nat
  BY TxtType, LinesType
<1>2. CASE y >= Len(b.lines)
  <2>1. c = b
    BY <1>2 DEF TakeRune
  <2>2. ~CanDelete(t, x, y)
    <3> HIDE DEF t
    <3> QED BY <1>1, <1>2 DEF CanDelete
  <2>3. DeleteRune(t, x, y) = t
    <3> HIDE DEF t
    <3> QED BY <2>2 DEF DeleteRune
  <2> QED BY <2>1, <2>3
<1>3. CASE ~(y >= Len(b.lines))
  <2>1. y < Len(b.lines) /\ y + 1 \in 1 .. Len(b.lines) /\ l = b.lines[y + 1]
    BY <1>1, <1>3 DEF Line
  <2>2. l \in Slices /\ Sound(b, l)
    BY <2>1, LinesType
  <2>3. w \in Seq(Cells) /\ n \in 0 .. Len(w) /\ Len(w) \in Nat
    BY <2>2, LineType
  <2>4. u = SubSeq(w, 1, n) /\ u \in Seq(Cells) /\ Len(u) = n /\ u = Content(b, l)
    <3>1. u = Content(b, l) /\ u \in Seq(Cells) /\ Len(u) = l.len
      BY <2>1, TxtType
    <3> QED BY <3>1 DEF Content
  <2>5. CanDelete(t, x, y) <=> x < n
    <3> HIDE DEF t, n
    <3> QED BY <1>1, <2>1, <2>4 DEF CanDelete, Line
  <2>6. CASE x >= n
    <3>1. c = b
      BY <2>6 DEF TakeRune
    <3>2. ~(x < n)
      BY <2>3, <2>6
    <3>3. DeleteRune(t, x, y) = t
      <4> HIDE DEF t
      <4> QED BY <2>5, <3>2 DEF DeleteRune
    <3> QED BY <3>1, <3>3
  <2>7. CASE ~(x >= n)
    <3> DEFINE cells == Drop(u, x + 1)
               p == Poked(w, x, cells)
               full == Poke(b, y, x, cells)
               k == n - 1
               v == SubSeq(u, 1, x) \o cells
    <3>1. n \in 1 .. Len(w) /\ x < n /\ k \in 0 .. Len(w) /\ k # n
      <4> HIDE DEF n, w
      <4> QED BY <2>3, <2>7
    <3>2. cells \in Seq(Cells) /\ SubSeq(p, 1, k) = v
      <4>1. w \in Seq(Cells) /\ n \in 1 .. Len(w) /\ x < n /\ u = SubSeq(w, 1, n)
        BY <2>3, <2>4, <3>1
      <4> HIDE DEF n, w, u
      <4>2. Drop(u, x + 1) \in Seq(Cells)
        BY <4>1, TakenLine
      <4>3. SubSeq(Poked(w, x, Drop(u, x + 1)), 1, n - 1) = SubSeq(u, 1, x) \o Drop(u, x + 1)
        BY <4>1, TakenLine
      <4> QED BY <4>2, <4>3
    <3>3. c = [full EXCEPT !.lines[y + 1].len = k]
      BY <1>3, <2>4, <2>7 DEF TakeRune
    <3> HIDE DEF cells, v
    <3>4. Becomes(b, full, y, p, n) /\ full.lines = b.lines
      BY <2>1, <3>2, PokeLine
    <3>5. Good(full) /\ y < Len(full.lines) /\ Whole(full, Line(full.lines, y)) = p /\ Len(p) = Len(w)
      <4>1. Len(p) = Len(w)
        <5> HIDE DEF w
        <5> QED BY <2>3, <3>2, PokedType
      <4> QED BY <2>1, <3>4, <4>1 DEF Becomes
    <3> HIDE DEF full, p, c, n, w, k
    <3>6. Becomes(full, c, y, p, k)
      <4>1. k \in 0 .. Len(Whole(full, Line(full.lines, y)))
        BY <3>1, <3>5
      <4> QED BY <3>3, <3>5, <4>1, LenLine
    <3>7. Becomes(b, c, y, p, k)
      BY <3>4, <3>6, BecomesTwice
    <3>8. Txt(c) = [t EXCEPT ![y + 1] = v]
      <4>1. Txt(c) = [Txt(b) EXCEPT ![y + 1] = SubSeq(p, 1, k)]
        BY <2>1, <3>7, BecomesText
      <4> QED BY <3>2, <4>1
    <3>9. DeleteRune(t, x, y) = [t EXCEPT ![y + 1] = v]
      <4> HIDE DEF t
      <4> QED BY <2>5, <3>1 DEF DeleteRune, v, cells, t
    <3>10. Shrinks(b, c)
      <4>1. c.lines[y + 1].len # b.lines[y + 1].len
        BY <2>1, <3>1, <3>7 DEF Becomes, Line, n
      <4> QED BY <2>1, <4>1 DEF Shrinks
    <3>11. Good(c) /\ c.wx = b.wx /\ c.wy = b.wy
      BY <3>7 DEF Becomes
    <3> QED BY <3>8, <3>9, <3>10, <3>11 DEF c
  <2> QED BY <2>6, <2>7
<1> QED BY <1>2, <1>3

-----------------------------------------------------------------------------
(* SetLine and SetHighlight.                                               *)

\* The content of the new array is the line of the text.
LEMMA FreshText ==
  ASSUME NEW b, Good(b), NEW y \in Nat, y < Len(b.lines), NEW cells \in Seq(Cells), NEW slack \in Nat
  PROVE  Gets(b, Fresh(b, y, cells, slack), y, cells)
BY FreshLine, BecomesGets

\* The line of the text is another one, the others stay.
LEMMA SetLineText ==
  ASSUME NEW b, Good(b), NEW y \in Nat, y < Len(b.lines), NEW cells \in Seq(Cells), NEW slack \in Nat
  PROVE  Edits(b, Fresh(b, y, cells, slack), [Txt(b) EXCEPT ![y + 1] = cells])
BY FreshText DEF Gets, Edits

\* The text of a line that is copied is what it was.
LEMMA SetHighlightText ==
  ASSUME NEW b, Good(b), NEW y \in Nat, y < Len(b.lines), NEW slack \in Nat
  PROVE  Edits(b, Fresh(b, y, Content(b, Line(b.lines, y)), slack), Txt(b))
<1> DEFINE t == Txt(b)
           cells == Content(b, Line(b.lines, y))
<1>1. y + 1 \in 1 .. Len(b.lines)
  BY LinesType
<1>2. t \in Seq(Seq(Cells)) /\ t[y + 1] = cells /\ cells \in Seq(Cells)
  BY <1>1, TxtType DEF Line
<1> HIDE DEF cells
<1>3. Edits(b, Fresh(b, y, cells, slack), [t EXCEPT ![y + 1] = cells])
  BY <1>2, SetLineText
<1>4. [t EXCEPT ![y + 1] = cells] = t
  <2> HIDE DEF t
  <2> QED BY <1>2
<1> QED BY <1>3, <1>4 DEF cells

-----------------------------------------------------------------------------
(* mergeLines and breakLine.                                               *)

\* The first n elements, others, and all but the first q: element by element.
SplicedIs(S, s, n, mid, k, q, v) ==
  /\ v \in Seq(S) /\ Len(v) = n + k + (Len(s) - q)
  /\ \A i \in 1 .. n + k + (Len(s) - q) :
       v[i] = IF i <= n THEN s[i] ELSE IF i <= n + k THEN mid[i - n] ELSE s[q + (i - (n + k))]

\* Such a sequence, place by place.
LEMMA Spliced ==
  ASSUME NEW S, NEW s \in Seq(S), NEW n \in 0 .. Len(s), NEW mid \in Seq(S), NEW k, k = Len(mid),
         NEW q \in 0 .. Len(s)
  PROVE  SplicedIs(S, s, n, mid, k, q, SubSeq(s, 1, n) \o mid \o Drop(s, q))
<1> DEFINE a == SubSeq(s, 1, n)
           d == Drop(s, q)
           am == a \o mid
           v == am \o d
           z == Len(s)
           e == z - q
           nk == n + k
<1>2. k \in Nat /\ n \in Nat /\ n <= Len(s) /\ Len(s) \in Nat /\ q \in Nat /\ q <= Len(s)
  OBVIOUS
<1>1. z \in Nat /\ n \in Nat /\ q \in Nat /\ q <= z /\ k \in Nat /\ nk \in Nat /\ e \in Nat /\ nk = n + k
  BY <1>2
<1>3. a \in Seq(S) /\ Len(a) = n /\ \A i \in 1 .. n : a[i] = s[i]
  BY SubSeqType
<1>4. d \in Seq(S) /\ Len(d) = e /\ \A i \in 1 .. e : d[i] = s[q + i]
  BY <1>2, DropType
<1> HIDE DEF a, d
<1>5. Concatenated(S, a, mid, n, k)
  BY <1>3, ConcatType
<1>6. /\ am \in Seq(S) /\ Len(am) = nk
      /\ \A i \in 1 .. n : am[i] = a[i]
      /\ \A i \in n + 1 .. nk : am[i] = mid[i - n]
  BY <1>5 DEF Concatenated
<1> HIDE DEF am, nk, e
<1>7. Concatenated(S, am, d, nk, e)
  BY <1>4, <1>6, ConcatType
<1>8. /\ v \in Seq(S) /\ Len(v) = nk + e
      /\ \A i \in 1 .. nk : v[i] = am[i]
      /\ \A i \in nk + 1 .. nk + e : v[i] = d[i - nk]
  BY <1>7 DEF Concatenated
<1> HIDE DEF v
<1>9. ASSUME NEW i \in 1 .. nk + e
      PROVE  v[i] = IF i <= n THEN s[i] ELSE IF i <= nk THEN mid[i - n] ELSE s[q + (i - nk)]
  <2>0. i \in Nat /\ i >= 1 /\ i <= nk + e
    BY <1>1
  <2>1. CASE i <= n
    <3>1. i \in 1 .. n /\ i \in 1 .. nk
      BY <1>1, <2>0, <2>1
    <3> QED BY <1>3, <1>6, <1>8, <2>1, <3>1
  <2>2. CASE ~(i <= n) /\ i <= nk
    <3>1. i \in n + 1 .. nk /\ i \in 1 .. nk
      BY <1>1, <2>0, <2>2
    <3> QED BY <1>6, <1>8, <2>2, <3>1
  <2>3. CASE ~(i <= n) /\ ~(i <= nk)
    <3>1. i \in nk + 1 .. nk + e /\ i - nk \in 1 .. e
      BY <1>1, <2>0, <2>3
    <3> QED BY <1>4, <1>8, <2>3, <3>1
  <2> QED BY <2>1, <2>2, <2>3
<1>10. SplicedIs(S, s, n, mid, k, q, v)
  BY <1>8, <1>9, Zenon DEF SplicedIs, nk, e, z
<1> QED BY <1>10 DEF v, am, a, d

\* The headers are put in other places, or left out, and nils come in.
Placed(b, ls, sp, f) ==
  /\ \A i \in 1 .. Len(sp) : Sound(b, sp[i])
  /\ \A i \in 1 .. Len(ls) : ls[i] = Nil \/ (f[i] \in 1 .. Len(b.lines) /\ ls[i] = b.lines[f[i]])
  /\ \A i, j \in 1 .. Len(ls) : i # j /\ ls[i] # Nil /\ ls[j] # Nil => f[i] # f[j]
HasPut(b, ls, sp, c) ==
  /\ Good(c) /\ c.lines = ls /\ c.spare = sp /\ c.wx = b.wx /\ c.wy = b.wy
  /\ Txt(c) \in Seq(Seq(Cells)) /\ Len(Txt(c)) = Len(ls)
  /\ \A i \in 1 .. Len(ls) : Txt(c)[i] = Content(b, ls[i])
  /\ Clean(b) /\ sp = <<>> => Clean(c)

\* The lines of the text are then in the same other places.
LEMMA PutElsewhere ==
  ASSUME NEW b, Good(b), NEW ls \in Seq(Slices), NEW sp \in Seq(Slices), NEW f, Placed(b, ls, sp, f)
  PROVE  HasPut(b, ls, sp, WithSpare(b, ls, sp))
<1> DEFINE c == WithSpare(b, ls, sp)
<1> USE DEF Placed
<1>1. c = [heap |-> b.heap, lines |-> ls, spare |-> sp, wx |-> b.wx, wy |-> b.wy]
  BY Fields DEF Good
<1> HIDE DEF c
<1>2. c.heap = b.heap /\ c.lines = ls /\ c.spare = sp /\ c.wx = b.wx /\ c.wy = b.wy
  BY <1>1
<1>3. \A s : /\ Sound(b, s) => Sound(c, s)
             /\ Whole(c, s) = Whole(b, s) /\ Content(c, s) = Content(b, s)
  BY <1>2 DEF Sound, Whole, Content
<1>4. c \in Buffers
  BY <1>1, LinesType DEF Buffers
<1>5. Sound(b, Nil) /\ Nil.arr = 0
  BY DEF Sound, Nil
<1>6. \A i \in 1 .. Len(ls) : Sound(b, ls[i])
  <2>1. \A i \in 1 .. Len(b.lines) : Sound(b, b.lines[i])
    BY LinesType
  <2> QED BY <1>5, <2>1
<1>7. ASSUME NEW i \in 1 .. Len(ls), NEW j \in 1 .. Len(ls), i # j, ls[i].arr = ls[j].arr, ls[i] # Nil
      PROVE  FALSE
  <2>1. ls[i].arr # 0
    <3>1. ls[i].arr \in DOMAIN b.heap /\ b.heap \in Seq(Seq(Cells))
      BY <1>6, <1>7, LinesType DEF Sound
    <3> QED BY <3>1
  <2>2. ls[j] # Nil
    BY <1>5, <1>7, <2>1
  <2>3. f[i] # f[j] /\ f[i] \in 1 .. Len(b.lines) /\ f[j] \in 1 .. Len(b.lines)
        /\ ls[i] = b.lines[f[i]] /\ ls[j] = b.lines[f[j]]
    BY <1>7, <2>2
  <2>4. f[i] \in DOMAIN b.lines /\ f[j] \in DOMAIN b.lines
    BY <2>3, LinesType
  <2>5. b.lines[f[i]].arr = b.lines[f[j]].arr /\ b.lines[f[i]] # Nil
    BY <1>7, <2>3
  <2> QED BY <2>3, <2>4, <2>5 DEF Good, Apart
<1>8. DOMAIN ls = 1 .. Len(ls) /\ DOMAIN sp = 1 .. Len(sp)
  OBVIOUS
<1>9. Good(c)
  <2>1. Apart(c)
    BY <1>2, <1>7, <1>8 DEF Apart
  <2>2. \A i \in 1 .. Len(ls) : Sound(c, ls[i])
    BY <1>3, <1>6
  <2>3. \A i \in 1 .. Len(sp) : Sound(c, sp[i])
    BY <1>3
  <2> QED BY <1>2, <1>4, <1>8, <2>1, <2>2, <2>3 DEF Good
<1>10. /\ Txt(c) \in Seq(Seq(Cells)) /\ Len(Txt(c)) = Len(ls)
       /\ \A i \in 1 .. Len(ls) : Txt(c)[i] = Content(b, ls[i])
  BY ZenonT(40), <1>2, <1>3, <1>9, TxtType
<1>11. ASSUME Clean(b), sp = <<>> PROVE Clean(c)
  <2>1. NulAfter(Whole(b, Nil), Nil.len)
    BY DEF NulAfter, Whole, Nil
  <2>2. \A i \in 1 .. Len(b.lines) : NulAfter(Whole(b, b.lines[i]), b.lines[i].len)
    BY <1>11, LinesType DEF Clean
  <2>3. \A i \in 1 .. Len(ls) : NulAfter(Whole(b, ls[i]), ls[i].len)
    BY <2>1, <2>2
  <2>4. \A i \in DOMAIN sp : sp[i] = Nil
    BY <1>11
  <2> QED BY <1>2, <1>3, <1>8, <2>3, <2>4 DEF Clean
<1> QED BY <1>2, <1>9, <1>10, <1>11 DEF c, HasPut

\* mergeLines on slices is mergeLines on lines of values, and the number of
\* lines tells that it took something out.
LEMMA JoinLinesText ==
  ASSUME NEW b, Good(b), NEW y \in Nat, NEW slack \in Nat
  PROVE  LET c == JoinLines(b, y, slack)
         IN /\ Good(c) /\ c.wx = b.wx /\ c.wy = b.wy /\ Txt(c) = MergeLines(Txt(b), y)
            /\ c = b \/ Shrinks(b, c)
<1> DEFINE K == Len(b.lines)
           t == Txt(b)
           c == JoinLines(b, y, slack)
<1>1. t \in Seq(Seq(Cells)) /\ Len(t) = K /\ K \in Nat
  BY TxtType, LinesType
<1>2. CASE y + 1 >= K
  <2>1. c = b
    BY <1>2 DEF JoinLines
  <2>2. ~(y + 1 < K)
    <3> HIDE DEF K
    <3> QED BY <1>1, <1>2
  <2>3. MergeLines(t, y) = t
    <3> HIDE DEF t
    <3> QED BY <1>1, <2>2 DEF MergeLines
  <2> QED BY <2>1, <2>3
<1>3. CASE ~(y + 1 >= K)
  <2> DEFINE l1 == Line(b.lines, y)
             l2 == Line(b.lines, y + 1)
             u1 == t[y + 1]
             u2 == t[y + 2]
             uu == u1 \o u2
             j == AppendCells(b, y, l1, Content(b, l2), slack)
             ls == SubSeq(j.lines, 1, y + 1) \o Drop(j.lines, y + 2)
             sp == <<Last(j.lines)>> \o j.spare
             n == l1.len
             m == n + Len(u2)
  <2>1. y + 1 \in 1 .. K /\ y + 2 \in 1 .. K /\ y < K /\ y + 1 < K /\ y + 1 + 1 = y + 2
    <3> HIDE DEF K
    <3> QED BY <1>1, <1>3
  <2>2. l1 = b.lines[y + 1] /\ l2 = b.lines[y + 2]
    BY <2>1 DEF Line
  <2>3. u1 = Content(b, l1) /\ u2 = Content(b, l2) /\ u1 \in Seq(Cells) /\ u2 \in Seq(Cells)
    BY ZenonT(40), <2>1, <2>2, TxtType
  <2>4. l1 \in Slices /\ Sound(b, l1)
    BY <2>1, <2>2, LinesType
  <2>5. n \in 0 .. Len(Whole(b, l1))
    BY <2>4, LineType
  <2>6. l1 = [arr |-> l1.arr, len |-> n]
    BY <2>4 DEF Slices
  <2>7. c = WithSpare(j, ls, sp)
    BY <1>3 DEF JoinLines, WithSpare
  <2>8. PICK w : Becomes(b, j, y, w, m) /\ SubSeq(w, 1, m) = uu
    <3>1. j = AppendCells(b, y, l1, u2, slack)
      BY <2>3
    <3>2. uu = SubSeq(Whole(b, l1), 1, n) \o u2
      BY <2>3 DEF Content
    <3> HIDE DEF j, u2, uu, n, l1
    <3>3. \E w : /\ Becomes(b, j, y, w, n + Len(u2))
                 /\ SubSeq(w, 1, n + Len(u2)) = SubSeq(Whole(b, Line(b.lines, y)), 1, n) \o u2
                 /\ NulAfter(Whole(b, Line(b.lines, y)), n + Len(u2)) => NulAfter(w, n + Len(u2))
      BY <2>1, <2>3, <2>5, <2>6, <3>1, AppendCellsLine DEF l1
    <3> QED BY <3>2, <3>3 DEF l1
  <2> HIDE DEF c, j
  <2>9. Good(j) /\ Len(j.lines) = K /\ j.spare = b.spare /\ j.wx = b.wx /\ j.wy = b.wy
    BY <2>8 DEF Becomes
  <2>10. Txt(j) = [t EXCEPT ![y + 1] = uu]
    <3>1. Txt(j) = [Txt(b) EXCEPT ![y + 1] = SubSeq(w, 1, m)]
      BY <2>1, <2>8, BecomesText
    <3> QED BY <2>8, <3>1
  <2>11. /\ j.lines \in Seq(Slices) /\ j.spare \in Seq(Slices)
         /\ \A i \in 1 .. Len(j.lines) : Sound(j, j.lines[i])
         /\ \A i \in 1 .. Len(j.spare) : Sound(j, j.spare[i])
    BY <2>9, LinesType
  <2> HIDE DEF uu
  <2>12. /\ ls \in Seq(Slices) /\ Len(ls) = K - 1
         /\ \A i \in 1 .. K - 1 : ls[i] = IF i <= y + 1 THEN j.lines[i] ELSE j.lines[i + 1]
    <3> DEFINE nn == y + 1
               q == y + 2
               s == j.lines
               e == <<>>
               v == SubSeq(s, 1, nn) \o e \o Drop(s, q)
    <3>1. s \in Seq(Slices) /\ Len(s) = K /\ e \in Seq(Slices) /\ Len(e) = 0
      BY <2>9, <2>11
    <3> HIDE DEF s, K, e
    <3>2. nn \in 0 .. Len(s) /\ q \in 0 .. Len(s)
      BY <1>1, <2>1, <3>1
    <3> HIDE DEF nn, q
    <3>3. SplicedIs(Slices, s, nn, e, 0, q, v)
      BY <3>1, <3>2, Spliced
    <3>4. v = ls
      <4>1. SubSeq(s, 1, nn) \in Seq(Slices)
        BY <3>1, <3>2, SubSeqType
      <4>2. SubSeq(s, 1, nn) \o e = SubSeq(s, 1, nn)
        BY <4>1, ConcatEmptySeq DEF e
      <4> QED BY <4>2 DEF nn, q, s
    <3> HIDE DEF v, ls
    <3>5. /\ v \in Seq(Slices) /\ Len(v) = nn + 0 + (K - q)
          /\ \A i \in 1 .. nn + 0 + (K - q) :
               v[i] = IF i <= nn THEN s[i] ELSE IF i <= nn + 0 THEN e[i - nn] ELSE s[q + (i - (nn + 0))]
      BY <3>1, <3>3 DEF SplicedIs
    <3>6. nn + 0 + (K - q) = K - 1
      BY <1>1 DEF nn, q
    <3>7. ASSUME NEW i \in 1 .. K - 1
          PROVE  v[i] = IF i <= nn THEN s[i] ELSE s[i + 1]
      <4>1. ~(i <= nn) => q + (i - (nn + 0)) = i + 1 /\ ~(i <= nn + 0)
        BY <1>1 DEF nn, q
      <4>2. v[i] = IF i <= nn THEN s[i] ELSE IF i <= nn + 0 THEN e[i - nn] ELSE s[q + (i - (nn + 0))]
        BY <3>5, <3>6
      <4> QED BY <4>1, <4>2
    <3> QED BY <3>4, <3>5, <3>6, <3>7 DEF s, nn
  <2>13. sp \in Seq(Slices) /\ \A i \in 1 .. Len(sp) : Sound(j, sp[i])
    <3> DEFINE z == Len(j.spare)
               la == Last(j.lines)
               one == <<la>>
    <3>1. la \in Slices /\ Sound(j, la)
      <4>1. la = j.lines[K] /\ K \in 1 .. Len(j.lines)
        BY <1>1, <2>1, <2>9 DEF Last
      <4> QED BY <2>11, <4>1
    <3> HIDE DEF la
    <3>2. one \in Seq(Slices) /\ Len(one) = 1 /\ \A i \in 1 .. 1 : Sound(j, one[i])
      BY <3>1
    <3>3. sp = one \o j.spare
      BY DEF la
    <3>z. z \in Nat /\ z = Len(j.spare)
      BY <2>11
    <3> HIDE DEF one, sp, z
    <3>4. Concatenated(Slices, one, j.spare, 1, z)
      BY <2>11, <3>2, <3>z, ConcatType
    <3>5. /\ sp \in Seq(Slices) /\ Len(sp) = 1 + z
          /\ \A i \in 1 .. 1 : sp[i] = one[i]
          /\ \A i \in 1 + 1 .. 1 + z : sp[i] = j.spare[i - 1]
      BY <3>3, <3>4 DEF Concatenated
    <3>6. ASSUME NEW i \in 1 .. Len(sp) PROVE Sound(j, sp[i])
      <4>1. i \in 1 .. 1 \/ (i \in 1 + 1 .. 1 + z /\ i - 1 \in 1 .. z)
        BY <3>5, <3>z
      <4> QED BY <2>11, <3>2, <3>5, <3>z, <4>1
    <3> QED BY <3>5, <3>6
  <2> HIDE DEF ls, sp
  <2> DEFINE f == [i \in 1 .. K - 1 |-> IF i <= y + 1 THEN i ELSE i + 1]
  <2>14. /\ \A i \in 1 .. Len(ls) : ls[i] = Nil \/ (f[i] \in 1 .. Len(j.lines) /\ ls[i] = j.lines[f[i]])
         /\ \A i, g \in 1 .. Len(ls) : i # g /\ ls[i] # Nil /\ ls[g] # Nil => f[i] # f[g]
    <3> HIDE DEF K, f
    <3>1. ASSUME NEW i \in 1 .. K - 1
          PROVE  f[i] \in 1 .. K /\ ls[i] = j.lines[f[i]]
      <4>1. f[i] = IF i <= y + 1 THEN i ELSE i + 1
        BY DEF f
      <4>2. ls[i] = IF i <= y + 1 THEN j.lines[i] ELSE j.lines[i + 1]
        BY <2>12
      <4>3. i \in 1 .. K /\ i + 1 \in 1 .. K
        BY <1>1
      <4> QED BY <4>1, <4>2, <4>3
    <3>2. ASSUME NEW i \in 1 .. K - 1, NEW g \in 1 .. K - 1, i # g
          PROVE  f[i] # f[g]
      <4>1. f[i] = (IF i <= y + 1 THEN i ELSE i + 1) /\ f[g] = IF g <= y + 1 THEN g ELSE g + 1
        BY DEF f
      <4>2. i \in Int /\ g \in Int
        BY <1>1
      <4> QED BY <3>2, <4>1, <4>2
    <3>3. Len(ls) = K - 1 /\ Len(j.lines) = K
      BY <2>9, <2>12
    <3> QED BY <3>1, <3>2, <3>3
  <2> HIDE DEF f
  <2>15. /\ Good(c) /\ c.lines = ls /\ c.wx = j.wx /\ c.wy = j.wy
         /\ Txt(c) \in Seq(Seq(Cells)) /\ Len(Txt(c)) = Len(ls)
         /\ \A i \in 1 .. Len(ls) : Txt(c)[i] = Content(j, ls[i])
    <3>1. Placed(j, ls, sp, f)
      BY <2>13, <2>14 DEF Placed
    <3>2. HasPut(j, ls, sp, WithSpare(j, ls, sp))
      BY <2>9, <2>12, <2>13, <3>1, PutElsewhere
    <3> QED BY <2>7, <3>2 DEF HasPut
  <2>16. Txt(c) = MergeLines(t, y)
    <3> DEFINE q == y + 2
               mid == <<uu>>
               v == SubSeq(t, 1, y) \o mid \o Drop(t, q)
    <3>0. uu \in Seq(Cells)
      BY <2>3 DEF uu
    <3>1. mid \in Seq(Seq(Cells)) /\ Len(mid) = 1 /\ mid[1] = uu
      BY <3>0
    <3>2. y \in 0 .. Len(t) /\ q \in 0 .. Len(t)
      <4> HIDE DEF K, t
      <4> QED BY <1>1, <2>1
    <3>3. MergeLines(t, y) = v
      <4> HIDE DEF t, K
      <4> QED BY <1>1, <2>1 DEF MergeLines, Line, uu
    <3>t. /\ Txt(j) = [t EXCEPT ![y + 1] = uu] /\ DOMAIN t = 1 .. K
          /\ \A i \in 1 .. K : Txt(j)[i] = Content(j, j.lines[i])
      <4>1. \A i \in 1 .. K : Txt(j)[i] = Content(j, j.lines[i])
        BY <2>9, TxtType
      <4> HIDE DEF t
      <4> QED BY <1>1, <2>10, <4>1
    <3> HIDE DEF mid, q, t, K, v
    <3>4. SplicedIs(Seq(Cells), t, y, mid, 1, q, v)
      <4> DEFINE S == Seq(Cells)
      <4>1. t \in Seq(S) /\ mid \in Seq(S)
        BY <1>1, <3>1
      <4> HIDE DEF S
      <4>2. SplicedIs(S, t, y, mid, 1, q, v)
        BY <3>1, <3>2, <4>1, Spliced DEF v
      <4> QED BY <4>2 DEF S
    <3>5. /\ v \in Seq(Seq(Cells)) /\ Len(v) = y + 1 + (K - q)
          /\ \A i \in 1 .. y + 1 + (K - q) :
               v[i] = IF i <= y THEN t[i] ELSE IF i <= y + 1 THEN mid[i - y] ELSE t[q + (i - (y + 1))]
      BY <1>1, <3>4 DEF SplicedIs
    <3>6. y + 1 + (K - q) = K - 1
      BY <1>1 DEF q
    <3>7. ASSUME NEW i \in 1 .. K - 1 PROVE Txt(c)[i] = v[i]
      <4>0. i \in Int /\ i \in 1 .. K /\ i + 1 \in 1 .. K
        BY <1>1
      <4>1. v[i] = IF i <= y THEN t[i] ELSE IF i <= y + 1 THEN mid[i - y] ELSE t[q + (i - (y + 1))]
        BY <3>5, <3>6
      <4>2. Txt(c)[i] = Content(j, IF i <= y + 1 THEN j.lines[i] ELSE j.lines[i + 1])
        BY <2>12, <2>15
      <4>3. CASE i <= y
        <5>1. i <= y + 1 /\ i # y + 1
          BY <4>0, <4>3
        <5> QED BY <3>t, <4>0, <4>1, <4>2, <4>3, <5>1
      <4>4. CASE i = y + 1
        <5>1. i <= y + 1 /\ ~(i <= y) /\ i - y = 1
          BY <4>4
        <5>2. v[i] = uu
          BY <3>1, <4>1, <5>1
        <5>3. Txt(c)[i] = Txt(j)[i]
          BY <3>t, <4>0, <4>2, <5>1
        <5> QED BY <3>t, <4>0, <4>4, <5>2, <5>3
      <4>5. CASE i > y + 1
        <5>1. ~(i <= y + 1) /\ ~(i <= y) /\ q + (i - (y + 1)) = i + 1 /\ i + 1 # y + 1
          BY <4>0, <4>5 DEF q
        <5>2. v[i] = t[i + 1]
          BY <4>1, <5>1
        <5>3. Txt(c)[i] = Txt(j)[i + 1]
          BY <3>t, <4>0, <4>2, <5>1
        <5> QED BY <3>t, <4>0, <5>1, <5>2, <5>3
      <4>6. i <= y \/ i = y + 1 \/ i > y + 1
        BY <4>0
      <4> QED BY <4>3, <4>4, <4>5, <4>6
    <3>8. Txt(c) \in Seq(Seq(Cells)) /\ Len(Txt(c)) = K - 1
      BY <2>12, <2>15
    <3>9. v \in Seq(Seq(Cells)) /\ Len(v) = K - 1
      BY <3>5, <3>6
    <3>10. Txt(c) = v
      BY <3>7, <3>8, <3>9, SameSequence
    <3> QED BY <3>3, <3>10
  <2>17. Shrinks(b, c)
    <3>1. Len(c.lines) = K - 1
      BY <2>12, <2>15
    <3>2. K - 1 # K
      <4> HIDE DEF K
      <4> QED BY <1>1
    <3> QED BY <3>1, <3>2 DEF Shrinks
  <2> QED BY <2>9, <2>15, <2>16, <2>17 DEF c
<1> QED BY <1>2, <1>3

\* breakLine on slices is breakLine on lines of values, and leaves nothing
\* behind the lines.
LEMMA SplitLineText ==
  ASSUME NEW b, Good(b), NEW x \in Nat, NEW y \in Nat
  PROVE  Edits(b, SplitLine(b, x, y), BreakLine(Txt(b), x, y))
<1> DEFINE K == Len(b.lines)
           t == Txt(b)
           c == SplitLine(b, x, y)
<1>1. t \in Seq(Seq(Cells)) /\ Len(t) = K /\ K \in Nat
  BY TxtType, LinesType
<1>2. CASE y >= K
  <2>1. c = b
    BY <1>2 DEF SplitLine
  <2>2. ~(y < K)
    <3> HIDE DEF K
    <3> QED BY <1>1, <1>2
  <2>3. BreakLine(t, x, y) = t
    <3> HIDE DEF t
    <3> QED BY <1>1, <2>2 DEF BreakLine
  <2> QED BY <2>1, <2>3 DEF Edits
<1>3. CASE ~(y >= K)
  <2> DEFINE l == Line(b.lines, y)
             line == t[y + 1]
             nil == <<Nil>>
             ls == SubSeq(b.lines, 1, y + 1) \o nil \o Drop(b.lines, y + 1)
             two == WithSpare(b, ls, <<>>)
             n == l.len
             at == IF x < n THEN x ELSE n
             s1 == SubSeq(line, 1, at)
             s2 == Drop(line, at)
             mid == <<s1, s2>>
             v == SubSeq(t, 1, y) \o mid \o Drop(t, y + 1)
  <2>1. y + 1 \in 1 .. K /\ y < K /\ y \in 0 .. K /\ y + 1 \in 0 .. K
    <3> HIDE DEF K
    <3> QED BY <1>1, <1>3
  <2>2. l = b.lines[y + 1]
    BY DEF Line
  <2>3. line = Content(b, l) /\ line \in Seq(Cells) /\ Len(line) = n
    BY <2>1, <2>2, TxtType
  <2>4. n \in Nat /\ at \in 0 .. n
    <3>1. Len(line) \in Nat
      BY <2>3
    <3>2. n \in Nat
      BY <2>3, <3>1
    <3> HIDE DEF n
    <3> QED BY <3>2
  <2>5. s1 \in Seq(Cells) /\ s2 \in Seq(Cells)
    <3>1. at \in 0 .. Len(line) /\ at \in Nat
      BY <2>3, <2>4
    <3> HIDE DEF at, line
    <3> QED BY <2>3, <3>1, SubSeqType, DropType
  <2>6. BreakLine(t, x, y) = v
    <3> HIDE DEF t, K
    <3>1. y >= 0 /\ y < Len(t)
      BY <1>1, <2>1
    <3>2. Line(t, y) = line
      BY DEF Line
    <3> HIDE DEF n, line
    <3>3. at = IF x < Len(line) THEN x ELSE Len(line)
      BY <2>3
    <3> QED BY <3>1, <3>2, <3>3 DEF BreakLine
  <2>7. c = IF x >= n THEN two ELSE Fresh(Fresh(two, y, SubSeq(Content(b, l), 1, x), 0), y + 1, Drop(Content(b, l), x), 0)
    BY <1>3 DEF SplitLine, WithSpare
  <2>8. /\ nil \in Seq(Slices) /\ Len(nil) = 1 /\ nil[1] = Nil
        /\ b.lines \in Seq(Slices)
    <3>1. Nil \in Slices
      BY DEF Nil, Slices
    <3> QED BY <3>1, LinesType
  <2> HIDE DEF nil, c
  <2>9. /\ ls \in Seq(Slices) /\ Len(ls) = K + 1
        /\ \A i \in 1 .. K + 1 : ls[i] = IF i <= y + 1 THEN b.lines[i] ELSE IF i = y + 2 THEN Nil ELSE b.lines[i - 1]
    <3> DEFINE q == y + 1
               s == b.lines
    <3>1. s \in Seq(Slices) /\ Len(s) = K /\ q \in 0 .. Len(s)
      BY <2>1, <2>8
    <3> HIDE DEF q, s
    <3>2. SplicedIs(Slices, s, q, nil, 1, q, SubSeq(s, 1, q) \o nil \o Drop(s, q))
      BY <2>8, <3>1, Spliced
    <3>3. ls = SubSeq(s, 1, q) \o nil \o Drop(s, q)
      BY DEF q, s
    <3> HIDE DEF ls, K
    <3>4. /\ ls \in Seq(Slices) /\ Len(ls) = q + 1 + (K - q)
          /\ \A i \in 1 .. q + 1 + (K - q) :
               ls[i] = IF i <= q THEN s[i] ELSE IF i <= q + 1 THEN nil[i - q] ELSE s[q + (i - (q + 1))]
      BY <3>1, <3>2, <3>3 DEF SplicedIs
    <3>5. q + 1 + (K - q) = K + 1 /\ q = y + 1
      BY <1>1 DEF q
    <3>6. ASSUME NEW i \in 1 .. K + 1
          PROVE  ls[i] = IF i <= y + 1 THEN s[i] ELSE IF i = y + 2 THEN Nil ELSE s[i - 1]
      <4>1. ls[i] = IF i <= q THEN s[i] ELSE IF i <= q + 1 THEN nil[i - q] ELSE s[q + (i - (q + 1))]
        BY <3>4, <3>5
      <4>2. i \in Int
        BY <1>1
      <4>3. /\ q + (i - (q + 1)) = i - 1 /\ (~(i <= q) /\ i <= q + 1 => i - q = 1 /\ i = y + 2)
            /\ (i = y + 2 => ~(i <= q) /\ i <= q + 1) /\ (i <= y + 1 <=> i <= q)
        BY <3>5, <4>2
      <4> QED BY <2>8, <4>1, <4>3
    <3> QED BY <3>4, <3>5, <3>6 DEF s
  <2> HIDE DEF ls
  <2> DEFINE f == [i \in 1 .. K + 1 |-> IF i <= y + 1 THEN i ELSE i - 1]
  <2>10. Placed(b, ls, <<>>, f)
    <3> HIDE DEF K, f
    <3>1. ASSUME NEW i \in 1 .. K + 1
          PROVE  ls[i] = Nil \/ (f[i] \in 1 .. K /\ ls[i] = b.lines[f[i]])
      <4>1. f[i] = IF i <= y + 1 THEN i ELSE i - 1
        BY DEF f
      <4>2. ls[i] = IF i <= y + 1 THEN b.lines[i] ELSE IF i = y + 2 THEN Nil ELSE b.lines[i - 1]
        BY <2>9
      <4>3. (i <= y + 1 => i \in 1 .. K) /\ (~(i <= y + 1) => i - 1 \in 1 .. K)
        BY <1>1, <2>1
      <4> QED BY <4>1, <4>2, <4>3
    <3>2. ASSUME NEW i \in 1 .. K + 1, NEW g \in 1 .. K + 1, i # g, ls[i] # Nil, ls[g] # Nil
          PROVE  f[i] # f[g]
      <4>1. f[i] = (IF i <= y + 1 THEN i ELSE i - 1) /\ f[g] = IF g <= y + 1 THEN g ELSE g - 1
        BY DEF f
      <4>2. i \in Int /\ g \in Int
        BY <1>1
      <4>3. i # y + 2 /\ g # y + 2
        <5>1. ASSUME NEW h \in 1 .. K + 1, h = y + 2 PROVE ls[h] = Nil
          <6>1. ~(h <= y + 1)
            BY <5>1
          <6> QED BY <2>9, <5>1, <6>1
        <5> QED BY <3>2, <5>1
      <4> QED BY <3>2, <4>1, <4>2, <4>3
    <3>3. Len(ls) = K + 1 /\ Len(b.lines) = K
      BY <2>9 DEF K
    <3>4. \A i \in 1 .. Len(<<>>) : Sound(b, <<>>[i])
      OBVIOUS
    <3> QED BY <3>1, <3>2, <3>3, <3>4 DEF Placed
  <2>11. HasPut(b, ls, <<>>, two)
    <3> DEFINE sp == <<>>
    <3>1. sp \in Seq(Slices) /\ Placed(b, ls, sp, f)
      BY <2>10
    <3> HIDE DEF sp, f
    <3>2. HasPut(b, ls, sp, WithSpare(b, ls, sp))
      BY <2>9, <3>1, PutElsewhere
    <3> QED BY <3>2 DEF sp
  <2> HIDE DEF f, two
  <2>12. /\ Good(two) /\ Len(two.lines) = K + 1 /\ two.wx = b.wx /\ two.wy = b.wy /\ (Clean(b) => Clean(two))
         /\ Txt(two) \in Seq(Seq(Cells)) /\ Len(Txt(two)) = K + 1
         /\ \A i \in 1 .. K + 1 : Txt(two)[i] = Content(b, ls[i])
    BY <2>9, <2>11 DEF HasPut
  <2>13. /\ \A i \in 1 .. K : Content(b, b.lines[i]) = t[i]
         /\ Content(b, Nil) = <<>>
    <3>1. \A i \in 1 .. K : Content(b, b.lines[i]) = t[i]
      BY TxtType
    <3> QED BY <3>1 DEF Content, Whole, Nil
  <2> HIDE DEF K, t, s1, s2
  <2> DEFINE Part(i) == IF i = y + 1 THEN s1 ELSE IF i = y + 2 THEN s2 ELSE IF i <= y THEN t[i] ELSE t[i - 1]
  <2>14. /\ v \in Seq(Seq(Cells)) /\ Len(v) = K + 1
         /\ \A i \in 1 .. K + 1 : v[i] = Part(i)
    <3> DEFINE q == y + 1
               S == Seq(Cells)
    <3>1. mid \in Seq(S) /\ Len(mid) = 2 /\ mid[1] = s1 /\ mid[2] = s2
      BY <2>5
    <3>2. t \in Seq(S) /\ y \in 0 .. Len(t) /\ q \in 0 .. Len(t)
      BY <1>1, <2>1
    <3> HIDE DEF q, mid, S
    <3>3. SplicedIs(S, t, y, mid, 2, q, SubSeq(t, 1, y) \o mid \o Drop(t, q))
      BY <3>1, <3>2, Spliced
    <3>4. v = SubSeq(t, 1, y) \o mid \o Drop(t, q)
      BY DEF q
    <3> HIDE DEF v
    <3>5. /\ v \in Seq(S) /\ Len(v) = y + 2 + (K - q)
          /\ \A i \in 1 .. y + 2 + (K - q) :
               v[i] = IF i <= y THEN t[i] ELSE IF i <= y + 2 THEN mid[i - y] ELSE t[q + (i - (y + 2))]
      BY <1>1, <3>3, <3>4 DEF SplicedIs
    <3>6. y + 2 + (K - q) = K + 1 /\ q = y + 1
      BY <1>1 DEF q
    <3>7. ASSUME NEW i \in 1 .. K + 1 PROVE v[i] = Part(i)
      <4>1. v[i] = IF i <= y THEN t[i] ELSE IF i <= y + 2 THEN mid[i - y] ELSE t[q + (i - (y + 2))]
        BY <3>5, <3>6
      <4>2. i \in Int
        BY <1>1
      <4>3. CASE i = y + 1
        <5>1. ~(i <= y) /\ i <= y + 2 /\ i - y = 1
          BY <4>3
        <5> QED BY <3>1, <4>1, <4>3, <5>1
      <4>4. CASE i = y + 2
        <5>1. ~(i <= y) /\ i <= y + 2 /\ i - y = 2 /\ i # y + 1
          BY <4>4
        <5> QED BY <3>1, <4>1, <4>4, <5>1
      <4>5. CASE i # y + 1 /\ i # y + 2
        <5>1. (~(i <= y) => ~(i <= y + 2)) /\ q + (i - (y + 2)) = i - 1
          BY <3>6, <4>2, <4>5
        <5> QED BY <4>1, <4>5, <5>1
      <4> QED BY <4>3, <4>4, <4>5
    <3> QED BY <3>5, <3>6, <3>7 DEF S
  <2> HIDE DEF v
  <2>15. ASSUME NEW i \in 1 .. K + 1
         PROVE  Txt(two)[i] = IF i <= y + 1 THEN t[i] ELSE IF i = y + 2 THEN <<>> ELSE t[i - 1]
    <3>1. ls[i] = IF i <= y + 1 THEN b.lines[i] ELSE IF i = y + 2 THEN Nil ELSE b.lines[i - 1]
      BY <2>9
    <3>2. Txt(two)[i] = Content(b, ls[i])
      BY <2>12
    <3>3. (i <= y + 1 => i \in 1 .. K) /\ (~(i <= y + 1) => i - 1 \in 1 .. K)
      BY <1>1, <2>1
    <3>4. CASE i <= y + 1
      BY <2>13, <3>1, <3>2, <3>3, <3>4
    <3>5. CASE ~(i <= y + 1) /\ i = y + 2
      BY <2>13, <3>1, <3>2, <3>5
    <3>6. CASE ~(i <= y + 1) /\ i # y + 2
      BY <2>13, <3>1, <3>2, <3>3, <3>6
    <3> QED BY <3>4, <3>5, <3>6
  <2>16. /\ y + 1 \in 1 .. K + 1 /\ y + 2 \in 1 .. K + 1 /\ y + 1 # y + 2 /\ y + 1 + 1 = y + 2
         /\ y < K + 1 /\ y + 1 < K + 1 /\ y + 1 \in Nat /\ ~(y + 2 <= y + 1)
    BY <1>1, <2>1
  <2>17. CASE x >= n
    <3>1. at = n
      <4> HIDE DEF n
      <4> QED BY <2>4, <2>17
    <3>2. c = two
      BY <2>7, <2>17
    <3>3. s1 = line /\ s2 = <<>>
      <4>1. SubSeq(line, 1, n) = line /\ Drop(line, n) = <<>>
        <5> DEFINE r == Len(line)
        <5>1. r \in Nat
          BY <2>3
        <5>2. SubSeq(line, 1, r) = line /\ Drop(line, r) = <<>>
          <6>1. SubSeq(line, 1, r) = line
            BY <2>3, SubSeqFull
          <6>2. Drop(line, r) \in Seq(Cells) /\ Len(Drop(line, r)) = 0
            <7> HIDE DEF r
            <7>1. Len(Drop(line, r)) = IF r <= Len(line) THEN Len(line) - r ELSE 0
              BY <2>3, <5>1, DropType
            <7>2. Drop(line, r) \in Seq(Cells)
              BY <2>3, <5>1, DropType
            <7> QED BY <5>1, <7>1, <7>2 DEF r
          <6> QED BY <6>1, <6>2
        <5> QED BY <2>3, <5>2
      <4> HIDE DEF at
      <4> QED BY <3>1, <4>1 DEF s1, s2
    <3>4. ASSUME NEW i \in 1 .. K + 1 PROVE Txt(two)[i] = v[i]
      <4>1. v[i] = Part(i)
        BY <2>14
      <4>2. i \in Int
        BY <1>1
      <4>3. CASE i = y + 1
        BY <2>15, <2>16, <3>3, <4>1, <4>3
      <4>4. CASE i = y + 2
        BY <2>15, <2>16, <3>3, <4>1, <4>4
      <4>5. CASE i # y + 1 /\ i # y + 2
        <5>1. i <= y + 1 <=> i <= y
          BY <4>2, <4>5
        <5> QED BY <2>15, <4>1, <4>5, <5>1
      <4> QED BY <4>3, <4>4, <4>5
    <3> HIDE DEF Part
    <3>5. Txt(two) = v
      BY <2>12, <2>14, <3>4, SameSequence
    <3> QED BY <2>6, <2>12, <3>2, <3>5 DEF Edits, c, t
  <2>18. CASE ~(x >= n)
    <3> DEFINE d == Fresh(two, y, s1, 0)
    <3>1. at = x
      <4> HIDE DEF n
      <4> QED BY <2>4, <2>18
    <3>2. c = Fresh(d, y + 1, s2, 0)
      <4>1. s1 = SubSeq(Content(b, l), 1, x) /\ s2 = Drop(Content(b, l), x)
        <5> HIDE DEF at
        <5> QED BY <2>3, <3>1 DEF s1, s2
      <4> QED BY <2>7, <2>18, <4>1
    <3>3. Gets(two, d, y, s1)
      BY <2>5, <2>12, <2>16, FreshText
    <3> HIDE DEF d
    <3>4. Good(d) /\ Len(d.lines) = K + 1 /\ d.wx = b.wx /\ d.wy = b.wy /\ (Clean(b) => Clean(d))
          /\ Txt(d) = [Txt(two) EXCEPT ![y + 1] = s1]
      BY <2>12, <3>3 DEF Gets
    <3>5. Gets(d, c, y + 1, s2)
      <4> DEFINE q == y + 1
      <4>1. q \in Nat /\ q < Len(d.lines)
        BY <2>16, <3>4
      <4> HIDE DEF q
      <4>2. Gets(d, Fresh(d, q, s2, 0), q, s2)
        BY <2>5, <3>4, <4>1, FreshText
      <4> QED BY <3>2, <4>2 DEF q
    <3>6. Good(c) /\ c.wx = b.wx /\ c.wy = b.wy /\ (Clean(b) => Clean(c))
          /\ Txt(c) = [Txt(d) EXCEPT ![y + 1 + 1] = s2]
      BY <3>4, <3>5 DEF Gets
    <3>7. /\ Txt(c) \in Seq(Seq(Cells)) /\ Len(Txt(c)) = K + 1
          /\ \A i \in 1 .. K + 1 : Txt(c)[i] = IF i = y + 2 THEN s2 ELSE IF i = y + 1 THEN s1 ELSE Txt(two)[i]
      <4> DEFINE a == Txt(two)
                 q == y + 1
                 r == y + 2
      <4>1. /\ a \in Seq(Seq(Cells)) /\ Len(a) = K + 1 /\ q \in 1 .. K + 1 /\ r \in 1 .. K + 1 /\ q # r
            /\ Txt(c) = [[a EXCEPT ![q] = s1] EXCEPT ![r] = s2]
        <5>1. Txt(c) = [Txt(d) EXCEPT ![y + 2] = s2]
          BY <2>16, <3>6
        <5>2. Txt(d) = [a EXCEPT ![q] = s1]
          BY <3>4
        <5> HIDE DEF a
        <5> QED BY <2>12, <2>16, <5>1, <5>2 DEF a
      <4> HIDE DEF a, q, r
      <4>2. DOMAIN a = 1 .. K + 1
        BY <4>1
      <4>3. /\ [a EXCEPT ![q] = s1] \in Seq(Seq(Cells)) /\ Len([a EXCEPT ![q] = s1]) = K + 1
            /\ DOMAIN [a EXCEPT ![q] = s1] = 1 .. K + 1
            /\ \A i \in 1 .. K + 1 : [a EXCEPT ![q] = s1][i] = IF i = q THEN s1 ELSE a[i]
        BY <2>5, <4>1, <4>2
      <4> DEFINE g == [a EXCEPT ![q] = s1]
      <4>4. g \in Seq(Seq(Cells)) /\ Len(g) = K + 1 /\ DOMAIN g = 1 .. K + 1
            /\ \A i \in 1 .. K + 1 : g[i] = IF i = q THEN s1 ELSE a[i]
        BY <4>3
      <4>5. Txt(c) = [g EXCEPT ![r] = s2]
        BY <4>1
      <4> HIDE DEF g
      <4>6. /\ [g EXCEPT ![r] = s2] \in Seq(Seq(Cells)) /\ Len([g EXCEPT ![r] = s2]) = K + 1
            /\ \A i \in 1 .. K + 1 : [g EXCEPT ![r] = s2][i] = IF i = r THEN s2 ELSE g[i]
        BY <2>5, <4>1, <4>4
      <4> QED BY <4>4, <4>5, <4>6 DEF a, q, r
    <3>8. ASSUME NEW i \in 1 .. K + 1 PROVE Txt(c)[i] = v[i]
      <4>1. v[i] = Part(i)
        BY <2>14
      <4>2. i \in Int
        BY <1>1
      <4>3. CASE i = y + 1 \/ i = y + 2
        BY <2>16, <3>7, <4>1, <4>3
      <4>4. CASE i # y + 1 /\ i # y + 2
        <5>1. i <= y + 1 <=> i <= y
          BY <4>2, <4>4
        <5> QED BY <2>15, <3>7, <4>1, <4>4, <5>1
      <4> QED BY <4>3, <4>4
    <3> HIDE DEF Part
    <3>9. Txt(c) = v
      BY <2>14, <3>7, <3>8, SameSequence
    <3> QED BY <2>6, <3>6, <3>9 DEF Edits, c, t
  <2> QED BY <2>17, <2>18
<1> QED BY <1>2, <1>3

-----------------------------------------------------------------------------
(* Arrays get other numbers.                                               *)

First(all, a) == Min({i \in DOMAIN all : all[i].arr = a})
Number(all, s) == IF s.arr = 0 THEN Nil ELSE [arr |-> First(all, s.arr), len |-> s.len]
Numbers(all, slices) == [i \in DOMAIN slices |-> Number(all, slices[i])]
Arrays(b, all) == [k \in DOMAIN all |-> IF First(all, all[k].arr) = k THEN Whole(b, all[k]) ELSE <<>>]
Numbered(b) ==
  LET all == b.lines \o b.spare
  IN [heap |-> Arrays(b, all), lines |-> Numbers(all, b.lines), spare |-> Numbers(all, b.spare),
      wx |-> b.wx, wy |-> b.wy]

\* What Set makes of a buffer.
LEMMA SetNumbers ==
  ASSUME NEW b, Set(b)
  PROVE  /\ Buffer' = Numbered(b)
         /\ Len(b.lines) <= MaxY + 1 /\ b.wx <= MaxX /\ b.wy <= MaxY /\ wx' = b.wx /\ wy' = b.wy
<1>1. /\ heap' = Arrays(b, b.lines \o b.spare)
      /\ lines' = Numbers(b.lines \o b.spare, b.lines)
      /\ spare' = Numbers(b.lines \o b.spare, b.spare)
      /\ wx' = b.wx /\ wy' = b.wy
  BY DEF Set, Arrays, Numbers, Number, First
<1>2. Len(b.lines) <= MaxY + 1 /\ b.wx <= MaxX /\ b.wy <= MaxY
  BY DEF Set
<1> QED BY <1>1, <1>2 DEF Buffer, Numbered

\* The first slice of an array.
LEMMA FirstSlice ==
  ASSUME NEW all \in Seq(Slices), NEW k \in 1 .. Len(all)
  PROVE  /\ First(all, all[k].arr) \in 1 .. Len(all)
         /\ all[First(all, all[k].arr)].arr = all[k].arr
<1> DEFINE S == {i \in DOMAIN all : all[i].arr = all[k].arr}
<1>1. DOMAIN all = 1 .. Len(all) /\ k \in S
  OBVIOUS
<1>2. S \subseteq Nat /\ S # {} /\ S \subseteq 1 .. Len(all) /\ \A i \in S : all[i].arr = all[k].arr
  BY <1>1
<1>3. First(all, all[k].arr) = Min(S)
  BY DEF First
<1> HIDE DEF S
<1>4. \E x \in S : \A i \in S : x <= i
  BY <1>2, Least
<1>5. Min(S) \in S
  BY <1>4 DEF Min
<1> QED BY <1>2, <1>3, <1>5

\* Nothing else changes.
LEMMA NumberedSame ==
  ASSUME NEW b, Good(b)
  PROVE  LET c == Numbered(b)
         IN /\ Good(c) /\ c.wx = b.wx /\ c.wy = b.wy /\ Txt(c) = Txt(b) /\ (Clean(b) => Clean(c))
            /\ Len(c.lines) = Len(b.lines)
            /\ \A i \in 1 .. Len(b.lines) : c.lines[i].len = b.lines[i].len
<1> DEFINE all == b.lines \o b.spare
           n == Len(b.lines)
           m == Len(b.spare)
           c == Numbered(b)
<1>1. /\ b.lines \in Seq(Slices) /\ b.spare \in Seq(Slices) /\ n \in Nat /\ m \in Nat
      /\ DOMAIN b.lines = 1 .. n /\ DOMAIN b.spare = 1 .. m
      /\ \A i \in 1 .. n : b.lines[i] \in Slices /\ Sound(b, b.lines[i])
      /\ \A i \in 1 .. m : b.spare[i] \in Slices /\ Sound(b, b.spare[i])
      /\ b.heap \in Seq(Seq(Cells)) /\ b.wx \in Nat /\ b.wy \in Nat
  BY LinesType
<1>2. /\ all \in Seq(Slices) /\ Len(all) = n + m
      /\ \A i \in 1 .. n : i \in 1 .. n + m /\ all[i] = b.lines[i]
      /\ \A i \in 1 .. m : n + i \in 1 .. n + m /\ all[n + i] = b.spare[i]
  <2>1. Concatenated(Slices, b.lines, b.spare, n, m)
    BY <1>1, ConcatType
  <2> DEFINE ls == b.lines
             sp == b.spare
  <2>2. /\ all \in Seq(Slices) /\ Len(all) = n + m
        /\ \A i \in 1 .. n : all[i] = ls[i]
        /\ \A i \in n + 1 .. n + m : all[i] = sp[i - n]
    BY <2>1 DEF Concatenated
  <2>0. n \in Nat /\ m \in Nat
    BY <1>1
  <2> HIDE DEF all, n, m, ls, sp
  <2>3. \A i \in 1 .. n : i \in 1 .. n + m
    BY <2>0
  <2>4. ASSUME NEW i \in 1 .. m PROVE n + i \in 1 .. n + m /\ all[n + i] = sp[i]
    <3>1. n + i \in n + 1 .. n + m /\ n + i \in 1 .. n + m /\ (n + i) - n = i
      BY <2>0
    <3>2. all[n + i] = sp[(n + i) - n]
      BY <2>2, <3>1
    <3> QED BY <3>1, <3>2
  <2> QED BY <2>2, <2>3, <2>4 DEF ls, sp
<1>3. /\ c.heap = Arrays(b, all) /\ c.lines = Numbers(all, b.lines) /\ c.spare = Numbers(all, b.spare)
      /\ c.wx = b.wx /\ c.wy = b.wy
      /\ c = [heap |-> c.heap, lines |-> c.lines, spare |-> c.spare, wx |-> c.wx, wy |-> c.wy]
  BY DEF Numbered
<1> HIDE DEF all, c, n, m
<1>4. \A k \in 1 .. n + m : all[k] \in Slices /\ Sound(b, all[k])
  <2> SUFFICES ASSUME NEW k \in 1 .. n + m PROVE all[k] \in Slices /\ Sound(b, all[k])
    OBVIOUS
  <2>1. k \in 1 .. n \/ (k - n \in 1 .. m /\ n + (k - n) = k)
    BY <1>1
  <2> QED BY <1>1, <1>2, <2>1
<1>5. \A k \in 1 .. n + m : /\ First(all, all[k].arr) \in 1 .. n + m
                            /\ all[First(all, all[k].arr)].arr = all[k].arr
  BY <1>2, FirstSlice
<1>6. ASSUME NEW s \in Slices, Sound(b, s)
      PROVE  Whole(b, s) \in Seq(Cells)
  BY <1>6, LineType
<1>7. /\ c.heap \in Seq(Seq(Cells)) /\ DOMAIN c.heap = 1 .. n + m
      /\ \A k \in 1 .. n + m : c.heap[k] = IF First(all, all[k].arr) = k THEN Whole(b, all[k]) ELSE <<>>
  <2> DEFINE N == n + m
             h == [k \in 1 .. N |-> IF First(all, all[k].arr) = k THEN Whole(b, all[k]) ELSE <<>>]
  <2>1. c.heap = h
    BY <1>2, <1>3 DEF Arrays
  <2>2. N \in Nat
    BY <1>1
  <2>3. \A k \in 1 .. N : Whole(b, all[k]) \in Seq(Cells)
    BY <1>4, <1>6
  <2> HIDE DEF N
  <2>4. \A k \in 1 .. N : (IF First(all, all[k].arr) = k THEN Whole(b, all[k]) ELSE <<>>) \in Seq(Cells)
    BY <2>3
  <2>5. h \in [1 .. N -> Seq(Cells)]
    BY <2>4
  <2>6. h \in Seq(Seq(Cells))
    <3> HIDE DEF h
    <3> QED BY <2>2, <2>5
  <2>7. DOMAIN h = 1 .. N /\ \A k \in 1 .. N : h[k] = IF First(all, all[k].arr) = k THEN Whole(b, all[k]) ELSE <<>>
    OBVIOUS
  <2> QED BY <2>1, <2>6, <2>7 DEF N
<1>8. ASSUME NEW k \in 1 .. n + m
      PROVE  LET s == all[k]
                 t == Number(all, s)
             IN /\ t \in Slices /\ Sound(c, t) /\ Whole(c, t) = Whole(b, s) /\ t.len = s.len
                /\ t.arr = 0 => s = Nil
                /\ t.arr # 0 => t.arr \in 1 .. n + m /\ all[t.arr].arr = s.arr
                /\ s = Nil => t = Nil
  <2> DEFINE s == all[k]
             t == Number(all, s)
             f == First(all, s.arr)
  <2>1. s \in Slices /\ Sound(b, s) /\ s.arr \in Nat /\ s.len \in Nat
    BY <1>4 DEF Slices
  <2>2. CASE s.arr = 0
    <3>1. s = Nil
      BY <1>1, <2>1, <2>2 DEF Sound
    <3>2. t = Nil
      BY <2>2 DEF Number
    <3> QED BY <2>1, <3>1, <3>2 DEF Sound, Whole, Nil
  <2>3. CASE s.arr # 0
    <3>1. t = [arr |-> f, len |-> s.len]
      BY <2>3 DEF Number
    <3>2. f \in 1 .. n + m /\ all[f].arr = s.arr
      BY <1>5
    <3> HIDE DEF s, f
    <3>3. First(all, all[f].arr) = f
      BY <3>2 DEF f
    <3>4. c.heap[f] = Whole(b, all[f])
      BY <1>7, <3>2, <3>3
    <3>5. Whole(b, all[f]) = Whole(b, s)
      BY <3>2 DEF Whole
    <3>6. f \in Nat /\ f # 0
      BY <1>1, <3>2
    <3>7. t \in Slices /\ t.arr = f /\ t.len = s.len
      BY <2>1, <3>1, <3>6 DEF Slices
    <3>8. Whole(c, t) = Whole(b, s)
      BY <3>4, <3>5, <3>6, <3>7 DEF Whole
    <3>9. s.len <= Len(Whole(b, s))
      <4>1. s # Nil
        BY <2>3 DEF Nil
      <4> QED BY <2>1, <2>3, <4>1 DEF Sound, Whole
    <3>10. Sound(c, t)
      BY <1>7, <3>2, <3>4, <3>5, <3>7, <3>9 DEF Sound
    <3>11. s # Nil
      BY <2>3 DEF Nil
    <3> QED BY <3>2, <3>6, <3>7, <3>8, <3>10, <3>11 DEF s
  <2> QED BY <2>2, <2>3
<1>9. /\ c.lines \in Seq(Slices) /\ Len(c.lines) = n /\ DOMAIN c.lines = 1 .. n
      /\ \A i \in 1 .. n : c.lines[i] = Number(all, all[i])
  <2> DEFINE h == [i \in 1 .. n |-> Number(all, b.lines[i])]
  <2>1. c.lines = h
    BY <1>1, <1>3 DEF Numbers
  <2>2. \A i \in 1 .. n : b.lines[i] = all[i] /\ i \in 1 .. n + m
    BY <1>2
  <2>3. \A i \in 1 .. n : Number(all, b.lines[i]) \in Slices
    BY <1>8, <2>2
  <2>4. h \in [1 .. n -> Slices]
    BY <2>3
  <2>5. DOMAIN h = 1 .. n /\ \A i \in 1 .. n : h[i] = Number(all, b.lines[i])
    OBVIOUS
  <2> HIDE DEF h
  <2>6. h \in Seq(Slices) /\ Len(h) = n
    BY <1>1, <2>4
  <2> QED BY <2>1, <2>2, <2>5, <2>6
<1>10. /\ c.spare \in Seq(Slices) /\ DOMAIN c.spare = 1 .. m
       /\ \A i \in 1 .. m : c.spare[i] = Number(all, all[n + i])
  <2> DEFINE h == [i \in 1 .. m |-> Number(all, b.spare[i])]
  <2>1. c.spare = h
    BY <1>1, <1>3 DEF Numbers
  <2>2. \A i \in 1 .. m : b.spare[i] = all[n + i] /\ n + i \in 1 .. n + m
    BY <1>2
  <2>3. \A i \in 1 .. m : Number(all, b.spare[i]) \in Slices
    BY <1>8, <2>2
  <2>4. h \in [1 .. m -> Slices]
    BY <2>3
  <2>5. DOMAIN h = 1 .. m /\ \A i \in 1 .. m : h[i] = Number(all, b.spare[i])
    OBVIOUS
  <2> HIDE DEF h
  <2>6. h \in Seq(Slices)
    BY <1>1, <2>4
  <2> QED BY <2>1, <2>2, <2>5, <2>6
<1>11. \A i \in 1 .. n : i \in 1 .. n + m /\ all[i] = b.lines[i]
  BY <1>2
<1>12. Apart(c)
  <2> SUFFICES ASSUME NEW i \in 1 .. n, NEW j \in 1 .. n, i # j, c.lines[i].arr = c.lines[j].arr, c.lines[i] # Nil
               PROVE  FALSE
    BY <1>9 DEF Apart
  <2>1. c.lines[i] = Number(all, all[i]) /\ c.lines[j] = Number(all, all[j])
    BY <1>9
  <2>2. all[i] # Nil
    BY <1>8, <1>11, <2>1
  <2>3. c.lines[i].arr # 0
    BY <1>8, <1>11, <2>1, <2>2
  <2>4. all[i].arr = all[j].arr
    BY <1>8, <1>11, <2>1, <2>3
  <2>5. b.lines[i].arr = b.lines[j].arr /\ b.lines[i] # Nil
    BY <1>11, <2>2, <2>4
  <2> QED BY <1>1, <2>5 DEF Good, Apart
<1>13. Good(c)
  <2>1. c \in Buffers
    BY <1>1, <1>3, <1>7, <1>9, <1>10 DEF Buffers
  <2>2. \A i \in 1 .. n : Sound(c, c.lines[i])
    BY <1>8, <1>9, <1>11
  <2>3. \A i \in 1 .. m : Sound(c, c.spare[i])
    BY <1>2, <1>8, <1>10
  <2> QED BY <1>9, <1>10, <1>12, <2>1, <2>2, <2>3 DEF Good
<1>14. \A i \in 1 .. n : Whole(c, c.lines[i]) = Whole(b, b.lines[i]) /\ c.lines[i].len = b.lines[i].len
  BY <1>8, <1>9, <1>11
<1>15. Txt(c) = Txt(b)
  <2>1. \A i \in 1 .. n : Content(c, c.lines[i]) = Content(b, b.lines[i])
    BY <1>14 DEF Content
  <2>2. Txt(c) = [i \in 1 .. n |-> Content(c, c.lines[i])] /\ Txt(b) = [i \in 1 .. n |-> Content(b, b.lines[i])]
    BY <1>1, <1>9 DEF Txt
  <2> QED BY <2>1, <2>2
<1>16. ASSUME Clean(b) PROVE Clean(c)
  <2>1. \A i \in 1 .. m : b.spare[i] = Nil
    BY <1>1, <1>16 DEF Clean
  <2>2. \A i \in 1 .. m : c.spare[i] = Nil
    BY <1>2, <1>8, <1>10, <2>1
  <2>3. \A i \in 1 .. n : NulAfter(Whole(b, b.lines[i]), b.lines[i].len)
    BY <1>1, <1>16 DEF Clean
  <2>4. \A i \in 1 .. n : NulAfter(Whole(c, c.lines[i]), c.lines[i].len)
    BY <1>14, <2>3
  <2> QED BY <1>9, <1>10, <2>2, <2>4 DEF Clean
<1> QED BY <1>3, <1>9, <1>13, <1>14, <1>15, <1>16 DEF n, c

-----------------------------------------------------------------------------
(* The invariant.                                                          *)

\* The buffer is good, within its bounds, and nothing is left behind its
\* lines while nothing was taken out of them.
BufferInv ==
  /\ Good(Buffer) /\ Len(lines) <= MaxY + 1 /\ wx \in 0 .. MaxX /\ wy \in 0 .. MaxY
  /\ shrunk \in BOOLEAN /\ (~shrunk => Clean(Buffer))

\* The fields of the buffer are the variables, and its text the text.
LEMMA BufferText ==
  ASSUME Good(Buffer)
  PROVE  /\ TextOf = Txt(Buffer)
         /\ Buffer.heap = heap /\ Buffer.lines = lines /\ Buffer.spare = spare
         /\ Buffer.wx = wx /\ Buffer.wy = wy
<1>1. Buffer.heap = heap /\ Buffer.lines = lines /\ Buffer.spare = spare /\ Buffer.wx = wx /\ Buffer.wy = wy
  BY DEF Buffer
<1>2. \A i \in DOMAIN lines :
        Content(Buffer, lines[i]) = IF lines[i].arr = 0 THEN <<>> ELSE SubSeq(heap[lines[i].arr], 1, lines[i].len)
  <2> TAKE i \in DOMAIN lines
  <2>1. CASE lines[i].arr = 0
    <3>1. Sound(Buffer, lines[i])
      BY <1>1 DEF Good
    <3>2. DOMAIN heap = 1 .. Len(heap)
      BY <1>1 DEF Good, Buffers
    <3>3. lines[i] = Nil
      BY <1>1, <2>1, <3>1, <3>2 DEF Sound
    <3> QED BY <2>1, <3>3 DEF Content, Whole, Nil
  <2>2. CASE lines[i].arr # 0
    BY <1>1, <2>2 DEF Content, Whole
  <2> QED BY <2>1, <2>2
<1> HIDE DEF Buffer
<1> QED BY <1>1, <1>2 DEF TextOf, Txt

\* The invariant gives the types of the variables.
LEMMA InvTypeOK ==
  ASSUME BufferInv
  PROVE  TypeOK /\ LinesApart
<1>1. Good(Buffer) /\ Buffer.heap = heap /\ Buffer.lines = lines /\ Buffer.spare = spare
  BY BufferText DEF BufferInv
<1>2. heap \in Seq(Seq(Cells)) /\ lines \in Seq(Slices) /\ spare \in Seq(Slices)
  BY <1>1, LinesType
<1>3. ASSUME NEW l \in Range(lines \o spare)
      PROVE  l = Nil \/ (l.arr \in DOMAIN heap /\ l.len <= Len(heap[l.arr]))
  <2>1. PICK i \in DOMAIN (lines \o spare) : l = (lines \o spare)[i]
    BY DEF Range
  <2>2. Concatenated(Slices, lines, spare, Len(lines), Len(spare))
    BY <1>2, ConcatType
  <2>3. \/ i \in 1 .. Len(lines) /\ l = lines[i]
        \/ i - Len(lines) \in 1 .. Len(spare) /\ l = spare[i - Len(lines)]
    BY <1>2, <2>1, <2>2 DEF Concatenated
  <2>4. Sound(Buffer, l)
    BY <1>1, <2>3, LinesType
  <2> QED BY <1>1, <2>4 DEF Sound
<1>4. LinesApart
  BY <1>1 DEF Good, Apart, LinesApart
<1> QED BY <1>2, <1>3, <1>4 DEF TypeOK, BufferInv

\* Init makes the invariant true.
LEMMA InitInv ==
  ASSUME Init
  PROVE  BufferInv /\ TB!Init
<1>1. Buffer = [heap |-> <<>>, lines |-> <<>>, spare |-> <<>>, wx |-> 0, wy |-> 0]
  BY DEF Init, Buffer
<1>2. Buffer \in Buffers
  BY <1>1 DEF Buffers
<1>3. Good(Buffer) /\ Clean(Buffer)
  <2> HIDE DEF Buffer
  <2> QED BY <1>1, <1>2 DEF Good, Apart, Clean
<1>4. MaxX \in Nat /\ MaxY \in Nat
  BY ViewBufferAssumption DEF TB!Constants
<1>5. TextOf = <<>>
  BY DEF Init, TextOf
<1>6. Len(lines) <= MaxY + 1 /\ wx \in 0 .. MaxX /\ wy \in 0 .. MaxY /\ shrunk \in BOOLEAN
  <2>1. lines = <<>> /\ wx = 0 /\ wy = 0
    BY DEF Init
  <2>2. Len(lines) = 0
    BY <2>1
  <2>3. Len(lines) <= MaxY + 1 /\ wx \in 0 .. MaxX /\ wy \in 0 .. MaxY
    BY <1>4, <2>1, <2>2
  <2>4. shrunk \in BOOLEAN
    BY Zenon DEF Init
  <2> QED BY <2>3, <2>4
<1> QED BY <1>3, <1>5, <1>6 DEF Init, BufferInv, TB!Init

\* The same after a step.
LEMMA BufferTextNext ==
  (Good(Buffer) => TextOf = Txt(Buffer))'
<1>1. Good(Buffer) => TextOf = Txt(Buffer)
  BY BufferText
<1> QED BY <1>1, PTL

\* Set keeps the invariant and the text of the buffer it is given.
LEMMA SetStep ==
  ASSUME NEW b, Good(b), Set(b), shrunk' \in BOOLEAN, ~shrunk' => Clean(b)
  PROVE  /\ BufferInv' /\ TextOf' = Txt(b) /\ wx' = b.wx /\ wy' = b.wy
         /\ Len(lines') = Len(b.lines) /\ \A i \in 1 .. Len(b.lines) : lines'[i].len = b.lines[i].len
<1> DEFINE c == Numbered(b)
<1>1. Buffer' = c /\ Len(b.lines) <= MaxY + 1 /\ b.wx <= MaxX /\ b.wy <= MaxY /\ wx' = b.wx /\ wy' = b.wy
  BY SetNumbers
<1>2. /\ Good(c) /\ c.wx = b.wx /\ c.wy = b.wy /\ Txt(c) = Txt(b) /\ (Clean(b) => Clean(c))
      /\ Len(c.lines) = Len(b.lines)
      /\ \A i \in 1 .. Len(b.lines) : c.lines[i].len = b.lines[i].len
  BY NumberedSame
<1> HIDE DEF c
<1>3. c.lines = lines'
  BY <1>1 DEF Buffer
<1>4. Good(Buffer)' /\ (~shrunk' => Clean(Buffer)')
  BY <1>1, <1>2
<1>5. TextOf' = Txt(Buffer)'
  BY <1>4, BufferTextNext
<1>6. wx' \in 0 .. MaxX /\ wy' \in 0 .. MaxY
  <2>1. b.wx \in Nat /\ b.wy \in Nat /\ MaxX \in Nat /\ MaxY \in Nat
    BY LinesType, ViewBufferAssumption DEF TB!Constants
  <2> QED BY <1>1, <2>1
<1>7. Len(lines') <= MaxY + 1
  BY <1>1, <1>2, <1>3
<1>8. BufferInv'
  BY <1>4, <1>6, <1>7 DEF BufferInv
<1>9. TextOf' = Txt(b)
  BY <1>1, <1>2, <1>5
<1> QED BY <1>1, <1>2, <1>3, <1>8, <1>9

-----------------------------------------------------------------------------
(* The calls.                                                              *)

\* The bounds are numbers, and Write is given runes.
LEMMA Bounds ==
  /\ 0 .. MaxX \subseteq Nat /\ 0 .. MaxY \subseteq Nat /\ 0 .. MaxSlack \subseteq Nat
  /\ Inputs \subseteq Seq(Input)
<1>1. MaxX \in Nat /\ MaxY \in Nat /\ MaxSlack \in Nat /\ Inputs \subseteq Seq(Runes \cup {Newline, Return, Tab})
  BY ViewBufferAssumption DEF TB!Constants
<1> QED BY <1>1 DEF Input

\* A call that does not write past the end of a shortened text: an edit of
\* the buffer is an edit of the text.
LEMMA EditStep ==
  ASSUME BufferInv, NEW b, Set(b), UNCHANGED shrunk, NEW t, Edits(Buffer, b, t)
  PROVE  BufferInv' /\ TextOf' = t /\ UNCHANGED <<wx, wy>>
<1>1. Good(b) /\ Txt(b) = t /\ b.wx = wx /\ b.wy = wy /\ (Clean(Buffer) => Clean(b))
  BY DEF Edits, Buffer
<1>2. shrunk' \in BOOLEAN /\ (~shrunk' => Clean(b))
  BY <1>1 DEF BufferInv
<1> QED BY <1>1, <1>2, SetStep

\* A call that takes something out, and is remembered when it does.
LEMMA TakeStep ==
  ASSUME BufferInv, NEW b, Set(b), shrunk' = (shrunk \/ lines' # lines), NEW t,
         Good(b), b.wx = Buffer.wx, b.wy = Buffer.wy, Txt(b) = t, b = Buffer \/ Shrinks(Buffer, b)
  PROVE  BufferInv' /\ TextOf' = t /\ UNCHANGED <<wx, wy>>
<1>1. Buffer' = Numbered(b)
  BY SetNumbers
<1>2. /\ Len(lines') = Len(b.lines)
      /\ \A i \in 1 .. Len(b.lines) : lines'[i].len = b.lines[i].len
  BY <1>1, NumberedSame DEF Buffer
<1>3. Buffer.lines = lines /\ b.wx = wx /\ b.wy = wy
  BY DEF Buffer
<1>4. lines' = lines => ~Shrinks(Buffer, b)
  BY <1>2, <1>3 DEF Shrinks
<1>5. shrunk' \in BOOLEAN /\ (~shrunk' => ~shrunk /\ lines' = lines)
  OBVIOUS
<1>6. ~shrunk' => Clean(b)
  BY <1>4, <1>5 DEF BufferInv
<1> QED BY <1>3, <1>5, <1>6, SetStep

\* SetWritePos.
LEMMA SetWritePosStep ==
  ASSUME BufferInv, NEW x \in 0 .. MaxX, NEW y \in 0 .. MaxY, SetWritePos(x, y)
  PROVE  BufferInv' /\ TB!SetWritePos
<1>1. x \in Nat /\ y \in Nat
  BY Bounds
<1>2. PICK b : b = Buffer
  OBVIOUS
<1>3. Buffer' = [heap |-> b.heap, lines |-> b.lines, spare |-> b.spare, wx |-> x, wy |-> y]
  BY <1>2 DEF SetWritePos, Buffer
<1>4. Good(b) /\ (~shrunk => Clean(b))
  BY <1>2 DEF BufferInv
<1>5. PICK c : c = [heap |-> b.heap, lines |-> b.lines, spare |-> b.spare, wx |-> x, wy |-> y]
  OBVIOUS
<1>6. Good(c) /\ (Clean(b) => Clean(c))
  BY <1>1, <1>4, <1>5, Moved
<1>7. Good(Buffer)' /\ (~shrunk' => Clean(Buffer)')
  BY <1>3, <1>4, <1>5, <1>6 DEF SetWritePos
<1>8. BufferInv'
  BY <1>7 DEF BufferInv, SetWritePos
<1>9. TB!SetWritePos
  BY DEF SetWritePos, TB!SetWritePos, TextOf
<1> QED BY <1>8, <1>9

\* Write of a careful application.
LEMMA WriteStep ==
  ASSUME BufferInv, NEW p \in Inputs, NEW slack \in 0 .. MaxSlack, shrunk => WithinText, Write(p, slack)
  PROVE  BufferInv' /\ TB!Write(p)
<1>1. slack \in Nat /\ p \in Seq(Input)
  BY Bounds
<1>2. PICK b : b = Buffer
  OBVIOUS
<1>3. /\ Good(b) /\ TextOf = Txt(b) /\ b.lines = lines /\ b.wx = wx /\ b.wy = wy
      /\ (~shrunk => Clean(b)) /\ shrunk \in BOOLEAN
  BY <1>2, BufferText DEF BufferInv
<1>4. Clean(b) \/ Writing(b)
  BY <1>3 DEF WithinText, Writing
<1>5. PICK c : c = MakeWriteable(b, b.wx, b.wy, slack)
  OBVIOUS
<1>6. /\ Writing(c) /\ c.wx = b.wx /\ c.wy = b.wy /\ (Clean(b) => Clean(c))
      /\ Txt(c) = TB!Writeable(Txt(b), b.wx, b.wy)
  BY <1>1, <1>3, <1>4, <1>5, MakeWriteableText
<1>7. PICK d : d = WriteAll(c, p, slack)
  OBVIOUS
<1>8. Writing(d) /\ (Clean(c) => Clean(d)) /\ Shown(d) = TB!WriteAll(Shown(c), p)
  BY <1>1, <1>6, <1>7, WriteAllText
<1>9. Set(d) /\ shrunk' = shrunk
  BY <1>2, <1>3, <1>5, <1>7 DEF Write
<1>10. Good(d) /\ (~shrunk' => Clean(d)) /\ shrunk' \in BOOLEAN
  BY <1>3, <1>6, <1>8, <1>9 DEF Writing
<1>11. BufferInv' /\ TextOf' = Txt(d) /\ wx' = d.wx /\ wy' = d.wy
  BY <1>9, <1>10, SetStep
<1>12. Shown(c) = [text |-> TB!Writeable(TextOf, wx, wy), wx |-> wx, wy |-> wy]
  BY <1>3, <1>6 DEF Shown
<1>13. TB!WriteAll([text |-> TB!Writeable(TextOf, wx, wy), wx |-> wx, wy |-> wy], p)
         = [text |-> Txt(d), wx |-> d.wx, wy |-> d.wy]
  BY <1>8, <1>12 DEF Shown
<1> QED BY <1>11, <1>13 DEF TB!Write

\* The operations of TextLines, as TextBuffer has them.
LEMMA SameLines ==
  ASSUME NEW t, NEW x, NEW y, NEW ch, NEW o
  PROVE  /\ TB!WriteRune(t, x, y, ch, o) = WriteRune(t, x, y, ch, o)
         /\ TB!DeleteRune(t, x, y) = DeleteRune(t, x, y)
         /\ TB!MergeLines(t, y) = MergeLines(t, y)
         /\ TB!BreakLine(t, x, y) = BreakLine(t, x, y)
<1>1. TB!WriteRune(t, x, y, ch, o) = WriteRune(t, x, y, ch, o)
  BY Zenon DEF TB!WriteRune, WriteRune, TB!Pad, Pad, TB!Line, Line, TB!Drop, Drop
<1>2. TB!DeleteRune(t, x, y) = DeleteRune(t, x, y)
  BY Zenon DEF TB!DeleteRune, DeleteRune, TB!CanDelete, CanDelete, TB!Line, Line, TB!Drop, Drop
<1>3. TB!MergeLines(t, y) = MergeLines(t, y)
  BY Zenon DEF TB!MergeLines, MergeLines, TB!Line, Line, TB!Drop, Drop
<1>4. TB!BreakLine(t, x, y) = BreakLine(t, x, y)
  BY Zenon DEF TB!BreakLine, BreakLine, TB!Line, Line, TB!Drop, Drop
<1> QED BY <1>1, <1>2, <1>3, <1>4

\* EditRune.
LEMMA EditRuneStep ==
  ASSUME BufferInv, NEW x \in 0 .. MaxX, NEW y \in 0 .. MaxY, NEW ch \in Runes, NEW o \in BOOLEAN,
         NEW slack \in 0 .. MaxSlack, EditRune(x, y, ch, o, slack)
  PROVE  BufferInv' /\ TB!Edit
<1>1. x \in Nat /\ y \in Nat /\ slack \in Nat /\ Good(Buffer) /\ TextOf = Txt(Buffer)
  BY Bounds, BufferText DEF BufferInv
<1>2. PICK b : b = InsertRune(Buffer, x, y, ch, o, slack)
  OBVIOUS
<1>3. PICK t : t = WriteRune(TextOf, x, y, ch, o)
  OBVIOUS
<1>4. Edits(Buffer, b, t)
  BY <1>1, <1>2, <1>3, InsertRuneText
<1>5. BufferInv' /\ TextOf' = t /\ UNCHANGED <<wx, wy>>
  BY <1>2, <1>4, EditStep DEF EditRune
<1>6. TB!Changed(TB!WriteRune(TextOf, x, y, ch, o))
  BY <1>3, <1>5, SameLines DEF TB!Changed
<1> QED BY <1>5, <1>6 DEF TB!Edit

\* BreakLineAt.
LEMMA BreakLineAtStep ==
  ASSUME BufferInv, NEW x \in 0 .. MaxX, NEW y \in 0 .. MaxY, BreakLineAt(x, y)
  PROVE  BufferInv' /\ TB!Edit
<1>1. x \in Nat /\ y \in Nat /\ Good(Buffer) /\ TextOf = Txt(Buffer)
  BY Bounds, BufferText DEF BufferInv
<1>2. PICK b : b = SplitLine(Buffer, x, y)
  OBVIOUS
<1>3. PICK t : t = BreakLine(TextOf, x, y)
  OBVIOUS
<1>4. Edits(Buffer, b, t)
  BY <1>1, <1>2, <1>3, SplitLineText
<1>5. BufferInv' /\ TextOf' = t /\ UNCHANGED <<wx, wy>>
  BY <1>2, <1>4, EditStep DEF BreakLineAt
<1>6. TB!Changed(TB!BreakLine(TextOf, x, y))
  BY <1>3, <1>5, SameLines DEF TB!Changed
<1> QED BY <1>5, <1>6 DEF TB!Edit

\* DeleteRuneAt.
LEMMA DeleteRuneAtStep ==
  ASSUME BufferInv, NEW x \in 0 .. MaxX, NEW y \in 0 .. MaxY, DeleteRuneAt(x, y)
  PROVE  BufferInv' /\ TB!Edit
<1>1. x \in Nat /\ y \in Nat /\ Good(Buffer) /\ TextOf = Txt(Buffer)
  BY Bounds, BufferText DEF BufferInv
<1>2. PICK b : b = TakeRune(Buffer, x, y)
  OBVIOUS
<1>3. PICK t : t = DeleteRune(TextOf, x, y)
  OBVIOUS
<1>4. Good(b) /\ b.wx = Buffer.wx /\ b.wy = Buffer.wy /\ Txt(b) = t /\ (b = Buffer \/ Shrinks(Buffer, b))
  BY <1>1, <1>2, <1>3, TakeRuneText
<1>5. BufferInv' /\ TextOf' = t /\ UNCHANGED <<wx, wy>>
  BY <1>2, <1>4, TakeStep DEF DeleteRuneAt
<1>6. TB!Changed(TB!DeleteRune(TextOf, x, y))
  BY <1>3, <1>5, SameLines DEF TB!Changed
<1> QED BY <1>5, <1>6 DEF TB!Edit

\* MergeLinesAt.
LEMMA MergeLinesAtStep ==
  ASSUME BufferInv, NEW y \in 0 .. MaxY, NEW slack \in 0 .. MaxSlack, MergeLinesAt(y, slack)
  PROVE  BufferInv' /\ TB!Edit
<1>1. slack \in Nat /\ y \in Nat /\ Good(Buffer) /\ TextOf = Txt(Buffer)
  BY Bounds, BufferText DEF BufferInv
<1>2. PICK b : b = JoinLines(Buffer, y, slack)
  OBVIOUS
<1>3. PICK t : t = MergeLines(TextOf, y)
  OBVIOUS
<1>4. Good(b) /\ b.wx = Buffer.wx /\ b.wy = Buffer.wy /\ Txt(b) = t /\ (b = Buffer \/ Shrinks(Buffer, b))
  BY <1>1, <1>2, <1>3, JoinLinesText
<1>5. BufferInv' /\ TextOf' = t /\ UNCHANGED <<wx, wy>>
  BY <1>2, <1>4, TakeStep DEF MergeLinesAt
<1>6. TB!Changed(TB!MergeLines(TextOf, y))
  BY <1>3, <1>5, SameLines DEF TB!Changed
<1> QED BY <1>5, <1>6 DEF TB!Edit

\* SetHighlight does not change the text.
LEMMA SetHighlightStep ==
  ASSUME BufferInv, NEW y \in 0 .. MaxY, NEW slack \in 0 .. MaxSlack, SetHighlight(y, slack)
  PROVE  BufferInv' /\ UNCHANGED <<TextOf, wx, wy>>
<1>1. /\ slack \in Nat /\ y \in Nat /\ Good(Buffer) /\ TextOf = Txt(Buffer) /\ Buffer.lines = lines
      /\ y < Len(Buffer.lines)
  BY Bounds, BufferText DEF BufferInv, SetHighlight
<1>2. PICK b : b = Fresh(Buffer, y, Content(Buffer, Line(Buffer.lines, y)), slack)
  OBVIOUS
<1>3. PICK t : t = TextOf
  OBVIOUS
<1>4. Edits(Buffer, b, t)
  BY <1>1, <1>2, <1>3, SetHighlightText
<1>5. BufferInv' /\ TextOf' = t /\ UNCHANGED <<wx, wy>>
  BY <1>1, <1>2, <1>4, EditStep DEF SetHighlight
<1> QED BY <1>3, <1>5

\* Clear.
LEMMA ClearStep ==
  ASSUME BufferInv, Clear
  PROVE  BufferInv' /\ TB!Clear
<1>1. PICK b : b = [heap |-> heap, lines |-> <<>>, spare |-> <<>>, wx |-> 0, wy |-> 0]
  OBVIOUS
<1>2. Set(b) /\ shrunk' = FALSE
  <2>1. [Buffer EXCEPT !.lines = <<>>, !.spare = <<>>, !.wx = 0, !.wy = 0] = b
    <3>1. PICK c : c = [Buffer EXCEPT !.lines = <<>>]
      OBVIOUS
    <3>2. c = [heap |-> heap, lines |-> <<>>, spare |-> spare, wx |-> wx, wy |-> wy]
      BY <3>1 DEF Buffer
    <3>3. PICK d : d = [c EXCEPT !.spare = <<>>]
      OBVIOUS
    <3>4. d = [heap |-> heap, lines |-> <<>>, spare |-> <<>>, wx |-> wx, wy |-> wy]
      BY <3>2, <3>3
    <3>5. PICK e : e = [d EXCEPT !.wx = 0]
      OBVIOUS
    <3>6. e = [heap |-> heap, lines |-> <<>>, spare |-> <<>>, wx |-> 0, wy |-> wy]
      BY <3>4, <3>5
    <3>7. PICK f : f = [e EXCEPT !.wy = 0]
      OBVIOUS
    <3>8. f = b
      BY <1>1, <3>6, <3>7
    <3>9. f = [Buffer EXCEPT !.lines = <<>>, !.spare = <<>>, !.wx = 0, !.wy = 0]
      BY <3>1, <3>3, <3>5, <3>7
    <3> QED BY <3>8, <3>9
  <2> QED BY <2>1 DEF Clear
<1>3. heap \in Seq(Seq(Cells))
  BY BufferText, LinesType DEF BufferInv
<1>4. b \in Buffers
  BY <1>1, <1>3 DEF Buffers
<1>5. b.lines = <<>> /\ b.spare = <<>> /\ b.wx = 0 /\ b.wy = 0
  BY <1>1
<1>6. Good(b) /\ Clean(b)
  BY <1>4, <1>5 DEF Good, Apart, Clean
<1>7. Txt(b) = <<>>
  BY <1>5 DEF Txt
<1>8. shrunk' \in BOOLEAN
  BY <1>2
<1> QED BY <1>2, <1>5, <1>6, <1>7, <1>8, SetStep DEF TB!Clear

\* What SetLine gathers is a line: a Write into an empty buffer of one line.
LEMMA GatheredType ==
  ASSUME NEW p \in Seq(Input)
  PROVE  TB!WriteAll([text |-> <<(<<>>)>>, wx |-> 0, wy |-> 0], p).text[1] \in Seq(Cells)
<1>1. PICK b : b = [heap |-> <<>>, lines |-> <<Nil>>, spare |-> <<>>, wx |-> 0, wy |-> 0]
  OBVIOUS
<1>2. b.heap = <<>> /\ b.lines = <<Nil>> /\ b.spare = <<>> /\ b.wx = 0 /\ b.wy = 0
  BY <1>1
<1>3. Nil \in Slices /\ Nil.arr = 0 /\ Nil.len = 0
  BY DEF Nil, Slices
<1>4. <<Nil>> \in Seq(Slices) /\ Len(<<Nil>>) = 1 /\ DOMAIN <<Nil>> = 1 .. 1 /\ <<Nil>>[1] = Nil
  BY <1>3
<1>5. b \in Buffers
  <2>1. <<>> \in Seq(Seq(Cells)) /\ <<>> \in Seq(Slices) /\ 0 \in Nat
    OBVIOUS
  <2> QED BY <1>1, <1>4, <2>1 DEF Buffers
<1>6. Good(b)
  <2>1. \A i \in DOMAIN b.lines : b.lines[i] = Nil
    BY <1>2, <1>4
  <2>2. \A i \in DOMAIN b.lines : Sound(b, b.lines[i])
    BY <2>1 DEF Sound
  <2>3. DOMAIN b.spare = {}
    BY <1>2
  <2> QED BY <1>5, <2>1, <2>2, <2>3 DEF Good, Apart
<1>7. Writing(b)
  BY <1>2, <1>3, <1>4, <1>6 DEF Writing, Line
<1>8. Shown(b) = [text |-> <<(<<>>)>>, wx |-> 0, wy |-> 0]
  <2>1. Content(b, Nil) = <<>>
    BY <1>3 DEF Content, Whole
  <2>2. Txt(b) \in Seq(Seq(Cells)) /\ Len(Txt(b)) = 1 /\ \A i \in 1 .. 1 : Txt(b)[i] = <<>>
    <3>1. Len(b.lines) = 1 /\ b.lines[1] = Nil
      BY <1>2, <1>4
    <3>2. /\ Txt(b) \in Seq(Seq(Cells)) /\ Len(Txt(b)) = Len(b.lines)
          /\ \A i \in 1 .. Len(b.lines) : Txt(b)[i] = Content(b, b.lines[i])
      BY <1>6, TxtType
    <3>3. \A i \in 1 .. 1 : i = 1
      OBVIOUS
    <3> QED BY <2>1, <3>1, <3>2, <3>3
  <2>3. <<(<<>>)>> \in Seq(Seq(Cells)) /\ Len(<<(<<>>)>>) = 1 /\ \A i \in 1 .. 1 : <<(<<>>)>>[i] = <<>>
    OBVIOUS
  <2>4. Txt(b) = <<(<<>>)>>
    BY <2>2, <2>3, SameSequence
  <2> QED BY <1>2, <2>4 DEF Shown
<1>9. PICK c : c = WriteAll(b, p, 0)
  OBVIOUS
<1>10. Writing(c) /\ Shown(c) = TB!WriteAll([text |-> <<(<<>>)>>, wx |-> 0, wy |-> 0], p)
  BY <1>7, <1>8, <1>9, WriteAllText
<1>11. Txt(c)[1] \in Seq(Cells)
  <2>1. Good(c) /\ c.wy \in Nat /\ c.wy < Len(c.lines) /\ Len(c.lines) \in Nat
    BY <1>10, LinesType DEF Writing
  <2> QED BY <2>1, TxtType
<1> QED BY <1>10, <1>11 DEF Shown

\* SetLine.
LEMMA SetLineStep ==
  ASSUME BufferInv, NEW y \in 0 .. MaxY, NEW p \in Inputs, NEW slack \in 0 .. MaxSlack, SetLine(y, p, slack)
  PROVE  BufferInv' /\ TB!SetLine
<1>1. /\ slack \in Nat /\ y \in Nat /\ p \in Seq(Input) /\ Good(Buffer) /\ TextOf = Txt(Buffer)
      /\ Buffer.lines = lines /\ y < Len(Buffer.lines)
  BY Bounds, BufferText DEF BufferInv, SetLine
<1>2. PICK new : new = TB!WriteAll([text |-> <<(<<>>)>>, wx |-> 0, wy |-> 0], p).text[1]
  OBVIOUS
<1>3. new \in Seq(Cells)
  BY <1>1, <1>2, GatheredType
<1>4. PICK b : b = Fresh(Buffer, y, new, slack)
  OBVIOUS
<1>5. PICK t : t = [TextOf EXCEPT ![y + 1] = new]
  OBVIOUS
<1>6. Edits(Buffer, b, t)
  BY <1>1, <1>3, <1>4, <1>5, SetLineText
<1>7. Set(b) /\ UNCHANGED shrunk
  BY <1>2, <1>4 DEF SetLine
<1>8. BufferInv' /\ TextOf' = t /\ UNCHANGED <<wx, wy>>
  BY <1>6, <1>7, EditStep
<1>9. y \in 0 .. Len(TextOf) - 1
  <2>1. Len(TextOf) = Len(Buffer.lines) /\ Len(Buffer.lines) \in Nat
    BY <1>1, TxtType, LinesType
  <2> QED BY <1>1, <2>1
<1>10. {Newline, Return} \cap {p[i] : i \in DOMAIN p} = {}
  BY DEF SetLine, Range
<1>11. TB!Changed([TextOf EXCEPT ![y + 1] =
         TB!WriteAll([text |-> <<(<<>>)>>, wx |-> 0, wy |-> 0], p).text[1]])
  BY <1>2, <1>5, <1>8 DEF TB!Changed
<1> QED BY <1>8, <1>9, <1>10, <1>11 DEF TB!SetLine

\* Each step of a careful application keeps the invariant and is one of
\* TextBuffer, or leaves the text alone.
LEMMA StepInv ==
  ASSUME BufferInv, [CarefulNext]_vars
  PROVE  BufferInv' /\ [TB!Next]_<<TextOf, wx, wy>>
<1>1. CASE UNCHANGED vars
  <2>1. UNCHANGED <<heap, lines, spare, wx, wy, shrunk>>
    BY <1>1 DEF vars
  <2>2. Buffer' = Buffer
    BY <2>1 DEF Buffer
  <2>3. Good(Buffer)' /\ (~shrunk' => Clean(Buffer)')
    BY <2>1, <2>2 DEF BufferInv
  <2>4. BufferInv'
    BY <2>1, <2>3 DEF BufferInv
  <2>5. UNCHANGED <<TextOf, wx, wy>>
    BY <2>1 DEF TextOf
  <2> QED BY <2>4, <2>5
<1>2. ASSUME NEW x \in 0 .. MaxX, NEW y \in 0 .. MaxY, SetWritePos(x, y)
      PROVE  BufferInv' /\ TB!Next
  BY <1>2, SetWritePosStep DEF TB!Next
<1>3. ASSUME NEW x \in 0 .. MaxX, NEW y \in 0 .. MaxY, DeleteRuneAt(x, y) \/ BreakLineAt(x, y)
      PROVE  BufferInv' /\ TB!Next
  BY <1>3, DeleteRuneAtStep, BreakLineAtStep DEF TB!Next
<1>4. ASSUME NEW x \in 0 .. MaxX, NEW y \in 0 .. MaxY, NEW ch \in Runes, NEW o \in BOOLEAN,
             NEW slack \in 0 .. MaxSlack, EditRune(x, y, ch, o, slack)
      PROVE  BufferInv' /\ TB!Next
  BY <1>4, EditRuneStep DEF TB!Next
<1>5. ASSUME NEW y \in 0 .. MaxY, NEW slack \in 0 .. MaxSlack, MergeLinesAt(y, slack)
      PROVE  BufferInv' /\ TB!Next
  BY <1>5, MergeLinesAtStep DEF TB!Next
<1>6. ASSUME NEW y \in 0 .. MaxY, NEW slack \in 0 .. MaxSlack, SetHighlight(y, slack)
      PROVE  BufferInv' /\ UNCHANGED <<TextOf, wx, wy>>
  BY <1>6, SetHighlightStep
<1>7. ASSUME NEW y \in 0 .. MaxY, NEW slack \in 0 .. MaxSlack, NEW p \in Inputs, SetLine(y, p, slack)
      PROVE  BufferInv' /\ TB!Next
  BY <1>7, SetLineStep DEF TB!Next
<1>8. CASE Clear
  BY <1>8, ClearStep DEF TB!Next
<1>9. ASSUME NEW p \in Inputs, NEW slack \in 0 .. MaxSlack, shrunk => WithinText, Write(p, slack)
      PROVE  BufferInv' /\ TB!Next
  BY <1>9, WriteStep DEF TB!Next
<1>10. CASE Other
  BY <1>10, <1>2, <1>3, <1>4, <1>5, <1>6, <1>7, <1>8 DEF Other
<1> QED BY <1>1, <1>9, <1>10 DEF CarefulNext

-----------------------------------------------------------------------------
(* Theorems.                                                               *)

\* The buffer stays in its bounds, and every slice of view.go and edit.go
\* ends where its array does: no index of the code is out of range.
THEOREM TypeCorrect == CarefulSpec => []TypeOK
<1>1. Init => BufferInv
  BY InitInv
<1>2. BufferInv /\ [CarefulNext]_vars => BufferInv'
  BY StepInv
<1>3. BufferInv => TypeOK
  BY InvTypeOK
<1> QED BY <1>1, <1>2, <1>3, PTL DEF CarefulSpec

\* No two lines share an array, whatever append and mergeLines leave behind:
\* a change of one line never shows in another.
THEOREM LinesStayApart == CarefulSpec => []LinesApart
<1>1. Init => BufferInv
  BY InitInv
<1>2. BufferInv /\ [CarefulNext]_vars => BufferInv'
  BY StepInv
<1>3. BufferInv => LinesApart
  BY InvTypeOK
<1> QED BY <1>1, <1>2, <1>3, PTL DEF CarefulSpec

\* The slices implement TextBuffer: in every sequence of calls of an
\* application that does not write past the end of a text it has shortened,
\* the text is what lines of values would be.
THEOREM TextBufferImplemented == CarefulSpec => ImplementsTextBuffer
<1>1. Init => BufferInv /\ TB!Init
  BY InitInv
<1>2. BufferInv /\ [CarefulNext]_vars => BufferInv' /\ [TB!Next]_<<TextOf, wx, wy>>
  BY StepInv
<1> QED BY <1>1, <1>2, PTL DEF CarefulSpec, ImplementsTextBuffer, TB!Spec
=============================================================================
