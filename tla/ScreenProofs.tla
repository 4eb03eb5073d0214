---------------------------- MODULE ScreenProofs ----------------------------
(***************************************************************************)
(* What TLAPS proves of Screen for every set of views, wherever they lie,  *)
(* any text and every size of the terminal.                                *)
(***************************************************************************)
EXTENDS Screen, SequenceFacts

\* A view with the values that its fields can have.
ViewSet ==
  [x0 : Int, y0 : Int, x1 : Int, y1 : Int, cx : Nat, cy : Nat, ox : Nat, oy : Nat,
   visible : BOOLEAN, frame : BOOLEAN, title : Nat, subtitle : Nat, pad : Nat,
   lines : Text, auto : BOOLEAN, wrap : BOOLEAN]

\* The points of the screen.
Points == (0 .. term[1] - 1) \X (0 .. term[2] - 1)

\* The invariant: the types of the fields too, and the properties, each of
\* which is preserved by itself.
ScreenInv ==
  /\ TypeOK
  /\ \A n \in DOMAIN view : view[n] \in ViewSet
  /\ ClickReachesSeen /\ FlushFailsWhenNarrow /\ CursorInFocus

-----------------------------------------------------------------------------
(* Views.                                                                  *)

\* The fields of a view.
LEMMA FieldsOf ==
  ASSUME NEW v \in ViewSet
  PROVE  /\ v.x0 \in Int /\ v.y0 \in Int /\ v.x1 \in Int /\ v.y1 \in Int
         /\ v.cx \in Nat /\ v.cy \in Nat /\ v.ox \in Nat /\ v.oy \in Nat
         /\ v.visible \in BOOLEAN /\ v.frame \in BOOLEAN /\ v.auto \in BOOLEAN /\ v.wrap \in BOOLEAN
         /\ v.title \in Nat /\ v.subtitle \in Nat /\ v.pad \in Nat /\ v.lines \in Text
         /\ DOMAIN v = Fields
BY DEF ViewSet, Fields

\* The size of a view.
LEMMA ViewSize ==
  ASSUME NEW v \in ViewSet
  PROVE  /\ Width(v) \in Int /\ Width(v) <= v.x1 - v.x0 - 1
         /\ Height(v) \in Int /\ Height(v) <= v.y1 - v.y0 - 1
         /\ v.pad = 0 => Width(v) = v.x1 - v.x0 - 1 /\ Height(v) = v.y1 - v.y0 - 1
BY FieldsOf DEF Width, Height

\* A view that is placed.
LEMMA PlaceType ==
  ASSUME NEW v \in ViewSet, NEW r, r[1] \in Int, r[2] \in Int, r[3] \in Int, r[4] \in Int
  PROVE  Place(v, r) \in ViewSet /\ Place(v, r).x0 = r[1] /\ Place(v, r).x1 = r[3]
BY DEF ViewSet, Place

\* A view with what the application sets.
LEMMA ViewWithType ==
  ASSUME NEW n \in Names, NEW look \in Looks(n),
         NEW r, r[1] \in Int, r[2] \in Int, r[3] \in Int, r[4] \in Int,
         NEW c, c[1] \in Nat, c[2] \in Nat, NEW o, o[1] \in Nat, o[2] \in Nat
  PROVE  /\ ViewWith(look, r, c, o) \in ViewSet
         /\ ViewWith(look, r, c, o).x0 = r[1] /\ ViewWith(look, r, c, o).x1 = r[3]
<1>1. look \in [visible : BOOLEAN, frame : BOOLEAN, title : Nat, subtitle : Nat, pad : Nat,
                lines : Text, auto : BOOLEAN, wrap : BOOLEAN]
  BY ScreenAssumption
<1> QED BY <1>1 DEF ViewWith, ViewSet

-----------------------------------------------------------------------------
(* Rows and columns.                                                       *)

\* A line of the text.
LEMMA LineOf ==
  ASSUME NEW v \in ViewSet, NEW y \in 0 .. Len(v.lines) - 1
  PROVE  Line(v.lines, y) \in Seq(Cells) /\ Line(v.lines, y) \in Range(v.lines)
<1>1. v.lines \in Seq(Seq(Cells)) /\ y + 1 \in DOMAIN v.lines
  BY FieldsOf DEF Text
<1> QED BY <1>1 DEF Line, Range

\* The columns of some cells, of which each has one.
LEMMA WidthOf ==
  ASSUME NEW S, NEW s \in Seq(S)
  PROVE  /\ LineWidth(s) \in Int
         /\ (\A i \in DOMAIN s : s[i] \notin Wide \cup Zero) => LineWidth(s) = Len(s)
<1>1. LineWidth(s) = Len(s) + Count(s, Wide) - Count(s, Zero)
  BY DEF LineWidth, Count, Places
<1>2. /\ Count(s, Wide) \in Nat /\ (Count(s, Wide) = 0 <=> \A i \in DOMAIN s : s[i] \notin Wide)
      /\ Count(s, Zero) \in Nat /\ (Count(s, Zero) = 0 <=> \A i \in DOMAIN s : s[i] \notin Zero)
  BY CountType
<1> QED BY <1>1, <1>2

\* The first row of a line begins at its first cell, the others further on.
LEMMA BeginsType ==
  ASSUME NEW v \in ViewSet, NEW y \in 0 .. Len(v.lines) - 1
  PROVE  0 \in Begins(v, y) /\ Begins(v, y) \subseteq 0 .. Len(Line(v.lines, y))
<1> DEFINE line == Line(v.lines, y)
<1>1. Len(line) \in Nat
  BY LineOf
<1>2. 0 \in RowBegins(line, Width(v)) /\ RowBegins(line, Width(v)) \subseteq 0 .. Len(line)
  <2> HIDE DEF line
  <2> QED BY <1>1 DEF RowBegins
<1> QED BY <1>1, <1>2 DEF Begins

\* The rows are finitely many.
LEMMA ViewRowsType ==
  ASSUME NEW v \in ViewSet
  PROVE  IsFiniteSet(ViewRows(v)) /\ Cardinality(ViewRows(v)) \in Nat
<1> DEFINE L == Len(v.lines)
           f == [y \in 0 .. L - 1 |-> {y} \X Begins(v, y)]
           S == {{y} \X Begins(v, y) : y \in 0 .. L - 1}
<1>1. L \in Nat
  BY FieldsOf DEF Text
<1>2. ASSUME NEW y \in 0 .. L - 1 PROVE IsFiniteSet({y} \X Begins(v, y))
  <2> DEFINE n == Len(Line(v.lines, y))
  <2>1. n \in Nat /\ Begins(v, y) \subseteq 0 .. n
    BY LineOf, BeginsType
  <2> HIDE DEF n
  <2>2. IsFiniteSet(0 .. n)
    BY <2>1, FS_Interval
  <2>3. IsFiniteSet(Begins(v, y)) /\ IsFiniteSet({y})
    BY <2>1, <2>2, FS_Subset, FS_Singleton
  <2> QED BY <2>3, FS_Product
<1>3. IsFiniteSet(0 .. L - 1)
  BY <1>1, FS_Interval
<1>4. f \in Surjection(0 .. L - 1, S)
  BY DEF Surjection
<1>5. IsFiniteSet(S)
  <2> HIDE DEF f, S, L
  <2> QED BY <1>3, <1>4, FS_Surjection
<1>6. \A T \in S : IsFiniteSet(T)
  BY <1>2
<1>7. IsFiniteSet(UNION S)
  <2> HIDE DEF S
  <2> QED BY <1>5, <1>6, FS_UNION
<1>8. ViewRows(v) = UNION S
  BY DEF ViewRows
<1> QED BY <1>7, <1>8, FS_CardinalityType

\* The row of a rune and where it begins.
LEMMA RowType ==
  ASSUME NEW v \in ViewSet, NEW y \in 0 .. Len(v.lines) - 1, NEW x \in Nat
  PROVE  /\ BeginOf(v, x, y) \in 0 .. Len(Line(v.lines, y)) /\ BeginOf(v, x, y) <= x
         /\ RowOf(v, x, y) \in Int
<1> DEFINE n == Len(Line(v.lines, y))
           K == {s \in Begins(v, y) : s <= x}
           R == {r \in ViewRows(v) : r[1] < y \/ (r[1] = y /\ r[2] <= x)}
<1>1. n \in Nat /\ K \subseteq 0 .. n /\ 0 \in K
  BY LineOf, BeginsType
<1>2. Max(K) \in K
  <2> HIDE DEF K, n
  <2> QED BY <1>1, Extremes
<1>3. Cardinality(R) \in Nat
  <2>1. R \in SUBSET ViewRows(v)
    OBVIOUS
  <2> HIDE DEF R
  <2> QED BY <2>1, ViewRowsType, FS_Subset, FS_CardinalityType
<1> QED BY <1>1, <1>2, <1>3 DEF BeginOf, RowOf

\* View.draw moves the origin only, and only once.
Moved(v, x, y) == [v EXCEPT !.ox = x, !.oy = y]

\* A view with another origin lies where it lay and has the same rows.
LEMMA SamePlace ==
  ASSUME NEW v \in ViewSet, NEW x \in Nat, NEW y \in Nat
  PROVE  LET w == Moved(v, x, y)
         IN /\ w \in ViewSet
            /\ w.x0 = v.x0 /\ w.y0 = v.y0 /\ w.x1 = v.x1 /\ w.y1 = v.y1
            /\ w.visible = v.visible /\ w.pad = v.pad /\ w.frame = v.frame
            /\ w.subtitle = v.subtitle /\ w.lines = v.lines /\ w.ox = x /\ w.oy = y
            /\ w.cx = v.cx /\ w.cy = v.cy /\ w.auto = v.auto /\ w.wrap = v.wrap
            /\ \A i \in Nat, j \in Nat : Moved(w, i, j) = Moved(v, i, j)
            /\ v = Moved(v, v.ox, v.oy)
BY DEF ViewSet, Moved

LEMMA SameRows ==
  ASSUME NEW v, NEW w, w.x0 = v.x0, w.x1 = v.x1, w.y0 = v.y0, w.y1 = v.y1, w.pad = v.pad,
         w.lines = v.lines, w.wrap = v.wrap
  PROVE  /\ Width(w) = Width(v) /\ Height(w) = Height(v) /\ ViewRows(w) = ViewRows(v)
         /\ Straight(w) <=> Straight(v)
         /\ TooNarrow(w) <=> TooNarrow(v)
<1>1. Width(w) = Width(v) /\ Height(w) = Height(v)
  BY DEF Width, Height
<1>2. \A y : Begins(w, y) = Begins(v, y)
  BY <1>1 DEF Begins
<1>3. ViewRows(w) = ViewRows(v)
  BY <1>2 DEF ViewRows
<1> QED BY <1>1, <1>3 DEF Straight, TooNarrow

\* The origin that View.draw leaves.
NewX(v) == IF v.visible /\ v.wrap /\ Width(v) # 0 THEN 0 ELSE v.ox
NewY(v) ==
  IF v.visible /\ ~(v.wrap /\ Width(v) = 0) /\ v.auto /\ Cardinality(ViewRows(v)) > Height(v)
  THEN Cardinality(ViewRows(v)) - Height(v) - 1 ELSE v.oy

LEMMA ScrolledIs ==
  ASSUME NEW v \in ViewSet
  PROVE  NewX(v) \in Nat /\ NewY(v) \in Nat /\ Scrolled(v) = Moved(v, NewX(v), NewY(v))
<1> DEFINE rows == Cardinality(ViewRows(v))
           h == Height(v)
           o == rows - h - 1
<1>1. rows \in Nat /\ h \in Int /\ v.ox \in Nat /\ v.oy \in Nat
  BY ViewRowsType, ViewSize, FieldsOf
<1>2. /\ v = Moved(v, v.ox, v.oy)
      /\ Leftmost(v) = IF v.wrap THEN Moved(v, 0, v.oy) ELSE v
      /\ [Leftmost(v) EXCEPT !.oy = o] = Moved(v, IF v.wrap THEN 0 ELSE v.ox, o)
  <2> HIDE DEF o
  <2> QED BY DEF Leftmost, Moved, ViewSet
<1>3. rows > h => o \in Nat
  BY <1>1
<1>4. Scrolled(v) = IF ~v.visible \/ (v.wrap /\ Width(v) = 0) THEN v
                    ELSE IF v.auto /\ rows > h THEN [Leftmost(v) EXCEPT !.oy = o] ELSE Leftmost(v)
  BY DEF Scrolled
<1>5. /\ NewX(v) = IF v.visible /\ v.wrap /\ Width(v) # 0 THEN 0 ELSE v.ox
      /\ NewY(v) = IF v.visible /\ ~(v.wrap /\ Width(v) = 0) /\ v.auto /\ rows > h THEN o ELSE v.oy
  BY DEF NewX, NewY
<1> HIDE DEF rows, h, o
<1>6. CASE ~v.visible \/ (v.wrap /\ Width(v) = 0)
  BY <1>1, <1>2, <1>4, <1>5, <1>6
<1>7. CASE ~(~v.visible \/ (v.wrap /\ Width(v) = 0)) /\ v.auto /\ rows > h
  BY <1>1, <1>2, <1>3, <1>4, <1>5, <1>7
<1>8. CASE ~(~v.visible \/ (v.wrap /\ Width(v) = 0)) /\ ~(v.auto /\ rows > h)
  BY <1>1, <1>2, <1>4, <1>5, <1>8
<1> QED BY <1>6, <1>7, <1>8

LEMMA ScrolledType ==
  ASSUME NEW v \in ViewSet
  PROVE  /\ Scrolled(v) \in ViewSet
         /\ \E x \in Nat, y \in Nat : Scrolled(v) = Moved(v, x, y)
         /\ Scrolled(Scrolled(v)) = Scrolled(v)
<1>1. PICK x \in Nat, y \in Nat : x = NewX(v) /\ y = NewY(v)
  BY ScrolledIs
<1> DEFINE w == Moved(v, x, y)
<1>2. Scrolled(v) = w
  BY <1>1, ScrolledIs
<1>3. /\ w \in ViewSet
      /\ w.x0 = v.x0 /\ w.y0 = v.y0 /\ w.x1 = v.x1 /\ w.y1 = v.y1
      /\ w.visible = v.visible /\ w.pad = v.pad /\ w.lines = v.lines /\ w.ox = x /\ w.oy = y
      /\ w.auto = v.auto /\ w.wrap = v.wrap
      /\ \A i \in Nat, j \in Nat : Moved(w, i, j) = Moved(v, i, j)
  BY SamePlace
<1> HIDE DEF w
<1>4. Width(w) = Width(v) /\ Height(w) = Height(v) /\ ViewRows(w) = ViewRows(v)
  BY <1>3, SameRows
<1>5. NewX(w) = x /\ NewY(w) = y
  BY <1>1, <1>3, <1>4 DEF NewX, NewY
<1>6. Scrolled(w) = Moved(w, x, y)
  BY <1>3, <1>5, ScrolledIs
<1> QED BY <1>2, <1>3, <1>6 DEF w

\* The first cell after n is the last of n + 1.
LEMMA OneMoreCell ==
  ASSUME NEW S, NEW s \in Seq(S), NEW n \in Nat, n < Len(s)
  PROVE  /\ SubSeq(s, 1, n) \in Seq(S) /\ s[n + 1] \in S
         /\ SubSeq(s, 1, n + 1) = Append(SubSeq(s, 1, n), s[n + 1])
OBVIOUS

\* The cells behind the first n, or some of them.
LEMMA PartIs ==
  ASSUME NEW S, NEW s \in Seq(S), NEW n \in Nat, NEW m \in Nat, n <= m, m <= Len(s)
  PROVE  LET t == SubSeq(s, n + 1, m)
         IN /\ t \in Seq(S) /\ Len(t) = m - n /\ DOMAIN t = 1 .. m - n
            /\ \A i \in DOMAIN t : t[i] = s[n + i] /\ n + i \in DOMAIN s
OBVIOUS

\* A row takes something of a line that goes on, unless its next rune is too
\* wide for it.
LEMMA EmptyRowIsNarrow ==
  ASSUME NEW d \in Seq(Cells), d # <<>>, NEW m \in Int, m >= 1, RowLen(d, m) = 0
  PROVE  m = 1 /\ d[1] \in Wide
<1> DEFINE w(n) == LineWidth(SubSeq(d, 1, n))
           taken == {n \in 0 .. Len(d) : w(n) <= m}
           full == {n \in taken : w(n) = m}
<1>1. Len(d) \in Nat /\ 1 \in 0 .. Len(d) /\ 0 \in 0 .. Len(d)
  OBVIOUS
<1>2. w(0) = 0
  <2>1. SubSeq(d, 1, 0) = <<>> /\ <<>> \in Seq(Cells) /\ Len(<<>>) = 0 /\ DOMAIN <<>> = {}
    OBVIOUS
  <2> QED BY <2>1, WidthOf
<1>3. w(1) \in Int /\ w(1) <= 2 /\ (d[1] \notin Wide => w(1) <= 1)
  <2> DEFINE e == SubSeq(d, 1, 0)
             c == d[1]
             t == SubSeq(d, 1, 1)
  <2>1. e \in Seq(Cells) /\ c \in Cells /\ t = Append(e, c) /\ t \in Seq(Cells) /\ Len(t) = 1 /\ DOMAIN e = {}
    <3>1. 0 \in Nat /\ 0 < Len(d) /\ 0 + 1 = 1
      BY <1>1
    <3>2. e \in Seq(Cells) /\ d[0 + 1] \in Cells /\ SubSeq(d, 1, 0 + 1) = Append(e, d[0 + 1])
      BY <3>1, OneMoreCell
    <3>3. t \in Seq(Cells) /\ Len(t) = 1 /\ Len(e) = 0
      BY <1>1, SubSeqType
    <3> HIDE DEF e, t
    <3>4. DOMAIN e = {}
      BY <3>2, <3>3
    <3> QED BY <3>1, <3>2, <3>3, <3>4 DEF t
  <2> HIDE DEF e, c, t
  <2>2. Count(e, Wide) = 0
    BY <2>1, CountType
  <2>3. Count(t, Wide) = Count(e, Wide) + (IF c \in Wide THEN 1 ELSE 0)
    <3>1. t = Append(e, c) /\ e \in Seq(Cells) /\ c \in Cells
      BY <2>1
    <3>2. Count(Append(e, c), Wide) = Count(e, Wide) + (IF c \in Wide THEN 1 ELSE 0)
      BY <3>1, CountAppend
    <3> QED BY <3>1, <3>2
  <2>4. Count(t, Zero) \in Nat
    BY <2>1, CountType
  <2>5. LineWidth(t) = Len(t) + Count(t, Wide) - Count(t, Zero)
    BY DEF LineWidth, Count, Places
  <2>6. LineWidth(t) \in Int /\ LineWidth(t) <= 2 /\ (c \notin Wide => LineWidth(t) <= 1)
    BY <2>1, <2>2, <2>3, <2>4, <2>5
  <2> QED BY <2>6 DEF t, c
<1>4. RowLen(d, m) = IF full = {} THEN Max(taken) ELSE Min(full)
  BY DEF RowLen
<1> HIDE DEF w
<1>5. 0 \in taken /\ 0 \notin full /\ taken \subseteq 0 .. Len(d) /\ full \subseteq 0 .. Len(d)
  BY <1>1, <1>2
<1>6. 1 \in taken <=> w(1) <= m
  BY <1>1
<1> HIDE DEF taken, full
<1>7. full = {}
  <2> SUFFICES ASSUME full # {} PROVE FALSE
    OBVIOUS
  <2>1. Min(full) \in full
    BY <1>1, <1>5, Extremes
  <2> QED BY <1>4, <1>5, <2>1
<1>8. \A k \in taken : k <= 0
  <2>1. \A k \in taken : k <= Max(taken)
    BY <1>1, <1>5, Extremes
  <2> QED BY <1>4, <1>7, <2>1
<1>9. ~(w(1) <= m)
  BY <1>6, <1>8
<1> QED BY <1>3, <1>9

LEMMA EndlessIsNarrow ==
  ASSUME NEW line \in Seq(Cells), NEW m \in Int, m >= 1, NEW last, Endless(line, m, last)
  PROVE  m = 1 /\ Range(line) \cap Wide # {}
<1>1. PICK s \in RowBegins(line, m) : s < Len(line) /\ Taken(line, s, m) = 0
  BY DEF Endless
<1>2. Len(line) \in Nat /\ s \in Nat
  BY <1>1 DEF RowBegins
<1> DEFINE d == Drop(line, s)
<1>3. d \in Seq(Cells) /\ d # <<>> /\ d[1] = line[s + 1] /\ s + 1 \in DOMAIN line
  <2>1. /\ d \in Seq(Cells) /\ DOMAIN d = 1 .. Len(line) - s
        /\ \A i \in DOMAIN d : d[i] = line[s + i] /\ s + i \in DOMAIN line
    BY <1>1, <1>2, PartIs DEF Drop
  <2>2. 1 \in DOMAIN d
    BY <1>1, <1>2, <2>1
  <2>3. d[1] = line[s + 1] /\ s + 1 \in DOMAIN line
    BY <2>1, <2>2
  <2> HIDE DEF d
  <2>4. d # <<>>
    BY <2>2
  <2> QED BY <2>1, <2>3, <2>4
<1>4. RowLen(d, m) = 0
  BY <1>1 DEF Taken
<1> HIDE DEF d
<1>5. m = 1 /\ d[1] \in Wide
  BY <1>3, <1>4, EmptyRowIsNarrow
<1> QED BY <1>3, <1>5 DEF Range

\* What does not end is a view too narrow for its text.
LEMMA StuckIsNarrow ==
  ASSUME NEW v \in ViewSet, CursorStuck(v) \/ TextStuck(v)
  PROVE  TooNarrow(v)
<1>1. v.wrap
  BY DEF CursorStuck, TextStuck
<1>2. Width(v) \in Int
  BY ViewSize
<1>3. CASE Width(v) < 1
  BY <1>1, <1>3 DEF TooNarrow
<1>4. CASE Width(v) >= 1
  <2>1. \E line \in Range(v.lines) : line \in Seq(Cells) /\ \E last : Endless(line, Width(v), last)
    <3>1. v.lines \in Seq(Seq(Cells)) /\ v.cy \in Nat
      BY FieldsOf DEF Text
    <3>2. CASE TextStuck(v)
      <4>1. PICK line \in Range(v.lines) : Endless(line, Width(v), Len(line))
        BY <3>2 DEF TextStuck
      <4>2. line \in Seq(Cells)
        BY <3>1 DEF Range
      <4> QED BY <4>1, <4>2
    <3>3. CASE CursorStuck(v)
      <4> DEFINE m == Min({v.cy, Len(v.lines) - 1})
      <4>1. PICK y \in 0 .. m : \E last : Endless(Line(v.lines, y), Width(v), last)
        <5>1. PICK y \in 0 .. m : Endless(Line(v.lines, y), Width(v),
                                          IF y = v.cy THEN v.cx ELSE Len(Line(v.lines, y)))
          <6>1. Width(v) # 0
            BY <1>2, <1>4
          <6> HIDE DEF m
          <6> QED BY <3>3, <6>1 DEF CursorStuck, m
        <5> QED BY <5>1
      <4>2. m \in Int /\ m <= Len(v.lines) - 1
        <5>1. v.cy \in Int /\ Len(v.lines) - 1 \in Int
          BY <3>1
        <5> QED BY <5>1, TwoNumbers
      <4> HIDE DEF m
      <4>3. y \in 0 .. Len(v.lines) - 1
        BY <3>1, <4>2
      <4> QED BY <4>1, <4>3, LineOf
    <3> QED BY <3>2, <3>3
  <2>2. PICK line \in Range(v.lines) : line \in Seq(Cells) /\ \E last : Endless(line, Width(v), last)
    BY <2>1
  <2>3. PICK last : Endless(line, Width(v), last)
    BY <2>2
  <2>4. Width(v) = 1 /\ Range(line) \cap Wide # {}
    BY <1>2, <1>4, <2>2, <2>3, EndlessIsNarrow
  <2> QED BY <1>1, <2>2, <2>4 DEF TooNarrow
<1> QED BY <1>2, <1>3, <1>4

-----------------------------------------------------------------------------
(* Text whose runes have a column each, in lines that are not folded.       *)

\* A row takes the whole rest of a line that fits.
LEMMA WholeRow ==
  ASSUME NEW d \in Seq(Cells), NEW m \in Int, Len(d) <= m, \A i \in DOMAIN d : d[i] \notin Wide \cup Zero
  PROVE  RowLen(d, m) = Len(d)
<1> DEFINE w(n) == LineWidth(SubSeq(d, 1, n))
           taken == {n \in 0 .. Len(d) : w(n) <= m}
           full == {n \in taken : w(n) = m}
<1>1. Len(d) \in Nat
  OBVIOUS
<1>2. \A n \in 0 .. Len(d) : w(n) = n
  <2> SUFFICES ASSUME NEW n \in 0 .. Len(d) PROVE w(n) = n
    OBVIOUS
  <2> DEFINE s == SubSeq(d, 1, n)
  <2>1. s \in Seq(Cells) /\ Len(s) = n /\ \A i \in 1 .. n : s[i] = d[i]
    BY SubSeqType
  <2> HIDE DEF s
  <2>2. \A i \in DOMAIN s : s[i] \notin Wide \cup Zero
    BY <2>1
  <2> QED BY <2>1, <2>2, WidthOf DEF s
<1>3. RowLen(d, m) = IF full = {} THEN Max(taken) ELSE Min(full)
  BY DEF RowLen
<1> HIDE DEF w
<1>4. /\ Len(d) \in taken /\ taken \subseteq 0 .. Len(d)
      /\ \A n \in full : n = m
  BY <1>1, <1>2
<1>5. full \subseteq taken
  OBVIOUS
<1> HIDE DEF taken, full
<1>6. CASE full = {}
  <2>1. Max(taken) \in taken /\ Len(d) <= Max(taken)
    BY <1>1, <1>4, Extremes
  <2>2. Max(taken) \in 0 .. Len(d)
    BY <1>4, <2>1
  <2>3. Max(taken) = Len(d)
    BY <1>1, <2>1, <2>2
  <2> QED BY <1>3, <1>6, <2>3
<1>7. CASE full # {}
  <2>1. Min(full) \in full
    BY <1>1, <1>4, <1>5, <1>7, Extremes
  <2>2. Min(full) = m /\ Min(full) \in 0 .. Len(d)
    BY <1>4, <1>5, <2>1
  <2> QED BY <1>1, <1>3, <1>7, <2>2
<1> QED BY <1>6, <1>7

\* RowBegins: the function it computes with, up to cell n.
BeginsUpTo(line, m, n, f) ==
  f = [s \in 0 .. n |-> s = 0 \/ \E t \in 0 .. s - 1 : t + Taken(line, t, m) = s /\ f[t]]

LEMMA BeginsExist ==
  ASSUME NEW line, NEW m, NEW n \in Nat
  PROVE  \E f : BeginsUpTo(line, m, n, f)
<1> DEFINE T == {k \in Nat : ~\E f : BeginsUpTo(line, m, k, f)}
<1> SUFFICES ASSUME T # {} PROVE FALSE
  OBVIOUS
<1>1. PICK k \in T : \A j \in T : k <= j
  <2>1. T \subseteq Nat
    OBVIOUS
  <2> HIDE DEF T
  <2> QED BY <2>1, Least
<1>2. k \in Nat /\ ~\E f : BeginsUpTo(line, m, k, f)
  OBVIOUS
<1>3. \E g : k = 0 \/ BeginsUpTo(line, m, k - 1, g)
  <2>1. CASE k # 0
    <3>1. k - 1 \in Nat /\ ~(k <= k - 1)
      BY <1>2, <2>1
    <3> QED BY <1>1, <3>1
  <2> QED BY <2>1
<1>4. PICK g : k = 0 \/ BeginsUpTo(line, m, k - 1, g)
  BY <1>3
<1> HIDE DEF T
<1> DEFINE P(h, s) == s = 0 \/ \E t \in 0 .. s - 1 : t + Taken(line, t, m) = s /\ h[t]
           f == [s \in 0 .. k |-> IF s = k THEN P(g, k) ELSE g[s]]
<1>5. \A t \in 0 .. k - 1 : f[t] = g[t]
  BY <1>2
<1>6. ASSUME NEW s \in 0 .. k PROVE f[s] = P(f, s)
  <2>1. P(f, s) = P(g, s)
    <3>1. \A t \in 0 .. s - 1 : t \in 0 .. k - 1
      BY <1>2
    <3> HIDE DEF f
    <3> QED BY <1>5, <3>1
  <2>2. CASE s = k
    BY <2>1, <2>2
  <2>3. CASE s # k
    <3>1. k # 0 /\ s \in 0 .. k - 1
      BY <1>2, <2>3
    <3>2. g[s] = P(g, s)
      BY <1>4, <3>1 DEF BeginsUpTo
    <3>3. f[s] = g[s]
      BY <1>5, <3>1
    <3> HIDE DEF f, P
    <3> QED BY <2>1, <3>2, <3>3
  <2> QED BY <2>2, <2>3
<1>7. f = [s \in 0 .. k |-> f[s]]
  OBVIOUS
<1> HIDE DEF f
<1>8. f = [s \in 0 .. k |-> P(f, s)]
  BY <1>6, <1>7
<1> QED BY <1>2, <1>8 DEF BeginsUpTo

\* No second row begins.
LEMMA StraightBegins ==
  ASSUME NEW v \in ViewSet, Straight(v), NEW y \in 0 .. Len(v.lines) - 1
  PROVE  Begins(v, y) = {0}
<1> DEFINE line == Line(v.lines, y)
           m == Width(v)
           n == Len(line)
           g == CHOOSE f : f = [s \in 0 .. n |-> s = 0 \/ \E t \in 0 .. s - 1 :
                                                   t + Taken(line, t, m) = s /\ f[t]]
<1>1. CASE ~v.wrap
  BY <1>1 DEF Begins
<1>2. CASE v.wrap
  <2>1. /\ line \in Seq(Cells) /\ n \in Nat /\ n <= m /\ m \in Int
        /\ \A i \in DOMAIN line : line[i] \notin Wide \cup Zero
    BY <1>2, LineOf, ViewSize DEF Straight
  <2>2. Begins(v, y) = RowBegins(line, m)
    BY <1>2 DEF Begins
  <2>3. RowBegins(line, m) = {0} \cup {s \in 1 .. n - 1 : g[s]}
    BY DEF RowBegins
  <2> HIDE DEF line, m
  <2>4. BeginsUpTo(line, m, n, g)
    <3>1. \E f : BeginsUpTo(line, m, n, f)
      BY <2>1, BeginsExist
    <3> QED BY <3>1 DEF BeginsUpTo
  <2> HIDE DEF g
  <2>5. ASSUME NEW t \in 0 .. n - 1 PROVE t + Taken(line, t, m) = n
    <3> DEFINE d == Drop(line, t)
    <3>1. /\ d \in Seq(Cells) /\ Len(d) = n - t
          /\ \A i \in DOMAIN d : d[i] = line[t + i] /\ t + i \in DOMAIN line
      BY <2>1, PartIs DEF Drop, n
    <3> HIDE DEF d
    <3>2. \A i \in DOMAIN d : d[i] \notin Wide \cup Zero
      BY <2>1, <3>1
    <3>3. RowLen(d, m) = n - t
      <4>1. Len(d) <= m
        BY <2>1, <3>1
      <4> QED BY <2>1, <3>1, <3>2, <4>1, WholeRow
    <3>4. Taken(line, t, m) = n - t
      BY <2>1, <3>3 DEF Taken, d
    <3> QED BY <2>1, <3>4
  <2>6. ASSUME NEW s \in 1 .. n - 1 PROVE ~g[s]
    <3>1. g[s] = (s = 0 \/ \E t \in 0 .. s - 1 : t + Taken(line, t, m) = s /\ g[t])
      <4>1. s \in 0 .. n
        BY <2>1
      <4> QED BY <2>4, <4>1 DEF BeginsUpTo
    <3>2. \A t \in 0 .. s - 1 : t \in 0 .. n - 1 /\ n # s
      BY <2>1
    <3>3. s # 0
      OBVIOUS
    <3> QED BY <2>5, <3>1, <3>2, <3>3
  <2> QED BY <2>2, <2>3, <2>6
<1> QED BY <1>1, <1>2

\* Each line is a row of its own.
LEMMA StraightRow ==
  ASSUME NEW v \in ViewSet, Straight(v), NEW y \in 0 .. Len(v.lines) - 1, NEW x \in Nat
  PROVE  BeginOf(v, x, y) = 0 /\ RowOf(v, x, y) = y
<1>1. BeginOf(v, x, y) = 0
  <2>1. {s \in Begins(v, y) : s <= x} = {0}
    BY StraightBegins
  <2>2. Max({0}) = 0
    BY DEF Max
  <2> QED BY <2>1, <2>2 DEF BeginOf
<1>2. RowOf(v, x, y) = y
  <2> DEFINE L == Len(v.lines)
             R == {r \in ViewRows(v) : r[1] < y \/ (r[1] = y /\ r[2] <= x)}
             Z == {0}
             I == 0 .. y
  <2>1. L \in Nat /\ y \in Nat /\ y < L
    BY FieldsOf DEF Text
  <2>2. \A i \in 0 .. L - 1 : Begins(v, i) = Z
    BY StraightBegins
  <2>3. \A r : r \in ViewRows(v) <=> r \in (0 .. L - 1) \X Z
    <3>1. ViewRows(v) = UNION {{i} \X Begins(v, i) : i \in 0 .. L - 1}
      BY DEF ViewRows
    <3>2. \A r : r \in ViewRows(v) <=> \E i \in 0 .. L - 1 : r \in {i} \X Z
      BY <2>2, <3>1
    <3> QED BY <3>2
  <2>4. \A r : r \in R <=> r \in I \X Z
    BY <2>1, <2>3
  <2>5. R = I \X Z
    <3> HIDE DEF R, Z, I
    <3> QED BY <2>4
  <2>6. IsFiniteSet(I) /\ Cardinality(I) = y + 1
    BY <2>1, FS_Interval
  <2>7. IsFiniteSet(Z) /\ Cardinality(Z) = 1
    BY FS_Singleton
  <2> HIDE DEF R, Z, I
  <2>8. Cardinality(R) = Cardinality(I) * Cardinality(Z)
    BY <2>5, <2>6, <2>7, FS_Product
  <2>9. RowOf(v, x, y) = Cardinality(R) - 1
    BY DEF RowOf, R
  <2> QED BY <2>1, <2>6, <2>7, <2>8, <2>9
<1> QED BY <1>1, <1>2

\* Where View.draw puts a rune that it does not leave out.
LEMMA StraightPut ==
  ASSUME NEW v \in ViewSet, Straight(v), NEW y \in 0 .. Len(v.lines) - 1,
         NEW x \in Nat, x < Len(Line(v.lines, y)), v.ox <= x
  PROVE  PutAt(v, x, y) = [x |-> x - v.ox, y |-> y - v.oy]
<1> DEFINE line == Line(v.lines, y)
           s == SubSeq(line, v.ox + 1, x)
<1>1. line \in Seq(Cells) /\ v.ox \in Nat /\ \A i \in DOMAIN line : line[i] \notin Wide \cup Zero
  BY LineOf, FieldsOf DEF Straight
<1>2. BeginOf(v, x, y) = 0 /\ RowOf(v, x, y) = y
  BY StraightRow
<1>3. /\ s \in Seq(Cells) /\ Len(s) = x - v.ox
      /\ \A i \in DOMAIN s : s[i] = line[v.ox + i] /\ v.ox + i \in DOMAIN line
  <2>1. x <= Len(line)
    BY <1>1
  <2> HIDE DEF line
  <2>2. PICK n \in Nat : n = v.ox
    BY <1>1
  <2> DEFINE t == SubSeq(line, n + 1, x)
  <2>3. /\ t \in Seq(Cells) /\ Len(t) = x - n /\ DOMAIN t = 1 .. x - n
        /\ \A i \in DOMAIN t : t[i] = line[n + i] /\ n + i \in DOMAIN line
    <3>1. n <= x
      BY <2>2
    <3> QED BY <1>1, <2>1, <3>1, PartIs
  <2> QED BY <2>2, <2>3
<1>4. PutAt(v, x, y) = [x |-> LineWidth(s), y |-> y - v.oy]
  <2>1. BeginOf(v, x, y) + v.ox + 1 = v.ox + 1
    BY <1>1, <1>2
  <2> QED BY <1>2, <2>1 DEF PutAt
<1> HIDE DEF s, line
<1>5. \A i \in DOMAIN s : s[i] \notin Wide \cup Zero
  BY <1>1, <1>3
<1>6. LineWidth(s) = x - v.ox
  BY <1>3, <1>5, WidthOf
<1> QED BY <1>4, <1>6

-----------------------------------------------------------------------------
(* Pictures.                                                               *)

\* The size of the screen, and that it has a point.
LEMMA SizeOf ==
  ASSUME term \in Sizes
  PROVE  /\ term[1] \in Nat /\ term[2] \in Nat /\ term[1] > 0 /\ term[2] > 0
         /\ Points # {}
         /\ \A x \in Int, y \in Int : <<x, y>> \in Points <=> On(x, term[1]) /\ On(y, term[2])
<1>1. term[1] \in Nat /\ term[2] \in Nat /\ term[1] > 0 /\ term[2] > 0
  BY ScreenAssumption
<1>2. \A x \in Int, y \in Int : <<x, y>> \in Points <=> On(x, term[1]) /\ On(y, term[2])
  BY <1>1 DEF Points, On
<1>3. <<0, 0>> \in Points
  BY <1>1 DEF Points
<1> QED BY <1>1, <1>2, <1>3

\* Runes set at points of the picture; one elsewhere is an error.
LEMMA RunesSet ==
  ASSUME NEW picture, NEW points, NEW cell
  PROVE  /\ points \subseteq DOMAIN picture =>
              /\ DOMAIN SetRunes(picture, points, cell) = DOMAIN picture
              /\ \A p \in DOMAIN picture :
                   SetRunes(picture, points, cell)[p] = IF p \in points THEN cell ELSE picture[p]
         /\ ~(points \subseteq DOMAIN picture) => DOMAIN SetRunes(picture, points, cell) = {}
<1>1. CASE points \subseteq DOMAIN picture
  BY <1>1 DEF SetRunes
<1>2. CASE ~(points \subseteq DOMAIN picture)
  BY <1>2 DEF SetRunes
<1> QED BY <1>1, <1>2

\* A pair of integers.
LEMMA PairIs ==
  ASSUME NEW A, NEW B, NEW p \in A \X B
  PROVE  p[1] \in A /\ p[2] \in B /\ p = <<p[1], p[2]>>
OBVIOUS

\* The frame is drawn where the screen is.
LEMMA FrameOnScreen ==
  ASSUME term \in Sizes, NEW v \in ViewSet
  PROVE  Edges(v, term) \subseteq Points /\ Corners(v, term) \subseteq Points
<1>1. v.x0 \in Int /\ v.y0 \in Int /\ v.x1 \in Int /\ v.y1 \in Int
  BY FieldsOf
<1>2. \A p \in Int \X Int : OnBoth(p, term) => p \in Points
  <2> SUFFICES ASSUME NEW p \in Int \X Int, OnBoth(p, term) PROVE p \in Points
    OBVIOUS
  <2>1. p[1] \in Int /\ p[2] \in Int /\ p = <<p[1], p[2]>>
    BY PairIs
  <2> QED BY <2>1, SizeOf DEF OnBoth
<1>3. ASSUME NEW p \in Edges(v, term) PROVE p \in Points
  <2>1. p \in Int \X Int
    BY <1>1 DEF Edges
  <2>2. OnBoth(p, term)
    BY DEF Edges
  <2> QED BY <1>2, <2>1, <2>2
<1>4. ASSUME NEW p \in Corners(v, term) PROVE p \in Points
  <2>1. CASE v.y0 = v.y1
    <3>1. On(v.x0, term[1]) /\ On(v.x1, term[1]) /\ On(v.y0, term[2]) /\ p \in {v.x0, v.x1} \X {v.y0}
      BY <2>1 DEF Corners
    <3>2. p = <<v.x0, v.y0>> \/ p = <<v.x1, v.y0>>
      BY <3>1
    <3> QED BY <1>1, <3>1, <3>2, SizeOf
  <2>2. CASE v.y0 # v.y1
    <3>1. p \in {v.x0, v.x1} \X {v.y0, v.y1} /\ OnBoth(p, term)
      BY <2>2 DEF Corners
    <3> QED BY <1>1, <1>2, <3>1
  <2> QED BY <2>1, <2>2
<1> QED BY <1>3, <1>4

\* So is a title: it may begin left of the screen, and it is cut at the
\* right.
LEMMA TitleOnScreen ==
  ASSUME term \in Sizes, NEW v \in ViewSet
  PROVE  Title(v, term) \subseteq Points
<1>1. v.x0 \in Int /\ v.y0 \in Int /\ v.x1 \in Int /\ v.title \in Nat /\ term[1] \in Nat
  BY FieldsOf, SizeOf
<1> SUFFICES ASSUME NEW p \in Title(v, term) PROVE p \in Points
  OBVIOUS
<1>2. On(v.y0, term[2])
  BY DEF Title
<1> DEFINE xs == {x \in v.x0 + 2 .. v.x0 + v.title + 1 : x >= 0 /\ x <= v.x1 - 2 /\ x < term[1]}
<1>3. p \in xs \X {v.y0}
  BY <1>2 DEF Title
<1>4. p[1] \in xs /\ p = <<p[1], v.y0>>
  <2> HIDE DEF xs
  <2> QED BY <1>3
<1>5. p[1] \in Int /\ On(p[1], term[1])
  BY <1>1, <1>4 DEF On
<1> QED BY <1>1, <1>2, <1>4, <1>5, SizeOf

\* A subtitle is not.
Overhangs(v) ==
  /\ v.frame /\ v.subtitle > 0 /\ On(v.y0, term[2])
  /\ v.x1 - 5 - v.subtitle < 0 \/ v.x1 - 5 - v.subtitle + v.subtitle > term[1]

LEMMA SubtitleOnScreen ==
  ASSUME term \in Sizes, NEW v \in ViewSet, v.frame
  PROVE  Subtitle(v, term) \subseteq Points \/ Overhangs(v)
<1>1. v.x0 \in Int /\ v.y0 \in Int /\ v.x1 \in Int /\ v.subtitle \in Nat /\ term[1] \in Nat
  BY FieldsOf, SizeOf
<1> SUFFICES ASSUME NEW p \in Subtitle(v, term), p \notin Points PROVE Overhangs(v)
  OBVIOUS
<1> DEFINE start == v.x1 - 5 - v.subtitle
           xs == {x \in start .. start + v.subtitle - 1 : x < v.x1}
<1>2. On(v.y0, term[2]) /\ p \in xs \X {v.y0}
  BY DEF Subtitle
<1>3. p[1] \in xs /\ p = <<p[1], v.y0>>
  <2> HIDE DEF xs
  <2> QED BY <1>2
<1>4. p[1] \in start .. start + v.subtitle - 1 /\ p[1] \in Int /\ start \in Int
  BY <1>1, <1>3
<1>5. ~On(p[1], term[1])
  BY <1>1, <1>2, <1>3, <1>4, SizeOf
<1> HIDE DEF start
<1>6. v.subtitle > 0 /\ (start < 0 \/ start + v.subtitle > term[1])
  BY <1>1, <1>4, <1>5 DEF On
<1> QED BY <1>2, <1>6 DEF Overhangs, start

\* What frames leave: the cells of the text below, or a part of a frame.
Unread(cell) == cell.part \notin {"text", "blank"}

LEMMA DrawFrameOn ==
  ASSUME term \in Sizes, NEW v \in ViewSet, NEW n, NEW picture, DOMAIN picture = Points
  PROVE  LET framed == DrawFrame(picture, n, v, term)
         IN \/ /\ DOMAIN framed = Points
               /\ \A p \in Points : framed[p] = picture[p] \/ Unread(framed[p])
            \/ DOMAIN framed = {} /\ Overhangs(v)
<1> DEFINE part(p) == [of |-> n, part |-> p]
           edges == SetRunes(picture, Edges(v, term), part("edge"))
           corners == SetRunes(edges, Corners(v, term), part("corner"))
           title == SetRunes(corners, Title(v, term), part("title"))
           sub == SetRunes(title, Subtitle(v, term), part("subtitle"))
           Good(q) == DOMAIN q = Points /\ \A p \in Points : q[p] = picture[p] \/ Unread(q[p])
<1>1. DrawFrame(picture, n, v, term) = IF v.frame THEN sub ELSE picture
  BY DEF DrawFrame
<1>2. Unread(part("edge")) /\ Unread(part("corner")) /\ Unread(part("title")) /\ Unread(part("subtitle"))
  BY DEF Unread
<1>3. Good(picture)
  OBVIOUS
<1>4. ASSUME NEW q, Good(q), NEW points, points \subseteq Points, NEW cell, Unread(cell)
      PROVE  Good(SetRunes(q, points, cell))
  <2> DEFINE r == SetRunes(q, points, cell)
  <2>1. DOMAIN r = Points /\ \A p \in Points : r[p] = IF p \in points THEN cell ELSE q[p]
    BY <1>4, RunesSet
  <2> HIDE DEF r
  <2> QED BY <1>4, <2>1 DEF r
<1> HIDE DEF Good, part
<1>5. Good(edges)
  BY <1>2, <1>3, <1>4, FrameOnScreen
<1> HIDE DEF edges
<1>6. Good(corners)
  BY <1>2, <1>4, <1>5, FrameOnScreen
<1> HIDE DEF corners
<1>7. Good(title)
  BY <1>2, <1>4, <1>6, TitleOnScreen
<1> HIDE DEF title
<1>8. CASE v.frame /\ Subtitle(v, term) \subseteq Points
  BY <1>1, <1>2, <1>4, <1>7, <1>8 DEF Good
<1>9. CASE v.frame /\ ~(Subtitle(v, term) \subseteq Points)
  <2>1. Overhangs(v)
    BY <1>9, SubtitleOnScreen
  <2>2. DOMAIN title = Points
    BY <1>7 DEF Good
  <2>3. DOMAIN sub = {}
    BY <1>9, <2>2, RunesSet
  <2> QED BY <1>1, <1>9, <2>1, <2>3
<1>10. CASE ~v.frame
  BY <1>1, <1>3, <1>10 DEF Good
<1> QED BY <1>8, <1>9, <1>10

\* A cell that shows the text or the ground of view n at p, the rune that is
\* there if it is text that is not folded.
Column(v, p) == p[1] - v.x0 - 1 + v.ox
Row(v, p)    == p[2] - v.y0 - 1 + v.oy
InText(lines, x, y) == y \in 0 .. Len(lines) - 1 /\ x \in 0 .. Len(Line(lines, y)) - 1
Shows(cell, n, v, p) ==
  /\ cell.of = n /\ cell.part \in {"text", "blank"}
  /\ cell.part = "text" /\ Straight(v) =>
       InText(v.lines, Column(v, p), Row(v, p)) /\ cell.at = <<Column(v, p), Row(v, p)>>

\* Text shows inside its view ...
LEMMA TextInside ==
  ASSUME NEW v \in ViewSet, NEW p, p[1] \in Int, p[2] \in Int, TextAt(Put(v), v, p) # <<>>
  PROVE  Inside(v, p)
<1> DEFINE x == p[1] - v.x0 - 1 - v.pad
           y == p[2] - v.y0 - 1 - v.pad
<1>1. x \in 0 .. Width(v) - 1 /\ y \in 0 .. Height(v) - 1
  BY DEF TextAt
<1>2. PICK a \in Int, b \in Int, c \in Int, d \in Int, q \in Nat, k \in Int, l \in Int :
        a = v.x0 /\ b = v.y0 /\ c = v.x1 /\ d = v.y1 /\ q = v.pad /\ k = p[1] /\ l = p[2]
  BY FieldsOf
<1>3. /\ k - a - 1 - q \in 0 .. c - a - 1 - 2 * q - 1
      /\ l - b - 1 - q \in 0 .. d - b - 1 - 2 * q - 1
  BY <1>1, <1>2 DEF Width, Height
<1> HIDE DEF x, y
<1>4. k > a /\ k < c /\ l > b /\ l < d
  BY <1>3
<1> QED BY <1>2, <1>4 DEF Inside

\* ... and is what its rows and columns say.
LEMMA PutIs ==
  ASSUME NEW v \in ViewSet, Straight(v), NEW r \in DOMAIN Put(v)
  PROVE  /\ r[1] \in Nat /\ r[2] \in Nat /\ r = <<r[1], r[2]>> /\ InText(v.lines, r[1], r[2])
         /\ Put(v)[r].x = r[1] - v.ox /\ Put(v)[r].y = r[2] - v.oy
<1> DEFINE L == Len(v.lines)
<1>1. /\ r \in UNION {(0 .. Len(Line(v.lines, l)) - 1) \X {l} : l \in 0 .. L - 1}
      /\ BeginOf(v, r[1], r[2]) + v.ox <= r[1]
      /\ Put(v)[r] = PutAt(v, r[1], r[2])
  BY DEF Put
<1>2. PICK l \in 0 .. L - 1 : r \in (0 .. Len(Line(v.lines, l)) - 1) \X {l}
  BY <1>1
<1>3. r[2] = l /\ r[1] \in 0 .. Len(Line(v.lines, l)) - 1 /\ r = <<r[1], r[2]>>
  BY <1>2
<1>4. L \in Nat /\ Len(Line(v.lines, l)) \in Nat /\ v.ox \in Nat
  BY <1>2, LineOf, FieldsOf DEF Text
<1>5. r[1] \in Nat /\ r[2] \in Nat /\ r[1] < Len(Line(v.lines, l))
  BY <1>2, <1>3, <1>4
<1>6. BeginOf(v, r[1], r[2]) = 0
  BY <1>3, <1>5, StraightRow
<1>7. v.ox <= r[1]
  BY <1>1, <1>4, <1>5, <1>6
<1>8. PutAt(v, r[1], r[2]) = [x |-> r[1] - v.ox, y |-> r[2] - v.oy]
  BY <1>3, <1>5, <1>7, StraightPut
<1> QED BY <1>1, <1>2, <1>3, <1>5, <1>8 DEF InText

LEMMA TextIs ==
  ASSUME NEW v \in ViewSet, v.pad = 0, Straight(v), NEW p, p[1] \in Int, p[2] \in Int,
         TextAt(Put(v), v, p) # <<>>
  PROVE  /\ InText(v.lines, Column(v, p), Row(v, p))
         /\ TextAt(Put(v), v, p) = <<Column(v, p), Row(v, p)>>
<1> DEFINE at == [x |-> p[1] - v.x0 - 1 - v.pad, y |-> p[2] - v.y0 - 1 - v.pad]
           runes == {r \in DOMAIN Put(v) : Put(v)[r] = at}
           text == CHOOSE r \in runes : \A q \in runes : q[1] <= r[1]
<1>1. runes # {} /\ TextAt(Put(v), v, p) = text
  BY DEF TextAt
<1>2. v.x0 \in Int /\ v.y0 \in Int /\ v.ox \in Nat /\ v.oy \in Nat
  BY FieldsOf
<1>3. ASSUME NEW r \in runes
      PROVE  r = <<Column(v, p), Row(v, p)>> /\ r[1] \in Nat /\ InText(v.lines, Column(v, p), Row(v, p))
  <2>1. /\ r[1] \in Nat /\ r[2] \in Nat /\ r = <<r[1], r[2]>> /\ InText(v.lines, r[1], r[2])
        /\ Put(v)[r].x = r[1] - v.ox /\ Put(v)[r].y = r[2] - v.oy
    BY PutIs
  <2>2. r[1] - v.ox = p[1] - v.x0 - 1 - v.pad /\ r[2] - v.oy = p[2] - v.y0 - 1 - v.pad
    BY <2>1
  <2>3. r[1] = Column(v, p) /\ r[2] = Row(v, p)
    <3> HIDE DEF at, runes
    <3>4. r[1] \in Int /\ r[2] \in Int
      BY <2>1
    <3>5. PICK i \in Int, j \in Int, k \in Int, l \in Int : i = r[1] /\ j = r[2] /\ k = p[1] /\ l = p[2]
      BY <3>4
    <3>6. PICK a \in Int, b \in Int, c \in Int, d \in Int : a = v.x0 /\ b = v.y0 /\ c = v.ox /\ d = v.oy
      BY <1>2
    <3>1. /\ i = r[1] /\ j = r[2] /\ k = p[1] /\ l = p[2]
          /\ a = v.x0 /\ b = v.y0 /\ c = v.ox /\ d = v.oy
      BY <3>5, <3>6
    <3>2. i - c = k - a - 1 - 0 /\ j - d = l - b - 1 - 0
      BY <2>2, <3>1
    <3>3. i = k - a - 1 + c /\ j = l - b - 1 + d
      BY <3>2
    <3> QED BY <3>1, <3>3 DEF Column, Row
  <2> QED BY <2>1, <2>3
<1>4. PICK r \in runes : TRUE
  BY <1>1
<1> HIDE DEF runes
<1>5. \A q \in runes : q[1] <= r[1]
  <2>1. \A q \in runes : q = r /\ q[1] \in Nat
    BY <1>3
  <2> QED BY <2>1
<1>6. text \in runes
  BY <1>5
<1> HIDE DEF text
<1> QED BY <1>1, <1>3, <1>6

\* A view without padding is drawn where it is hit, and none elsewhere.
LEMMA TextOn ==
  ASSUME NEW v \in ViewSet, v.visible, NEW n, NEW picture,
         NEW p \in DOMAIN picture, p[1] \in Int, p[2] \in Int
  PROVE  /\ v.pad = 0 /\ Inside(v, p) => Shows(DrawText(picture, n, v)[p], n, v, p)
         /\ ~Inside(v, p) => DrawText(picture, n, v)[p] = picture[p]
<1> DEFINE text == TextAt(Put(v), v, p)
           cleared == p[1] \in v.x0 + 1 .. v.x0 + Width(v) /\ p[2] \in v.y0 + 1 .. v.y0 + Height(v)
           cell == DrawText(picture, n, v)[p]
<1>1. cell = IF text # <<>> THEN [of |-> n, part |-> "text", at |-> text]
             ELSE IF cleared THEN Blank(n) ELSE picture[p]
  BY DEF DrawText
<1>2. text # <<>> => Inside(v, p)
  BY TextInside
<1>3. (cleared => Inside(v, p)) /\ (v.pad = 0 /\ Inside(v, p) => cleared)
  <2>1. v.x0 \in Int /\ v.y0 \in Int /\ v.x1 \in Int /\ v.y1 \in Int
    BY FieldsOf
  <2>2. PICK w \in Int, h \in Int : w = Width(v) /\ h = Height(v)
    BY ViewSize
  <2>3. /\ w <= v.x1 - v.x0 - 1 /\ h <= v.y1 - v.y0 - 1
        /\ v.pad = 0 => w = v.x1 - v.x0 - 1 /\ h = v.y1 - v.y0 - 1
    BY <2>2, ViewSize
  <2> QED BY <2>1, <2>2, <2>3 DEF Inside
<1>4. v.pad = 0 /\ Straight(v) /\ text # <<>> =>
        InText(v.lines, Column(v, p), Row(v, p)) /\ text = <<Column(v, p), Row(v, p)>>
  BY TextIs
<1> HIDE DEF text, cleared, cell
<1>5. CASE text # <<>>
  <2>1. cell.of = n /\ cell.part = "text" /\ cell.at = text
    BY <1>1, <1>5
  <2> QED BY <1>2, <1>4, <1>5, <2>1 DEF Shows, cell
<1>6. CASE text = <<>>
  <2>1. cell = IF cleared THEN Blank(n) ELSE picture[p]
    BY <1>1, <1>6
  <2>2. cleared => cell.of = n /\ cell.part = "blank"
    BY <2>1 DEF Blank
  <2> QED BY <1>3, <2>1, <2>2 DEF Shows, cell
<1> QED BY <1>5, <1>6

\* Where linesPosOnScreen puts the cursor.
LEMMA CursorAtType ==
  ASSUME NEW v \in ViewSet, Width(v) > 0
  PROVE  CursorAt(v).x \in Int /\ CursorAt(v).y \in Int
<1>1. v.cx \in Nat /\ v.cy \in Nat /\ v.lines \in Seq(Seq(Cells)) /\ Len(v.lines) \in Nat
  BY FieldsOf DEF Text
<1>2. CASE ~v.wrap
  BY <1>1, <1>2 DEF CursorAt
<1>3. CASE v.wrap
  <2>1. Behind(v).x \in Int /\ Behind(v).y \in Int
    <3>1. CASE v.cy < Len(v.lines)
      <4> DEFINE line == Line(v.lines, v.cy)
                 end == Min({v.cx, Len(line)})
                 b == BeginOf(v, v.cx, v.cy)
                 s == SubSeq(line, b + 1, end)
                 y == RowOf(v, v.cx, v.cy)
      <4>1. v.cy \in 0 .. Len(v.lines) - 1
        BY <1>1, <3>1
      <4>2. line \in Seq(Cells) /\ Len(line) \in Nat
        BY <4>1, LineOf
      <4>3. b \in 0 .. Len(line) /\ b <= v.cx /\ y \in Int
        BY <1>1, <4>1, RowType
      <4>4. end = IF v.cx <= Len(line) THEN v.cx ELSE Len(line)
        <5>1. v.cx \in Int /\ Len(line) \in Int
          BY <1>1, <4>2
        <5> QED BY <5>1, TwoNumbers
      <4>5. Behind(v) = [x |-> LineWidth(s) + v.cx - end, y |-> y]
        BY <3>1 DEF Behind
      <4> HIDE DEF end, b, y, line
      <4>6. b \in Nat /\ end \in Nat /\ b <= end /\ end <= Len(line)
        BY <1>1, <4>2, <4>3, <4>4
      <4>7. s \in Seq(Cells)
        BY <4>2, <4>6, PartIs
      <4> HIDE DEF s
      <4>8. LineWidth(s) \in Int
        BY <4>7, WidthOf
      <4> QED BY <1>1, <4>3, <4>5, <4>6, <4>8
    <3>2. CASE ~(v.cy < Len(v.lines))
      <4>1. Behind(v) = [x |-> v.cx, y |-> Cardinality(ViewRows(v)) + v.cy - Len(v.lines)]
        BY <3>2 DEF Behind
      <4>2. Cardinality(ViewRows(v)) \in Nat
        BY ViewRowsType
      <4> QED BY <1>1, <4>1, <4>2
    <3> QED BY <3>1, <3>2
  <2>2. PICK x \in Int, y \in Int, w \in Int : x = Behind(v).x /\ y = Behind(v).y /\ w = Width(v) /\ w > 0
    BY <2>1, ViewSize
  <2>3. CursorAt(v) = [x |-> x % w, y |-> y + x \div w]
    BY <1>3, <2>2 DEF CursorAt
  <2>4. x % w \in Int /\ x \div w \in Int
    BY <2>2
  <2> QED BY <2>2, <2>3, <2>4
<1> QED BY <1>2, <1>3

\* The cursor of the terminal is put inside the focused view.
LEMMA CursorOf ==
  ASSUME NEW now \in {Hidden} \cup (Int \X Int), NEW objects,
         currentView # NoView => objects[currentView] \in ViewSet
  PROVE  /\ Cursor(now, objects) \in {Hidden} \cup (Int \X Int)
         /\ currentView # NoView =>
              Cursor(now, objects) = Hidden \/ Inside(objects[currentView], Cursor(now, objects))
<1>1. CASE ~CursorOn \/ currentView = NoView
  BY <1>1 DEF Cursor
<1>2. CASE CursorOn /\ currentView # NoView
  <2> DEFINE v == objects[currentView]
             c == Shown(v)
  <2>1. v \in ViewSet
    BY <1>2
  <2>2. Cursor(now, objects) = IF OnScreen(v) THEN c ELSE Hidden
    BY <1>2 DEF Cursor
  <2> HIDE DEF v
  <2>3. ASSUME OnScreen(v) PROVE c \in Int \X Int /\ Inside(v, c)
    <3>1. /\ v.x0 \in Int /\ v.y0 \in Int /\ v.x1 \in Int /\ v.y1 \in Int
          /\ v.ox \in Nat /\ v.oy \in Nat
      BY <2>1, FieldsOf
    <3>2. PICK w \in Int, h \in Int : /\ w = Width(v) /\ h = Height(v)
                                      /\ w <= v.x1 - v.x0 - 1 /\ h <= v.y1 - v.y0 - 1
      BY <2>1, ViewSize
    <3>3. PICK x \in Int, y \in Int : x = CursorAt(v).x /\ y = CursorAt(v).y
      BY <2>1, <2>3, CursorAtType DEF OnScreen
    <3>4. y >= v.oy /\ y < v.oy + h /\ x >= v.ox /\ x < v.ox + w
      BY <2>3, <3>2, <3>3 DEF OnScreen
    <3>5. c = <<v.x0 + 1 + x - v.ox, v.y0 + 1 + y - v.oy>>
      BY <3>3 DEF Shown
    <3> HIDE DEF c
    <3> QED BY <3>1, <3>2, <3>4, <3>5 DEF Inside
  <2> QED BY <2>2, <2>3 DEF v
<1> QED BY <1>1, <1>2

Start == [picture |-> Empty, cursor |-> cursor, view |-> view]
Recurs(n, f) == f = [k \in 0 .. n |-> IF k = 0 THEN Start ELSE DrawOne(f[k - 1], views[k])]

\* The recursion over the views is a function.
LEMMA RecursExists ==
  ASSUME NEW n \in Nat
  PROVE  \E f : Recurs(n, f)
<1> DEFINE T == {m \in Nat : ~\E f : Recurs(m, f)}
<1> SUFFICES ASSUME T # {} PROVE FALSE
  OBVIOUS
<1>1. PICK m \in T : \A k \in T : m <= k
  <2>1. T \subseteq Nat
    OBVIOUS
  <2> HIDE DEF T
  <2> QED BY <2>1, Least
<1>2. m \in Nat /\ ~\E f : Recurs(m, f)
  OBVIOUS
<1>3. CASE m = 0
  <2> DEFINE f == [k \in 0 .. m |-> Start]
  <2>1. f = [k \in 0 .. m |-> IF k = 0 THEN Start ELSE DrawOne(f[k - 1], views[k])]
    <3> HIDE DEF Start
    <3> QED BY <1>3
  <2> QED BY <1>2, <2>1 DEF Recurs
<1>4. CASE m # 0
  <2>1. m - 1 \in Nat /\ ~(m <= m - 1)
    BY <1>2, <1>4
  <2>2. m - 1 \notin T
    <3> HIDE DEF T
    <3> QED BY <1>1, <2>1
  <2>3. PICK g : Recurs(m - 1, g)
    BY <2>1, <2>2
  <2>4. \A k \in 0 .. m - 1 : g[k] = IF k = 0 THEN Start ELSE DrawOne(g[k - 1], views[k])
    BY <2>3 DEF Recurs
  <2> DEFINE f == [k \in 0 .. m |-> IF k = m THEN DrawOne(g[m - 1], views[m]) ELSE g[k]]
             h == [k \in 0 .. m |-> IF k = 0 THEN Start ELSE DrawOne(f[k - 1], views[k])]
  <2>5. ASSUME NEW k \in 0 .. m PROVE f[k] = IF k = 0 THEN Start ELSE DrawOne(f[k - 1], views[k])
    <3>1. CASE k = m
      <4>1. f[k] = DrawOne(g[m - 1], views[m])
        BY <3>1
      <4>2. m - 1 \in 0 .. m /\ m - 1 # m
        BY <1>2, <2>1
      <4>3. f[m - 1] = g[m - 1]
        BY <4>2
      <4> HIDE DEF f
      <4> QED BY <1>4, <3>1, <4>1, <4>3
    <3>2. CASE k # m
      <4>1. k \in 0 .. m - 1
        BY <1>2, <3>2
      <4>2. f[k] = g[k]
        BY <3>2
      <4>3. k # 0 => k - 1 \in 0 .. m /\ k - 1 # m
        BY <1>2, <4>1
      <4>4. k # 0 => f[k - 1] = g[k - 1]
        BY <4>3
      <4> HIDE DEF f
      <4> QED BY <2>4, <4>1, <4>2, <4>4
    <3> QED BY <3>1, <3>2
  <2>6. f = [k \in 0 .. m |-> f[k]]
    OBVIOUS
  <2> HIDE DEF f
  <2>7. f = h
    BY <2>5, <2>6
  <2> QED BY <1>2, <2>7 DEF Recurs
<1> QED BY <1>3, <1>4

\* What has become of the picture, the cursor and the views, round by round.
LEMMA RoundsAre ==
  ASSUME views \in Seq(Names)
  PROVE  /\ Rounds[0] = Start
         /\ \A k \in 1 .. Len(views) : Rounds[k] = DrawOne(Rounds[k - 1], views[k])
<1> DEFINE n == Len(views)
           g == CHOOSE f : f = [k \in 0 .. n |-> IF k = 0 THEN Start ELSE DrawOne(f[k - 1], views[k])]
<1>1. n \in Nat
  OBVIOUS
<1>2. Recurs(n, g)
  <2>1. \E f : Recurs(n, f)
    BY <1>1, RecursExists
  <2> QED BY <2>1 DEF Recurs
<1>3. Rounds = g
  BY DEF Rounds, Start
<1> HIDE DEF g, n
<1>4. \A k \in 0 .. n : g[k] = IF k = 0 THEN Start ELSE DrawOne(g[k - 1], views[k])
  BY <1>2 DEF Recurs
<1>5. 0 \in 0 .. n /\ \A k \in 1 .. n : k \in 0 .. n /\ k # 0
  BY <1>1
<1> QED BY <1>3, <1>4, <1>5 DEF n

\* What is so after the first k rounds.
Inked(cell) == cell.of # NoView /\ cell.part \in {"text", "blank"}
Top(k, i, p) == i \in 1 .. k /\ Inside(view[views[i]], p)
                /\ \A j \in 1 .. k : Inside(view[views[j]], p) => j <= i
PaintOK(k, picture) ==
  \A p \in Points : SeesWhatIsHit(p) /\ Inked(picture[p]) =>
    \E i \in 1 .. k : Top(k, i, p) /\ Shows(picture[p], views[i], Scrolled(view[views[i]]), p)
MovedOK(objects) ==
  /\ DOMAIN objects = DOMAIN view
  /\ \A n \in DOMAIN view : objects[n] = view[n] \/ objects[n] = Scrolled(view[n])
AllMoved(k, objects) == \A i \in 1 .. k : Drawn(views[i]) => objects[views[i]] = Scrolled(view[views[i]])
CursorOK(k, now) ==
  currentView # NoView /\ (\E i \in 1 .. k : Drawn(views[i])) =>
    now = Hidden \/ Inside(view[currentView], now)
Failing ==
  \/ \E i \in 1 .. Len(views) : Drawn(views[i]) /\ Overhangs(view[views[i]])
  \/ \E n \in DOMAIN view : TooNarrow(view[n])
RoundOK(k, at) ==
  /\ MovedOK(at.view)
  /\ at.cursor \in {Hidden} \cup (Int \X Int)
  /\ \/ /\ DOMAIN at.picture = Points
        /\ AllMoved(k, at.view) /\ CursorOK(k, at.cursor) /\ PaintOK(k, at.picture)
     \/ DOMAIN at.picture = {} /\ Failing

\* What View.draw does to a view does not matter to where it is, to its frame
\* and to its rows.
LEMMA MovedView ==
  ASSUME NEW v \in ViewSet, NEW o, o = v \/ o = Scrolled(v)
  PROVE  /\ o \in ViewSet /\ Scrolled(o) = Scrolled(v)
         /\ \A p : Inside(o, p) <=> Inside(v, p)
         /\ Overhangs(o) <=> Overhangs(v)
         /\ TooNarrow(o) <=> TooNarrow(v)
         /\ o.visible = v.visible /\ o.pad = v.pad /\ o.y0 = v.y0 /\ o.y1 = v.y1
         /\ o.x0 = v.x0 /\ o.x1 = v.x1
<1>1. o \in ViewSet /\ Scrolled(o) = Scrolled(v)
  BY ScrolledType
<1>2. PICK x \in Nat, y \in Nat : o = Moved(v, x, y)
  <2>1. v = Moved(v, v.ox, v.oy) /\ v.ox \in Nat /\ v.oy \in Nat
    BY SamePlace, FieldsOf
  <2> QED BY <2>1, ScrolledType
<1>3. /\ o.x0 = v.x0 /\ o.y0 = v.y0 /\ o.x1 = v.x1 /\ o.y1 = v.y1
      /\ o.visible = v.visible /\ o.pad = v.pad /\ o.frame = v.frame
      /\ o.subtitle = v.subtitle /\ o.lines = v.lines /\ o.wrap = v.wrap
  BY <1>2, SamePlace
<1>4. TooNarrow(o) <=> TooNarrow(v)
  BY <1>3, SameRows
<1> QED BY <1>1, <1>3, <1>4 DEF Inside, Overhangs

\* The views and what they are.
Typed == TypeOK /\ \A n \in DOMAIN view : view[n] \in ViewSet

\* A view of the list is a view.
LEMMA ListedView ==
  ASSUME Typed, NEW k \in DOMAIN views
  PROVE  /\ views[k] \in Names /\ views[k] \in DOMAIN view /\ view[views[k]] \in ViewSet
         /\ views[k] \in Range(views) /\ views[k] # NoView
<1>1. views \in Seq(Names) /\ Range(views) \subseteq DOMAIN view
  BY DEF Typed, TypeOK
<1>2. views[k] \in Names /\ views[k] \in Range(views)
  BY <1>1 DEF Range
<1> QED BY <1>1, <1>2, ScreenAssumption DEF Typed

LEMMA RoundStart ==
  ASSUME Typed
  PROVE  RoundOK(0, Start)
<1>1. cursor \in {Hidden} \cup (Int \X Int)
  BY DEF Typed, TypeOK
<1>2. Start.view = view /\ Start.cursor = cursor /\ Start.picture = Empty
  BY DEF Start
<1>3. DOMAIN Empty = Points /\ \A p \in Points : ~Inked(Empty[p])
  BY DEF Empty, Points, Inked, Blank
<1>4. ~\E i \in 1 .. 0 : TRUE
  OBVIOUS
<1>5. AllMoved(0, view) /\ CursorOK(0, cursor) /\ PaintOK(0, Empty) /\ MovedOK(view)
  BY <1>3, <1>4 DEF AllMoved, CursorOK, PaintOK, MovedOK
<1> QED BY <1>1, <1>2, <1>3, <1>5 DEF RoundOK

\* A view that is drawn over others leaves their cells, where it is not.
LEMMA PaintNext ==
  ASSUME Typed, NEW k \in 1 .. Len(views), NEW picture, PaintOK(k - 1, picture),
         NEW framed, DOMAIN framed = Points, view[views[k]].visible,
         \A p \in Points : framed[p] = picture[p] \/ Unread(framed[p])
  PROVE  PaintOK(k, DrawText(framed, views[k], Scrolled(view[views[k]])))
<1> DEFINE n == views[k]
           v == Scrolled(view[n])
           drawn == DrawText(framed, n, v)
<1> SUFFICES ASSUME NEW p \in Points, SeesWhatIsHit(p), Inked(drawn[p])
             PROVE  \E i \in 1 .. k : Top(k, i, p) /\ Shows(drawn[p], views[i], Scrolled(view[views[i]]), p)
  BY DEF PaintOK
<1>1. Len(views) \in Nat /\ k \in DOMAIN views /\ k \in Nat /\ k <= Len(views) /\ 1 <= k
  BY DEF Typed, TypeOK
<1>2. n \in Names /\ n # NoView /\ view[n] \in ViewSet /\ n \in Range(views)
  BY <1>1, ListedView
<1>3. /\ v \in ViewSet /\ \A q : Inside(v, q) <=> Inside(view[n], q)
      /\ v.visible = view[n].visible /\ v.pad = view[n].pad
  <2> HIDE DEF n
  <2> QED BY <1>2, MovedView
<1>4. p[1] \in Int /\ p[2] \in Int
  <2>1. term[1] \in Nat /\ term[2] \in Nat
    BY SizeOf DEF Typed, TypeOK
  <2>2. p[1] \in 0 .. term[1] - 1 /\ p[2] \in 0 .. term[2] - 1
    BY PairIs DEF Points
  <2> QED BY <2>1, <2>2
<1> HIDE DEF n, v
<1>5. /\ Inside(v, p) => Shows(drawn[p], n, v, p)
      /\ ~Inside(v, p) => drawn[p] = framed[p]
  <2>1. Inside(v, p) => v.pad = 0
    BY <1>2, <1>3 DEF SeesWhatIsHit
  <2>2. v.visible /\ v \in ViewSet /\ p \in DOMAIN framed
    BY <1>3 DEF n
  <2> QED BY <1>4, <2>1, <2>2, TextOn
<1> HIDE DEF drawn
<1>6. CASE Inside(v, p)
  <2>1. Top(k, k, p)
    BY <1>1, <1>3, <1>6 DEF Top, n
  <2> QED BY <1>1, <1>5, <1>6, <2>1 DEF n, v
<1>7. CASE ~Inside(v, p)
  <2>1. drawn[p] = picture[p] /\ Inked(picture[p])
    BY <1>5, <1>7 DEF Inked, Unread
  <2>2. PICK i \in 1 .. k - 1 : Top(k - 1, i, p) /\ Shows(picture[p], views[i], Scrolled(view[views[i]]), p)
    BY <2>1 DEF PaintOK
  <2>3. ~Inside(view[views[k]], p)
    BY <1>3, <1>7 DEF n
  <2>4. i \in 1 .. k /\ \A j \in 1 .. k : j = k \/ j \in 1 .. k - 1
    BY <1>1
  <2>5. Top(k, i, p)
    BY <2>2, <2>3, <2>4 DEF Top
  <2> QED BY <2>1, <2>2, <2>4, <2>5
<1> QED BY <1>6, <1>7

\* A view that is not drawn has no inside, unless it is not visible.
LEMMA PaintSame ==
  ASSUME Typed, NEW k \in 1 .. Len(views), NEW picture, PaintOK(k - 1, picture), ~Drawn(views[k])
  PROVE  PaintOK(k, picture)
<1> SUFFICES ASSUME NEW p \in Points, SeesWhatIsHit(p), Inked(picture[p])
             PROVE  \E i \in 1 .. k : Top(k, i, p) /\ Shows(picture[p], views[i], Scrolled(view[views[i]]), p)
  BY DEF PaintOK
<1>1. Len(views) \in Nat /\ k \in DOMAIN views /\ k \in Nat /\ k <= Len(views) /\ 1 <= k
  BY DEF Typed, TypeOK
<1>2. view[views[k]] \in ViewSet /\ views[k] \in Range(views)
  BY <1>1, ListedView
<1>3. PICK i \in 1 .. k - 1 : Top(k - 1, i, p) /\ Shows(picture[p], views[i], Scrolled(view[views[i]]), p)
  BY DEF PaintOK
<1>4. p[2] \in Int
  <2>1. term[1] \in Nat /\ term[2] \in Nat
    BY SizeOf DEF Typed, TypeOK
  <2>2. p[2] \in 0 .. term[2] - 1
    BY PairIs DEF Points
  <2> QED BY <2>1, <2>2
<1>5. view[views[k]].y0 \in Int /\ view[views[k]].y1 \in Int
  BY <1>2, FieldsOf
<1>6. ~Inside(view[views[k]], p)
  <2> SUFFICES ASSUME Inside(view[views[k]], p) PROVE FALSE
    OBVIOUS
  <2>1. view[views[k]].visible
    BY <1>2 DEF SeesWhatIsHit
  <2>2. view[views[k]].y1 < view[views[k]].y0
    BY <1>5, <2>1 DEF Drawn
  <2> QED BY <1>4, <1>5, <2>2 DEF Inside
<1>7. i \in 1 .. k /\ \A j \in 1 .. k : j = k \/ j \in 1 .. k - 1
  BY <1>1
<1>8. Top(k, i, p)
  BY <1>3, <1>6, <1>7 DEF Top
<1> QED BY <1>3, <1>7, <1>8

\* A round that does not end has a view that is too narrow.
LEMMA StuckView ==
  ASSUME Typed, NEW n \in DOMAIN view, NEW objects, MovedOK(objects), Stuck(objects, n)
  PROVE  \E m \in DOMAIN view : TooNarrow(view[m])
<1>1. ASSUME NEW m \in DOMAIN view, CursorStuck(objects[m]) \/ TextStuck(objects[m])
      PROVE  TooNarrow(view[m])
  <2>1. view[m] \in ViewSet
    BY DEF Typed
  <2>2. PICK o : o = objects[m]
    OBVIOUS
  <2>3. o = view[m] \/ o = Scrolled(view[m])
    BY <2>2 DEF MovedOK
  <2>4. o \in ViewSet /\ (TooNarrow(o) <=> TooNarrow(view[m]))
    BY <2>1, <2>3, MovedView
  <2> QED BY <1>1, <2>2, <2>4, StuckIsNarrow
<1>2. CASE currentView # NoView /\ CursorStuck(objects[currentView])
  <2>1. currentView \in DOMAIN view
    BY <1>2 DEF Typed, TypeOK
  <2> QED BY <1>1, <1>2, <2>1
<1>3. CASE TextStuck(objects[n])
  BY <1>1, <1>3
<1> QED BY <1>2, <1>3 DEF Stuck

\* One round.
LEMMA RoundNext ==
  ASSUME Typed, NEW k \in 1 .. Len(views), NEW at, RoundOK(k - 1, at)
  PROVE  RoundOK(k, DrawOne(at, views[k]))
<1> DEFINE n == views[k]
           o == at.view[n]
           framed == DrawFrame(at.picture, n, o, term)
           v == Scrolled(o)
           objects == [at.view EXCEPT ![n] = v]
           text == DrawText(framed, n, v)
           now == Cursor(at.cursor, at.view)
           new == [picture |-> text, cursor |-> now, view |-> objects]
           none == [picture |-> [p \in {} |-> Blank(n)], cursor |-> at.cursor, view |-> at.view]
<1>1. /\ Len(views) \in Nat /\ k \in DOMAIN views /\ k \in Nat /\ k <= Len(views) /\ 1 <= k
      /\ term \in Sizes
  BY DEF Typed, TypeOK
<1>2. n \in Names /\ n # NoView /\ n \in DOMAIN view /\ view[n] \in ViewSet
  BY <1>1, ListedView
<1>3. MovedOK(at.view) /\ at.cursor \in {Hidden} \cup (Int \X Int)
  BY DEF RoundOK
<1>4. DrawOne(at, n) = IF ~Drawn(n) \/ DOMAIN at.picture = {} THEN at
                       ELSE IF DOMAIN framed = {} \/ Stuck(at.view, n) THEN none ELSE new
  BY DEF DrawOne
<1>5. o = view[n] \/ o = Scrolled(view[n])
  BY <1>2, <1>3 DEF MovedOK
<1>6. o \in ViewSet /\ v = Scrolled(view[n]) /\ (Overhangs(o) <=> Overhangs(view[n]))
  <2> HIDE DEF o, n
  <2> QED BY <1>2, <1>5, MovedView
<1>7. Points # {}
  BY <1>1, SizeOf
<1>8. \A j \in 1 .. k : j = k \/ j \in 1 .. k - 1
  BY <1>1
<1> HIDE DEF n, o, framed, v, objects, text, now
<1>13. DOMAIN none.picture = {} /\ none.cursor = at.cursor /\ none.view = at.view
  OBVIOUS
<1> HIDE DEF none
<1>9. CASE DOMAIN at.picture = {}
  <2>1. DrawOne(at, n) = at
    BY <1>4, <1>9
  <2>2. Failing
    BY <1>7, <1>9 DEF RoundOK
  <2> QED BY <1>3, <1>9, <2>1, <2>2 DEF RoundOK, n
<1>10. CASE DOMAIN at.picture = Points /\ ~Drawn(n)
  <2>1. DrawOne(at, n) = at
    BY <1>4, <1>10
  <2>2. AllMoved(k - 1, at.view) /\ CursorOK(k - 1, at.cursor) /\ PaintOK(k - 1, at.picture)
    BY <1>7, <1>10 DEF RoundOK
  <2>3. AllMoved(k, at.view)
    BY <1>8, <1>10, <2>2 DEF AllMoved, n
  <2>4. CursorOK(k, at.cursor)
    BY <1>8, <1>10, <2>2 DEF CursorOK, n
  <2>5. PaintOK(k, at.picture)
    BY <1>10, <2>2, PaintSame DEF n
  <2> QED BY <1>3, <1>10, <2>1, <2>3, <2>4, <2>5 DEF RoundOK, n
<1>11. CASE DOMAIN at.picture = Points /\ Drawn(n)
  <2>1. AllMoved(k - 1, at.view) /\ CursorOK(k - 1, at.cursor) /\ PaintOK(k - 1, at.picture)
    BY <1>7, <1>11 DEF RoundOK
  <2>2. \/ /\ DOMAIN framed = Points
           /\ \A p \in Points : framed[p] = at.picture[p] \/ Unread(framed[p])
        \/ DOMAIN framed = {} /\ Overhangs(o)
    BY <1>1, <1>6, <1>11, DrawFrameOn DEF framed
  <2>3. CASE DOMAIN framed = {} /\ Overhangs(o)
    <3>1. DrawOne(at, n) = none
      BY <1>4, <1>7, <1>11, <2>3
    <3>2. Failing
      BY <1>6, <1>11, <2>3 DEF n, Failing
    <3> QED BY <1>3, <1>13, <3>1, <3>2 DEF RoundOK, n
  <2>5. CASE Stuck(at.view, n)
    <3>1. DrawOne(at, n) = none
      BY <1>4, <1>7, <1>11, <2>5
    <3>2. Failing
      BY <1>2, <1>3, <2>5, StuckView DEF Failing
    <3> QED BY <1>3, <1>13, <3>1, <3>2 DEF RoundOK, n
  <2>4. CASE ~Stuck(at.view, n) /\ DOMAIN framed = Points /\ \A p \in Points : framed[p] = at.picture[p] \/ Unread(framed[p])
    <3>1. DrawOne(at, n) = new
      BY <1>4, <1>7, <1>11, <2>4
    <3>2. DOMAIN text = Points
      BY <2>4 DEF text, DrawText
    <3>3. PaintOK(k, text)
      BY <1>6, <1>11, <2>1, <2>4, PaintNext DEF n, text, Drawn
    <3>4. DOMAIN objects = DOMAIN view /\ objects[n] = v /\ \A m \in DOMAIN view : m # n => objects[m] = at.view[m]
      BY <1>2, <1>3 DEF objects, MovedOK
    <3>5. MovedOK(objects)
      BY <1>3, <1>6, <3>4 DEF MovedOK
    <3>6. AllMoved(k, objects)
      <4> SUFFICES ASSUME NEW i \in 1 .. k, Drawn(views[i])
                   PROVE  objects[views[i]] = Scrolled(view[views[i]])
        BY DEF AllMoved
      <4>1. CASE views[i] = n
        BY <1>6, <3>4, <4>1
      <4>2. CASE views[i] # n
        <5>1. i \in 1 .. k - 1 /\ i \in DOMAIN views
          BY <1>1, <1>8, <4>2 DEF n
        <5>2. views[i] \in DOMAIN view
          BY <5>1, ListedView
        <5> QED BY <2>1, <3>4, <4>2, <5>1, <5>2 DEF AllMoved
      <4> QED BY <4>1, <4>2
    <3>7. /\ now \in {Hidden} \cup (Int \X Int)
          /\ currentView # NoView => now = Hidden \/ Inside(view[currentView], now)
      <4>1. ASSUME currentView # NoView
            PROVE  at.view[currentView] \in ViewSet /\ \A p : Inside(at.view[currentView], p) <=> Inside(view[currentView], p)
        <5>1. currentView \in DOMAIN view
          BY <4>1 DEF Typed, TypeOK
        <5>2. view[currentView] \in ViewSet
          BY <5>1 DEF Typed
        <5>3. at.view[currentView] = view[currentView] \/ at.view[currentView] = Scrolled(view[currentView])
          BY <1>3, <5>1 DEF MovedOK
        <5> QED BY <5>2, <5>3, MovedView
      <4> DEFINE c == at.cursor
                 objs == at.view
      <4>2. c \in {Hidden} \cup (Int \X Int) /\ (currentView # NoView => objs[currentView] \in ViewSet)
        BY <1>3, <4>1
      <4> HIDE DEF c, objs
      <4>3. /\ Cursor(c, objs) \in {Hidden} \cup (Int \X Int)
            /\ currentView # NoView => Cursor(c, objs) = Hidden \/ Inside(objs[currentView], Cursor(c, objs))
        BY <4>2, CursorOf
      <4> QED BY <4>1, <4>3 DEF now, c, objs
    <3>8. CursorOK(k, now)
      BY <3>7 DEF CursorOK
    <3>9. new.picture = text /\ new.cursor = now /\ new.view = objects
      OBVIOUS
    <3> HIDE DEF new
    <3> QED BY <3>1, <3>2, <3>3, <3>5, <3>6, <3>7, <3>8, <3>9 DEF RoundOK, n
  <2> QED BY <2>2, <2>3, <2>4, <2>5
<1>12. DOMAIN at.picture = Points \/ DOMAIN at.picture = {}
  BY DEF RoundOK
<1> QED BY <1>9, <1>10, <1>11, <1>12 DEF n

\* All rounds.
LEMMA AllRounds ==
  ASSUME Typed
  PROVE  RoundOK(Len(views), Rounds[Len(views)])
<1> DEFINE n == Len(views)
           T == {k \in 0 .. n : ~RoundOK(k, Rounds[k])}
<1>1. n \in Nat /\ views \in Seq(Names)
  BY DEF Typed, TypeOK
<1>2. T = {}
  <2> SUFFICES ASSUME T # {} PROVE FALSE
    OBVIOUS
  <2>1. PICK k \in T : \A j \in T : k <= j
    <3>1. T \subseteq Nat
      BY <1>1
    <3> HIDE DEF T
    <3> QED BY <3>1, Least
  <2>2. k \in 0 .. n /\ ~RoundOK(k, Rounds[k])
    OBVIOUS
  <2>3. k # 0
    BY <1>1, <2>2, RoundStart, RoundsAre
  <2>4. k \in 1 .. n /\ k - 1 \in 0 .. n /\ ~(k <= k - 1)
    BY <1>1, <2>2, <2>3
  <2>5. RoundOK(k - 1, Rounds[k - 1])
    BY <2>1, <2>4
  <2>6. Rounds[k] = DrawOne(Rounds[k - 1], views[k])
    BY <1>1, <2>4, RoundsAre
  <2> QED BY <2>2, <2>4, <2>5, <2>6, RoundNext
<1> HIDE DEF n
<1> QED BY <1>1, <1>2 DEF n

-----------------------------------------------------------------------------
(* The steps.                                                              *)

\* The list without a view.
LEMMA WithoutIs ==
  ASSUME Typed, NEW n, Listed(n)
  PROVE  /\ n \in Names /\ n \in DOMAIN view /\ view[n] \in ViewSet
         /\ Without(n) \in Seq(Names)
         /\ Range(Without(n)) \subseteq Range(views)
         /\ Range(views) \subseteq Range(Without(n)) \cup {n}
<1> DEFINE k == CHOOSE i \in DOMAIN views : views[i] = n
           w == Dropped(views, k)
<1>1. views \in Seq(Names) /\ Len(views) \in Nat /\ DOMAIN views = 1 .. Len(views)
  BY DEF Typed, TypeOK
<1>2. k \in DOMAIN views /\ views[k] = n
  <2>1. \E i \in DOMAIN views : views[i] = n
    BY DEF Listed, Range
  <2> QED BY <2>1
<1>3. Without(n) = w
  BY DEF Without, Dropped
<1> HIDE DEF k
<1>4. /\ w \in Seq(Names) /\ Len(w) = Len(views) - 1
      /\ \A j \in 1 .. Len(views) - 1 : w[j] = IF j < k THEN views[j] ELSE views[j + 1]
  BY <1>1, <1>2, DroppedPlaces
<1> HIDE DEF w
<1>5. DOMAIN w = 1 .. Len(views) - 1
  BY <1>1, <1>4
<1>6. ASSUME NEW j \in DOMAIN w PROVE w[j] \in Range(views)
  <2>1. j \in DOMAIN views /\ j + 1 \in DOMAIN views
    BY <1>1, <1>5
  <2> QED BY <1>4, <1>5, <2>1 DEF Range
<1>7. ASSUME NEW i \in DOMAIN views PROVE views[i] \in Range(w) \/ views[i] = n
  <2>1. CASE i < k
    <3>1. i \in DOMAIN w
      BY <1>1, <1>2, <1>5, <2>1
    <3> QED BY <1>4, <1>5, <2>1, <3>1 DEF Range
  <2>2. CASE i = k
    BY <1>2, <2>2
  <2>3. CASE i > k
    <3>1. i - 1 \in DOMAIN w /\ ~(i - 1 < k) /\ (i - 1) + 1 = i
      BY <1>1, <1>2, <1>5, <2>3
    <3>2. w[i - 1] = views[i]
      BY <1>4, <1>5, <3>1
    <3> QED BY <3>1, <3>2 DEF Range
  <2> QED BY <1>1, <1>2, <2>1, <2>2, <2>3
<1>8. n \in Names /\ n \in DOMAIN view /\ view[n] \in ViewSet
  BY <1>2, ListedView
<1> QED BY <1>3, <1>4, <1>6, <1>7, <1>8 DEF Range

\* What a change of the views has to keep.
LEMMA ChangeTyped ==
  ASSUME Typed, Changed, views' \in Seq(Names), currentView' \in Range(views') \cup {NoView, Gone},
         DOMAIN view' = Range(views') \cup ({currentView'} \ {NoView}),
         \A n \in DOMAIN view' : view'[n] \in ViewSet /\ view'[n].x0 < view'[n].x1
  PROVE  Typed'
<1>1. /\ term' = term /\ cursor' = cursor /\ shown' = Stale /\ failed' = failed
      /\ term \in Sizes /\ cursor \in {Hidden} \cup (Int \X Int)
  BY DEF Changed, Typed, TypeOK
<1>2. \A n \in DOMAIN view' :
        /\ DOMAIN view'[n] = Fields
        /\ view'[n].cx \in Nat /\ view'[n].cy \in Nat /\ view'[n].ox \in Nat /\ view'[n].oy \in Nat
  BY FieldsOf
<1> QED BY <1>1, <1>2 DEF Typed, TypeOK

\* A view of a state.
LEMMA ViewOf ==
  ASSUME Typed, NEW n \in DOMAIN view
  PROVE  view[n] \in ViewSet /\ view[n].x0 < view[n].x1
BY DEF Typed, TypeOK

LEMMA SetViewTyped ==
  ASSUME Typed, NEW n \in Names, NEW r \in Rects(n), SetView(n, r)
  PROVE  Typed'
<1>1. r[1] < r[3] /\ Changed /\ currentView' = currentView
  BY DEF SetView
<1>2. r[1] \in Int /\ r[2] \in Int /\ r[3] \in Int /\ r[4] \in Int
  BY ScreenAssumption
<1>3. /\ views \in Seq(Names) /\ currentView \in Range(views) \cup {NoView, Gone}
      /\ DOMAIN view = Range(views) \cup ({currentView} \ {NoView})
  BY DEF Typed, TypeOK
<1>4. CASE Listed(n) /\ view' = [view EXCEPT ![n] = Place(view[n], r)] /\ UNCHANGED views
  <2>1. n \in DOMAIN view /\ view[n] \in ViewSet
    BY <1>4, WithoutIs
  <2>2. Place(view[n], r) \in ViewSet /\ Place(view[n], r).x0 < Place(view[n], r).x1
    BY <1>1, <1>2, <2>1, PlaceType
  <2>3. /\ DOMAIN view' = DOMAIN view
        /\ \A m \in DOMAIN view : view'[m] = IF m = n THEN Place(view[n], r) ELSE view[m]
    BY <1>4, <2>1
  <2>4. \A m \in DOMAIN view' : view'[m] \in ViewSet /\ view'[m].x0 < view'[m].x1
    BY <2>2, <2>3, ViewOf
  <2>5. views' = views
    BY <1>4
  <2> QED BY <1>1, <1>3, <2>3, <2>4, <2>5, ChangeTyped
<1>5. CASE /\ ~Listed(n) /\ views' = Append(views, n)
           /\ \E look \in Looks(n) :
                view' = [m \in DOMAIN view \cup {n} |->
                           IF m = n THEN ViewWith(look, r, <<0, 0>>, <<0, 0>>) ELSE view[m]]
  <2>1. PICK look \in Looks(n) :
          view' = [m \in DOMAIN view \cup {n} |->
                     IF m = n THEN ViewWith(look, r, <<0, 0>>, <<0, 0>>) ELSE view[m]]
    BY <1>5
  <2> DEFINE at == <<0, 0>>
             v == ViewWith(look, r, at, at)
  <2>2. v \in ViewSet /\ v.x0 < v.x1
    <3>1. at[1] \in Nat /\ at[2] \in Nat
      OBVIOUS
    <3> HIDE DEF at
    <3> QED BY <1>1, <1>2, <3>1, ViewWithType
  <2>6. view' = [m \in DOMAIN view \cup {n} |-> IF m = n THEN v ELSE view[m]]
    BY <2>1
  <2> HIDE DEF v
  <2>3. \A m \in DOMAIN view' : view'[m] \in ViewSet /\ view'[m].x0 < view'[m].x1
    BY <2>2, <2>6, ViewOf
  <2>4. views' \in Seq(Names) /\ Range(views') = Range(views) \cup {n}
    BY <1>3, <1>5, AppendPlaces DEF Range
  <2>5. DOMAIN view' = Range(views') \cup ({currentView'} \ {NoView})
    BY <1>1, <1>3, <2>4, <2>6
  <2> QED BY <1>1, <1>3, <2>3, <2>4, <2>5, ChangeTyped
<1> QED BY <1>4, <1>5 DEF SetView

\* The stacking moves a view, the others stay in their order.
LEMMA StackTyped ==
  ASSUME Typed, NEW n \in Names, SetViewOnTop(n) \/ SetViewOnBottom(n)
  PROVE  Typed'
<1>1. Listed(n) /\ Changed /\ currentView' = currentView /\ view' = view
  BY DEF SetViewOnTop, SetViewOnBottom
<1>2. /\ views \in Seq(Names) /\ currentView \in Range(views) \cup {NoView, Gone}
      /\ DOMAIN view = Range(views) \cup ({currentView} \ {NoView}) /\ n \in Range(views)
  BY <1>1 DEF Typed, TypeOK, Listed
<1> DEFINE w == Without(n)
<1>3. w \in Seq(Names) /\ Range(w) \subseteq Range(views) /\ Range(views) \subseteq Range(w) \cup {n}
  BY <1>1, WithoutIs
<1>4. CASE SetViewOnTop(n)
  <2>1. views' = Append(w, n)
    BY <1>4 DEF SetViewOnTop
  <2> HIDE DEF w
  <2>2. views' \in Seq(Names) /\ Range(views') = Range(w) \cup {n}
    BY <1>3, <2>1, AppendPlaces DEF Range
  <2>3. Range(views') = Range(views)
    BY <1>2, <1>3, <2>2
  <2> QED BY <1>1, <1>2, <2>2, <2>3, ViewOf, ChangeTyped
<1>5. CASE SetViewOnBottom(n)
  <2> DEFINE s == <<n>>
             l == Len(w)
  <2>1. views' = s \o w
    BY <1>5 DEF SetViewOnBottom
  <2>2. s \in Seq(Names) /\ Len(s) = 1 /\ s[1] = n
    OBVIOUS
  <2> HIDE DEF w, s
  <2>3. l \in Nat /\ DOMAIN w = 1 .. l
    BY <1>3
  <2> HIDE DEF l
  <2>4. Concatenated(Names, s, w, 1, l)
    BY <1>3, <2>2, ConcatType DEF l
  <2>5. /\ views' \in Seq(Names) /\ Len(views') = 1 + l /\ views'[1] = n
        /\ \A i \in 2 .. 1 + l : views'[i] = w[i - 1]
    <3>1. /\ views' \in Seq(Names) /\ Len(views') = 1 + l
          /\ \A i \in 1 .. 1 : views'[i] = s[i]
          /\ \A i \in 1 + 1 .. 1 + l : views'[i] = w[i - 1]
      BY <2>1, <2>4 DEF Concatenated
    <3>2. 1 \in 1 .. 1 /\ 1 + 1 = 2
      OBVIOUS
    <3> QED BY <2>2, <3>1, <3>2
  <2>6. DOMAIN views' = 1 .. 1 + l
    BY <2>3, <2>5
  <2>7. Range(views') = Range(w) \cup {n}
    <3>1. ASSUME NEW i \in 1 .. 1 + l PROVE views'[i] \in Range(w) \cup {n}
      <4>1. i = 1 \/ (i \in 2 .. 1 + l /\ i - 1 \in 1 .. l)
        BY <2>3
      <4> QED BY <2>3, <2>5, <4>1 DEF Range
    <3>2. ASSUME NEW j \in 1 .. l PROVE w[j] \in Range(views')
      <4>1. j + 1 \in 2 .. 1 + l /\ j + 1 \in 1 .. 1 + l /\ (j + 1) - 1 = j
        BY <2>3
      <4>2. views'[j + 1] = w[j]
        BY <2>5, <4>1
      <4> QED BY <2>6, <4>1, <4>2 DEF Range
    <3>3. n \in Range(views')
      <4>1. 1 \in 1 .. 1 + l
        BY <2>3
      <4> QED BY <2>5, <2>6, <4>1 DEF Range
    <3>4. \A x \in Range(views') : x \in Range(w) \cup {n}
      BY <2>6, <3>1 DEF Range
    <3>5. \A x \in Range(w) : x \in Range(views')
      BY <2>3, <3>2 DEF Range
    <3> QED BY <3>3, <3>4, <3>5
  <2>8. Range(views') = Range(views)
    BY <1>2, <1>3, <2>7
  <2> QED BY <1>1, <1>2, <2>5, <2>8, ViewOf, ChangeTyped
<1> QED BY <1>4, <1>5

\* The focus keeps a view.
LEMMA FocusTyped ==
  ASSUME Typed, NEW n \in Names, DeleteView(n) \/ SetCurrentView(n)
  PROVE  Typed'
<1>1. Listed(n) /\ Changed
  BY DEF DeleteView, SetCurrentView
<1>2. /\ views \in Seq(Names) /\ currentView \in Range(views) \cup {NoView, Gone}
      /\ DOMAIN view = Range(views) \cup ({currentView} \ {NoView}) /\ n \in Range(views)
  BY <1>1 DEF Typed, TypeOK, Listed
<1>3. CASE DeleteView(n)
  <2>1. /\ Without(n) \in Seq(Names) /\ Range(Without(n)) \subseteq Range(views)
        /\ Range(views) \subseteq Range(Without(n)) \cup {n}
    BY <1>1, WithoutIs
  <2>2. /\ views' = Without(n) /\ currentView' = IF currentView = n THEN Gone ELSE currentView
        /\ view' = [m \in Range(views') \cup ({currentView'} \ {NoView}) |->
                      IF m = Gone /\ currentView = n THEN view[n] ELSE view[m]]
    BY <1>3 DEF DeleteView
  <2>3. currentView' \in Range(views') \cup {NoView, Gone}
    BY <1>2, <2>1, <2>2
  <2>4. DOMAIN view' = Range(views') \cup ({currentView'} \ {NoView})
    BY <2>2
  <2>5. ASSUME NEW m \in DOMAIN view' PROVE view'[m] \in ViewSet /\ view'[m].x0 < view'[m].x1
    <3>1. CASE m = Gone /\ currentView = n
      <4>1. view'[m] = view[n] /\ n \in DOMAIN view
        BY <1>2, <2>2, <3>1
      <4> QED BY <4>1, ViewOf
    <3>2. CASE ~(m = Gone /\ currentView = n)
      <4>1. view'[m] = view[m] /\ m \in Range(views') \cup ({currentView'} \ {NoView})
        BY <2>2, <3>2
      <4>2. m \in DOMAIN view
        BY <1>2, <2>1, <2>2, <3>2, <4>1
      <4> QED BY <4>1, <4>2, ViewOf
    <3> QED BY <3>1, <3>2
  <2> QED BY <1>1, <2>1, <2>2, <2>3, <2>4, <2>5, ChangeTyped
<1>4. CASE SetCurrentView(n)
  <2>1. n # NoView
    BY ScreenAssumption
  <2>2. /\ views' = views /\ currentView' = n
        /\ view' = [m \in Range(views) \cup {n} |-> view[m]]
    BY <1>4 DEF SetCurrentView, Restrict
  <2>3. \A m \in DOMAIN view' : m \in DOMAIN view /\ view'[m] = view[m]
    BY <1>2, <2>2
  <2>4. /\ DOMAIN view' = Range(views') \cup ({currentView'} \ {NoView})
        /\ currentView' \in Range(views')
    BY <1>2, <2>1, <2>2
  <2> QED BY <1>1, <1>2, <2>2, <2>3, <2>4, ViewOf, ChangeTyped
<1> QED BY <1>3, <1>4

\* What changes one view and not where it lies.
LEMMA OneChanged ==
  ASSUME Typed, Changed, UNCHANGED <<views, currentView>>,
         NEW n \in Names, Listed(n), NEW v \in ViewSet, v.x0 = view[n].x0, v.x1 = view[n].x1,
         view' = [view EXCEPT ![n] = v]
  PROVE  Typed'
<1>1. n \in DOMAIN view /\ view[n].x0 < view[n].x1
  BY WithoutIs, ViewOf
<1>2. /\ views \in Seq(Names) /\ currentView \in Range(views) \cup {NoView, Gone}
      /\ DOMAIN view = Range(views) \cup ({currentView} \ {NoView})
  BY DEF Typed, TypeOK
<1>3. /\ DOMAIN view' = DOMAIN view
      /\ \A m \in DOMAIN view : view'[m] = IF m = n THEN v ELSE view[m]
  BY <1>1
<1>4. \A m \in DOMAIN view' : view'[m] \in ViewSet /\ view'[m].x0 < view'[m].x1
  BY <1>1, <1>3, ViewOf
<1> QED BY <1>2, <1>3, <1>4, ChangeTyped

\* SetLook, SetOrigin and SetCursorUnrestricted do, SetManager drops all views.
LEMMA LookTyped ==
  ASSUME Typed, NEW n \in Names, NEW look \in Looks(n), SetLook(n, look)
  PROVE  Typed'
<1> DEFINE v == view[n]
           r == <<v.x0, v.y0, v.x1, v.y1>>
           c == <<v.cx, v.cy>>
           o == <<v.ox, v.oy>>
           w == ViewWith(look, r, c, o)
<1>1. Listed(n) /\ Changed /\ UNCHANGED <<views, currentView>>
  BY DEF SetLook
<1>2. view' = [view EXCEPT ![n] = w]
  BY DEF SetLook
<1>3. v \in ViewSet
  BY <1>1, WithoutIs
<1>4. /\ r[1] = v.x0 /\ r[2] = v.y0 /\ r[3] = v.x1 /\ r[4] = v.y1
      /\ c[1] = v.cx /\ c[2] = v.cy /\ o[1] = v.ox /\ o[2] = v.oy
  OBVIOUS
<1> HIDE DEF v, r, c, o
<1>5. w \in ViewSet /\ w.x0 = v.x0 /\ w.x1 = v.x1
  BY <1>3, <1>4, FieldsOf, ViewWithType
<1> HIDE DEF w
<1> QED BY <1>1, <1>2, <1>5, OneChanged DEF v

LEMMA PositionTyped ==
  ASSUME Typed, NEW n \in Names, NEW p \in Positions(n), SetOrigin(n, p) \/ SetCursorUnrestricted(n, p)
  PROVE  Typed'
<1> DEFINE v == view[n]
           moved == [v EXCEPT !.ox = p[1], !.oy = p[2]]
           put == [v EXCEPT !.cx = p[1], !.cy = p[2]]
<1>1. Listed(n) /\ Changed /\ UNCHANGED <<views, currentView>>
  BY DEF SetOrigin, SetCursorUnrestricted
<1>2. v \in ViewSet /\ n \in DOMAIN view
  BY <1>1, WithoutIs
<1>3. view' = [view EXCEPT ![n] = moved] \/ view' = [view EXCEPT ![n] = put]
  BY <1>2 DEF SetOrigin, SetCursorUnrestricted
<1>4. p[1] \in Nat /\ p[2] \in Nat
  BY ScreenAssumption
<1> HIDE DEF v
<1>5. /\ moved \in ViewSet /\ moved.x0 = v.x0 /\ moved.x1 = v.x1
      /\ put \in ViewSet /\ put.x0 = v.x0 /\ put.x1 = v.x1
  BY <1>2, <1>4 DEF ViewSet
<1> HIDE DEF moved, put
<1> QED BY <1>1, <1>3, <1>5, OneChanged DEF v

LEMMA ManagerTyped ==
  ASSUME Typed, SetManager
  PROVE  Typed'
<1>1. Changed /\ views' = <<>> /\ currentView' = NoView /\ DOMAIN view' = {}
  BY DEF SetManager
<1>2. Range(views') = {} /\ views' \in Seq(Names)
  BY <1>1 DEF Range
<1> QED BY <1>1, <1>2, ChangeTyped

\* What the screen shows is no more what the views are.
LEMMA StaleStep ==
  ASSUME shown' = Stale, ~failed'
  PROVE  ClickReachesSeen' /\ FlushFailsWhenNarrow' /\ CursorInFocus'
BY DEF ClickReachesSeen, FlushFailsWhenNarrow, CursorInFocus

-----------------------------------------------------------------------------
(* A mouse event.                                                          *)

\* SetCursor takes a place in the text as it is, and another one to the
\* nearest, whatever the cursor was.
At(v, c, d) == [v EXCEPT !.cx = c, !.cy = d]
Nearest(lines, x, y) ==
  IF lines = <<>> THEN <<0, 0>>
  ELSE <<Min({x, Len(Line(lines, Min({y, Len(lines) - 1})))}), Min({y, Len(lines) - 1})>>

LEMMA NearestIs ==
  ASSUME NEW lines \in Text, NEW x \in Nat, NEW y \in Nat
  PROVE  /\ Nearest(lines, x, y)[1] \in Nat /\ Nearest(lines, x, y)[2] \in Nat
         /\ InText(lines, x, y) => Nearest(lines, x, y) = <<x, y>>
<1> DEFINE l == Min({y, Len(lines) - 1})
           n == Len(Line(lines, l))
<1>1. lines \in Seq(Seq(Cells)) /\ Len(lines) \in Nat
  BY DEF Text
<1>2. CASE lines = <<>>
  <2>1. Nearest(lines, x, y) = <<0, 0>>
    BY <1>2 DEF Nearest
  <2>2. ~(y \in 0 .. Len(lines) - 1)
    BY <1>2
  <2> QED BY <2>1, <2>2 DEF InText
<1>3. CASE lines # <<>>
  <2>1. Len(lines) > 0
    BY <1>1, <1>3
  <2>2. l = IF y <= Len(lines) - 1 THEN y ELSE Len(lines) - 1
    <3>1. y \in Int /\ Len(lines) - 1 \in Int
      BY <1>1
    <3> QED BY <3>1, TwoNumbers
  <2>3. Nearest(lines, x, y) = <<Min({x, n}), l>>
    BY <1>3 DEF Nearest
  <2> HIDE DEF l, n
  <2>4. l \in Nat /\ l < Len(lines) /\ (y \in 0 .. Len(lines) - 1 => l = y)
    BY <1>1, <2>1, <2>2
  <2>5. n \in Nat
    <3>1. Line(lines, l) \in Seq(Cells)
      BY <1>1, <2>4 DEF Line
    <3> QED BY <3>1 DEF n
  <2>6. Min({x, n}) = IF x <= n THEN x ELSE n
    <3>1. x \in Int /\ n \in Int
      BY <2>5
    <3> QED BY <3>1, TwoNumbers
  <2>7. Min({x, n}) \in Nat
    BY <2>5, <2>6
  <2>8. ASSUME InText(lines, x, y) PROVE Min({x, n}) = x /\ l = y
    <3>1. l = y /\ x \in 0 .. n - 1
      BY <2>4, <2>8 DEF InText, n
    <3> QED BY <2>5, <2>6, <3>1
  <2> QED BY <2>3, <2>4, <2>7, <2>8
<1> QED BY <1>2, <1>3

LEMMA WithCursorIs ==
  ASSUME NEW v \in ViewSet, NEW x \in Nat, NEW y \in Nat
  PROVE  /\ Nearest(v.lines, x, y)[1] \in Nat /\ Nearest(v.lines, x, y)[2] \in Nat
         /\ WithCursor(v, x, y) = At(v, Nearest(v.lines, x, y)[1], Nearest(v.lines, x, y)[2])
<1>1. v.lines \in Text
  BY FieldsOf
<1>2. Nearest(v.lines, x, y)[1] \in Nat /\ Nearest(v.lines, x, y)[2] \in Nat
  BY <1>1, NearestIs
<1>3. WithCursor(v, x, y) = At(v, Nearest(v.lines, x, y)[1], Nearest(v.lines, x, y)[2])
  <2>1. CASE v.lines = <<>>
    <3>1. Nearest(v.lines, x, y)[1] = 0 /\ Nearest(v.lines, x, y)[2] = 0
      BY <2>1 DEF Nearest
    <3> QED BY <2>1, <3>1 DEF WithCursor, At
  <2>2. CASE v.lines # <<>>
    <3> DEFINE l == Min({y, Len(v.lines) - 1})
    <3>1. Nearest(v.lines, x, y)[1] = Min({x, Len(Line(v.lines, l))}) /\ Nearest(v.lines, x, y)[2] = l
      BY <2>2 DEF Nearest
    <3>2. WithCursor(v, x, y) = At(v, Min({x, Len(Line(v.lines, l))}), l)
      BY <2>2 DEF WithCursor, At
    <3> HIDE DEF l
    <3> QED BY <3>1, <3>2
  <2> QED BY <2>1, <2>2
<1> QED BY <1>2, <1>3

\* A view with another cursor.
LEMMA AtType ==
  ASSUME NEW v \in ViewSet, NEW c \in Nat, NEW d \in Nat
  PROVE  /\ At(v, c, d) \in ViewSet /\ At(v, c, d).cx = c /\ At(v, c, d).cy = d
         /\ At(v, c, d).x0 = v.x0 /\ At(v, c, d).y0 = v.y0
         /\ At(v, c, d).x1 = v.x1 /\ At(v, c, d).y1 = v.y1
         /\ At(v, c, d).ox = v.ox /\ At(v, c, d).oy = v.oy
         /\ At(v, c, d).visible = v.visible /\ At(v, c, d).frame = v.frame
         /\ At(v, c, d).pad = v.pad /\ At(v, c, d).lines = v.lines
         /\ At(v, c, d).wrap = v.wrap
BY DEF ViewSet, At

\* What is hit of a view.
LEMMA HitIs ==
  ASSUME NEW v \in ViewSet, NEW p, p[1] \in Int, p[2] \in Int, Inside(v, p)
  PROVE  Column(v, p) \in Nat /\ Row(v, p) \in Nat
<1>1. v.x0 \in Int /\ v.y0 \in Int /\ v.ox \in Nat /\ v.oy \in Nat
  BY FieldsOf
<1> QED BY <1>1 DEF Inside, Column, Row

LEMMA AfterHitIs ==
  ASSUME NEW n, view[n] \in ViewSet, NEW p, p[1] \in Int, p[2] \in Int, Inside(view[n], p)
  PROVE  LET v == view[n]
             at == Nearest(v.lines, Column(v, p), Row(v, p))
         IN at[1] \in Nat /\ at[2] \in Nat /\ AfterHit(n, p) = At(v, at[1], at[2])
<1> DEFINE v == view[n]
<1>1. AfterHit(n, p) = WithCursor(v, Column(v, p), Row(v, p))
  BY DEF AfterHit, Column, Row
<1>2. v \in ViewSet
  OBVIOUS
<1> HIDE DEF v
<1>3. Column(v, p) \in Nat /\ Row(v, p) \in Nat
  BY <1>2, HitIs DEF v
<1> QED BY <1>1, <1>2, <1>3, WithCursorIs DEF v

\* The view that is hit is the last of those that have the point inside.
LEMMA HitLast ==
  ASSUME Typed, NEW p
  PROVE  /\ ViewByPosition(p) # NoView =>
              \E i \in DOMAIN views : ViewByPosition(p) = views[i] /\ Inside(view[views[i]], p)
         /\ \A i \in DOMAIN views :
              Inside(view[views[i]], p) /\ (\A j \in DOMAIN views : Inside(view[views[j]], p) => j <= i)
              => ViewByPosition(p) = views[i]
<1> DEFINE is == {i \in DOMAIN views : Inside(view[views[i]], p)}
<1>1. ViewByPosition(p) = IF is = {} THEN NoView ELSE views[Max(is)]
  BY DEF ViewByPosition
<1>2. Len(views) \in Nat /\ DOMAIN views = 1 .. Len(views)
  BY DEF Typed, TypeOK
<1>3. ASSUME is # {} PROVE Max(is) \in is /\ \A j \in is : j <= Max(is)
  <2>1. is \subseteq 0 .. Len(views)
    BY <1>2
  <2> HIDE DEF is
  <2> QED BY <1>2, <1>3, <2>1, Extremes
<1>4. ASSUME NEW i \in DOMAIN views, Inside(view[views[i]], p),
             \A j \in DOMAIN views : Inside(view[views[j]], p) => j <= i
      PROVE  is # {} /\ Max(is) = i
  <2>1. i \in is /\ \A j \in is : j <= i /\ j \in DOMAIN views
    BY <1>4
  <2>2. Max(is) \in is /\ i <= Max(is)
    BY <1>3, <2>1
  <2> HIDE DEF is
  <2>3. Max(is) <= i /\ Max(is) \in DOMAIN views
    BY <2>1, <2>2
  <2> QED BY <1>2, <2>1, <2>2, <2>3
<1> QED BY <1>1, <1>3, <1>4

\* What a cell says is hit: the cursor goes to the rune that it shows, where
\* columns and rows are runes and lines.
Reaches == \A p \in Int \X Int, i \in DOMAIN views : \A cell :
  /\ Inside(view[views[i]], p)
  /\ \A j \in DOMAIN views : Inside(view[views[j]], p) => j <= i
  /\ Shows(cell, views[i], view[views[i]], p)
  => /\ ViewByPosition(p) = cell.of
     /\ cell.part = "text" /\ Straight(view[cell.of]) =>
          <<AfterHit(cell.of, p).cx, AfterHit(cell.of, p).cy>> = cell.at

LEMMA ShownIsReached ==
  ASSUME Typed
  PROVE  Reaches
<1> SUFFICES ASSUME NEW p \in Int \X Int, NEW i \in DOMAIN views, NEW cell,
                    Inside(view[views[i]], p),
                    \A j \in DOMAIN views : Inside(view[views[j]], p) => j <= i,
                    Shows(cell, views[i], view[views[i]], p)
             PROVE  /\ ViewByPosition(p) = cell.of
                    /\ cell.part = "text" /\ Straight(view[cell.of]) =>
                         <<AfterHit(cell.of, p).cx, AfterHit(cell.of, p).cy>> = cell.at
  BY DEF Reaches
<1> DEFINE n == views[i]
           v == view[n]
           x == Column(v, p)
           y == Row(v, p)
           at == Nearest(v.lines, x, y)
<1>1. cell.of = n /\ v \in ViewSet /\ Inside(v, p)
  BY ListedView DEF Shows
<1>2. ViewByPosition(p) = n
  BY HitLast
<1>3. p[1] \in Int /\ p[2] \in Int
  BY PairIs
<1>4. at[1] \in Nat /\ at[2] \in Nat /\ AfterHit(n, p) = At(v, at[1], at[2])
  <2> HIDE DEF n
  <2> QED BY <1>1, <1>3, AfterHitIs
<1>5. AfterHit(n, p).cx = at[1] /\ AfterHit(n, p).cy = at[2]
  <2>1. PICK c \in Nat, d \in Nat : c = at[1] /\ d = at[2] /\ AfterHit(n, p) = At(v, c, d)
    BY <1>4
  <2>2. At(v, c, d).cx = c /\ At(v, c, d).cy = d
    <3> HIDE DEF v
    <3> QED BY <1>1, AtType
  <2> HIDE DEF v, at
  <2> QED BY <2>1, <2>2
<1>6. ASSUME cell.part = "text", Straight(v) PROVE <<at[1], at[2]>> = cell.at
  <2>1. InText(v.lines, x, y) /\ cell.at = <<x, y>>
    BY <1>6 DEF Shows
  <2>2. x \in Nat /\ y \in Nat /\ v.lines \in Text
    BY <1>1, <1>3, HitIs, FieldsOf
  <2> HIDE DEF v, x, y
  <2>3. at = <<x, y>>
    BY <2>1, <2>2, NearestIs
  <2> HIDE DEF at
  <2> QED BY <2>1, <2>3
<1> QED BY <1>1, <1>2, <1>5, <1>6

\* It moves the cursor of one view, to a place in its text.
LEMMA MouseMoves ==
  ASSUME Typed, NEW p \in Int \X Int, Mouse(p)
  PROVE  \E n \in DOMAIN view, c \in Nat, d \in Nat : view' = [view EXCEPT ![n] = At(view[n], c, d)]
<1> DEFINE n == ViewByPosition(p)
<1>1. n # NoView /\ view' = [view EXCEPT ![n] = AfterHit(n, p)]
  BY DEF Mouse
<1>2. PICK i \in DOMAIN views : n = views[i] /\ Inside(view[views[i]], p)
  BY <1>1, HitLast
<1>3. n \in DOMAIN view /\ view[n] \in ViewSet /\ Inside(view[n], p)
  BY <1>2, ListedView
<1>4. p[1] \in Int /\ p[2] \in Int
  BY PairIs
<1> HIDE DEF n
<1> DEFINE at == Nearest(view[n].lines, Column(view[n], p), Row(view[n], p))
<1>5. at[1] \in Nat /\ at[2] \in Nat /\ AfterHit(n, p) = At(view[n], at[1], at[2])
  BY <1>3, <1>4, AfterHitIs
<1> HIDE DEF at
<1> QED BY <1>1, <1>3, <1>5

\* All the rest of the views is as before, and so are the hits.
LEMMA MouseKeeps ==
  ASSUME Typed, NEW p \in Int \X Int, Mouse(p)
  PROVE  /\ DOMAIN view' = DOMAIN view
         /\ \A n \in DOMAIN view :
              /\ view'[n] \in ViewSet
              /\ view'[n].x0 = view[n].x0 /\ view'[n].x1 = view[n].x1
              /\ view'[n].y0 = view[n].y0 /\ view'[n].y1 = view[n].y1
              /\ view'[n].ox = view[n].ox /\ view'[n].oy = view[n].oy
              /\ view'[n].visible = view[n].visible /\ view'[n].pad = view[n].pad
              /\ view'[n].lines = view[n].lines /\ view'[n].wrap = view[n].wrap
<1>1. PICK n \in DOMAIN view, c \in Nat, d \in Nat : view' = [view EXCEPT ![n] = At(view[n], c, d)]
  BY MouseMoves
<1> DEFINE v == At(view[n], c, d)
<1>2. view[n] \in ViewSet
  BY ViewOf
<1>3. /\ v \in ViewSet
      /\ v.x0 = view[n].x0 /\ v.x1 = view[n].x1 /\ v.y0 = view[n].y0 /\ v.y1 = view[n].y1
      /\ v.ox = view[n].ox /\ v.oy = view[n].oy
      /\ v.visible = view[n].visible /\ v.pad = view[n].pad /\ v.lines = view[n].lines
      /\ v.wrap = view[n].wrap
  BY <1>2, AtType
<1> HIDE DEF v
<1>4. /\ DOMAIN view' = DOMAIN view
      /\ \A m \in DOMAIN view : view'[m] = IF m = n THEN v ELSE view[m]
  BY <1>1 DEF v
<1> QED BY <1>3, <1>4, ViewOf

\* Views in which the cursor is put at the same place.
LEMMA SameCursor ==
  ASSUME NEW v \in ViewSet, NEW w \in ViewSet, NEW c \in Nat, NEW d \in Nat
  PROVE  At(v, c, d).cx = At(w, c, d).cx /\ At(v, c, d).cy = At(w, c, d).cy
<1>1. At(v, c, d).cx = c /\ At(v, c, d).cy = d
  BY AtType
<1>2. At(w, c, d).cx = c /\ At(w, c, d).cy = d
  BY AtType
<1> QED BY <1>1, <1>2

\* The cursor that a hit sets depends on where the view is and on its text.
LEMMA SameHit ==
  ASSUME NEW v \in ViewSet, NEW w \in ViewSet, NEW p, p[1] \in Int, p[2] \in Int, Inside(v, p),
         v.x0 = w.x0, v.y0 = w.y0, v.x1 = w.x1, v.y1 = w.y1, v.ox = w.ox, v.oy = w.oy, v.lines = w.lines
  PROVE  LET a == WithCursor(v, p[1] - v.x0 - 1 + v.ox, p[2] - v.y0 - 1 + v.oy)
             b == WithCursor(w, p[1] - w.x0 - 1 + w.ox, p[2] - w.y0 - 1 + w.oy)
         IN a.cx = b.cx /\ a.cy = b.cy
<1>1. /\ p[1] - v.x0 - 1 + v.ox = Column(v, p) /\ p[2] - v.y0 - 1 + v.oy = Row(v, p)
      /\ p[1] - w.x0 - 1 + w.ox = Column(v, p) /\ p[2] - w.y0 - 1 + w.oy = Row(v, p)
  BY DEF Column, Row
<1>2. PICK x \in Nat, y \in Nat : x = Column(v, p) /\ y = Row(v, p)
  BY HitIs
<1>3. PICK c \in Nat, d \in Nat : c = Nearest(v.lines, x, y)[1] /\ d = Nearest(v.lines, x, y)[2]
  BY WithCursorIs
<1>4. WithCursor(v, x, y) = At(v, c, d) /\ WithCursor(w, x, y) = At(w, c, d)
  BY <1>3, WithCursorIs
<1> QED BY <1>1, <1>2, <1>4, SameCursor

\* ClickReachesSeen, cell by cell.
SeenAt(cell, p) ==
  /\ ViewByPosition(p) = cell.of
  /\ cell.part = "text" /\ Straight(view[cell.of]) =>
       <<AfterHit(cell.of, p).cx, AfterHit(cell.of, p).cy>> = cell.at
Seen ==
  shown # Stale =>
    \A p \in DOMAIN shown :
      \E cell : cell = shown[p] /\ (Inked(cell) /\ SeesWhatIsHit(p) => SeenAt(cell, p))

LEMMA SeenIs ==
  ClickReachesSeen <=> Seen
BY DEF ClickReachesSeen, Seen, SeenAt, Inked

LEMMA SeenNext ==
  (ClickReachesSeen <=> Seen)'
<1>1. ClickReachesSeen <=> Seen
  BY SeenIs
<1> QED BY <1>1, PTL

\* A mouse event changes neither what is seen nor what it would hit.
LEMMA MouseInv ==
  ASSUME ScreenInv, NEW p \in Int \X Int, Mouse(p)
  PROVE  ScreenInv'
<1>1. Typed /\ ClickReachesSeen /\ CursorInFocus
  BY DEF ScreenInv, Typed
<1>2. UNCHANGED <<term, views, currentView, cursor, shown, failed>> /\ ~failed
  BY DEF Mouse
<1>3. /\ DOMAIN view' = DOMAIN view
      /\ \A n \in DOMAIN view :
              /\ view'[n] \in ViewSet
              /\ view'[n].x0 = view[n].x0 /\ view'[n].x1 = view[n].x1
              /\ view'[n].y0 = view[n].y0 /\ view'[n].y1 = view[n].y1
              /\ view'[n].ox = view[n].ox /\ view'[n].oy = view[n].oy
              /\ view'[n].visible = view[n].visible /\ view'[n].pad = view[n].pad
              /\ view'[n].lines = view[n].lines /\ view'[n].wrap = view[n].wrap
  BY <1>1, MouseKeeps
<1>4. Range(views) \subseteq DOMAIN view /\ (currentView # NoView => currentView \in DOMAIN view)
  BY <1>1 DEF Typed, TypeOK
<1>5. \A n \in DOMAIN view : view'[n] \in ViewSet /\ view'[n].x0 < view'[n].x1
  BY <1>1, <1>3, ViewOf
<1>6. TypeOK' /\ \A n \in DOMAIN view' : view'[n] \in ViewSet
  <2>1. \A n \in DOMAIN view' :
          /\ DOMAIN view'[n] = Fields
          /\ view'[n].cx \in Nat /\ view'[n].cy \in Nat /\ view'[n].ox \in Nat /\ view'[n].oy \in Nat
    BY <1>3, FieldsOf
  <2>2. /\ term \in Sizes /\ views \in Seq(Names)
        /\ DOMAIN view = Range(views) \cup ({currentView} \ {NoView})
        /\ currentView \in Range(views) \cup {NoView, Gone} /\ cursor \in {Hidden} \cup (Int \X Int)
        /\ shown # Stale => DOMAIN shown = (0 .. term[1] - 1) \X (0 .. term[2] - 1)
    BY <1>1 DEF Typed, TypeOK
  <2> QED BY <1>2, <1>3, <1>5, <2>1, <2>2 DEF TypeOK
<1>7. \A n \in DOMAIN view : \A q : Inside(view'[n], q) <=> Inside(view[n], q)
  BY <1>3 DEF Inside
<1>8. \A i \in DOMAIN views : views[i] \in DOMAIN view
  BY <1>1, ListedView
<1>9. ASSUME NEW q PROVE ViewByPosition(q)' = ViewByPosition(q)
  <2> DEFINE is == {i \in DOMAIN views : Inside(view[views[i]], q)}
  <2>1. {i \in DOMAIN views : Inside(view'[views[i]], q)} = is
    BY <1>7, <1>8
  <2>2. ViewByPosition(q)' = IF is = {} THEN NoView ELSE views[Max(is)]
    BY <1>2, <2>1 DEF ViewByPosition
  <2> QED BY <2>2 DEF ViewByPosition
<1>10. ASSUME NEW q \in Int \X Int, ViewByPosition(q) # NoView, NEW n, n = ViewByPosition(q)
       PROVE  AfterHit(n, q)'.cx = AfterHit(n, q).cx /\ AfterHit(n, q)'.cy = AfterHit(n, q).cy
  <2>1. PICK i \in DOMAIN views : n = views[i] /\ Inside(view[views[i]], q)
    BY <1>1, <1>10, HitLast
  <2>2. n \in DOMAIN view /\ view[n] \in ViewSet /\ Inside(view[n], q)
    BY <1>1, <2>1, ListedView
  <2>3. q[1] \in Int /\ q[2] \in Int
    BY PairIs
  <2>4. PICK v \in ViewSet, w \in ViewSet : v = view[n] /\ w = view'[n]
    BY <1>3, <2>2
  <2>5. /\ v.x0 = w.x0 /\ v.y0 = w.y0 /\ v.x1 = w.x1 /\ v.y1 = w.y1
        /\ v.ox = w.ox /\ v.oy = w.oy /\ v.lines = w.lines /\ Inside(v, q)
    BY <1>3, <2>2, <2>4
  <2>6. /\ AfterHit(n, q) = WithCursor(v, q[1] - v.x0 - 1 + v.ox, q[2] - v.y0 - 1 + v.oy)
        /\ AfterHit(n, q)' = WithCursor(w, q[1] - w.x0 - 1 + w.ox, q[2] - w.y0 - 1 + w.oy)
    BY <2>4 DEF AfterHit
  <2> QED BY <2>3, <2>5, <2>6, SameHit
<1>14. \A n \in DOMAIN view : /\ Straight(view'[n]) <=> Straight(view[n])
                              /\ TooNarrow(view'[n]) <=> TooNarrow(view[n])
  BY <1>3, SameRows
<1>11. ClickReachesSeen'
  <2> SUFFICES ASSUME shown' # Stale, NEW q \in DOMAIN shown', SeesWhatIsHit(q)',
                      NEW cell, cell = shown'[q], Inked(cell)
               PROVE  SeenAt(cell, q)'
    BY SeenNext DEF Seen
  <2>1. shown' = shown
    BY <1>2
  <2>2. SeesWhatIsHit(q)
    BY <1>2, <1>3, <1>4, <1>7 DEF SeesWhatIsHit
  <2>3. SeenAt(cell, q)
    BY <1>1, <2>1, <2>2, SeenIs DEF Seen
  <2>4. q \in Int \X Int
    <3>1. DOMAIN shown = Points /\ term \in Sizes
      BY <1>1, <2>1 DEF Typed, TypeOK, Points
    <3>2. term[1] \in Nat /\ term[2] \in Nat
      BY <3>1, SizeOf
    <3> QED BY <2>1, <3>1, <3>2 DEF Points
  <2>5. PICK n : n = cell.of
    OBVIOUS
  <2>6. n # NoView /\ n = ViewByPosition(q)
    BY <2>3, <2>5 DEF SeenAt, Inked
  <2>7. AfterHit(n, q)'.cx = AfterHit(n, q).cx /\ AfterHit(n, q)'.cy = AfterHit(n, q).cy
    BY <1>10, <2>4, <2>6
  <2>8. ViewByPosition(q)' = n
    BY <1>9, <2>6
  <2>9. n \in DOMAIN view
    BY <1>1, <1>8, <2>6, HitLast
  <2>10. Straight(view'[n]) <=> Straight(view[n])
    BY <1>14, <2>9
  <2> QED BY <2>3, <2>5, <2>7, <2>8, <2>10 DEF SeenAt
<1>12. FlushFailsWhenNarrow'
  BY <1>2 DEF FlushFailsWhenNarrow
<1>13. CursorInFocus'
  BY <1>1, <1>2, <1>3, <1>4, <1>7 DEF CursorInFocus, Drawn
<1> QED BY <1>6, <1>11, <1>12, <1>13 DEF ScreenInv

-----------------------------------------------------------------------------
(* flush.                                                                  *)

LEMMA ReachedNext ==
  (Typed => Reaches)'
<1>1. Typed => Reaches
  BY ShownIsReached
<1> QED BY <1>1, PTL

\* What the screen shows after flush is what the views are.
LEMMA FlushInv ==
  ASSUME ScreenInv, Flush
  PROVE  ScreenInv'
<1> DEFINE n == Len(views)
<1>1. Typed /\ ~failed /\ UNCHANGED <<term, views, currentView>>
  BY DEF ScreenInv, Typed, Flush
<1>2. PICK at : /\ RoundOK(n, at) /\ view' = at.view /\ cursor' = at.cursor
                /\ failed' = (DOMAIN at.picture = {})
                /\ shown' = IF failed' THEN Stale ELSE at.picture
  BY <1>1, AllRounds DEF Flush
<1>3. n \in Nat /\ DOMAIN views = 1 .. n
  BY <1>1 DEF Typed, TypeOK
<1>4. /\ views \in Seq(Names) /\ term \in Sizes /\ currentView \in Range(views) \cup {NoView, Gone}
      /\ DOMAIN view = Range(views) \cup ({currentView} \ {NoView})
  BY <1>1 DEF Typed, TypeOK
<1> HIDE DEF n
<1>5. /\ DOMAIN view' = DOMAIN view
      /\ \A m \in DOMAIN view : view'[m] = view[m] \/ view'[m] = Scrolled(view[m])
  BY <1>2 DEF RoundOK, MovedOK
<1>6. ASSUME NEW m \in DOMAIN view
      PROVE  /\ view'[m] \in ViewSet
             /\ \A p : Inside(view'[m], p) <=> Inside(view[m], p)
             /\ Overhangs(view'[m]) <=> Overhangs(view[m])
             /\ TooNarrow(view'[m]) <=> TooNarrow(view[m])
             /\ view'[m].visible = view[m].visible /\ view'[m].pad = view[m].pad
             /\ view'[m].y0 = view[m].y0 /\ view'[m].y1 = view[m].y1
             /\ view'[m].x0 < view'[m].x1
  <2>1. view[m] \in ViewSet /\ view[m].x0 < view[m].x1
    BY <1>1, ViewOf
  <2>2. PICK o : o = view'[m]
    OBVIOUS
  <2>3. o = view[m] \/ o = Scrolled(view[m])
    BY <1>5, <2>2
  <2>4. /\ o \in ViewSet /\ \A p : Inside(o, p) <=> Inside(view[m], p)
        /\ Overhangs(o) <=> Overhangs(view[m])
        /\ TooNarrow(o) <=> TooNarrow(view[m])
        /\ o.visible = view[m].visible /\ o.pad = view[m].pad
        /\ o.y0 = view[m].y0 /\ o.y1 = view[m].y1 /\ o.x0 = view[m].x0 /\ o.x1 = view[m].x1
    BY <2>1, <2>3, MovedView
  <2> QED BY <2>1, <2>2, <2>4
<1>7. \A i \in DOMAIN views : views[i] \in DOMAIN view /\ views[i] \in Range(views)
  BY <1>1, ListedView
<1>8. CASE failed'
  <2>1. shown' = Stale /\ DOMAIN at.picture = {}
    BY <1>2, <1>8
  <2>2. Points # {}
    BY <1>4, SizeOf
  <2>3. Failing
    BY <1>2, <2>1, <2>2 DEF RoundOK
  <2>4. ASSUME \E m \in DOMAIN view : TooNarrow(view[m]) PROVE FlushFailsWhenNarrow'
    <3>1. PICK m \in DOMAIN view' : TooNarrow(view'[m])
      BY <1>5, <1>6, <2>4
    <3>2. \E k \in DOMAIN view' : TooNarrow(view[k])'
      BY <3>1 DEF TooNarrow, Width
    <3> QED BY <3>2 DEF FlushFailsWhenNarrow
  <2>5. ASSUME \E i \in 1 .. n : Drawn(views[i]) /\ Overhangs(view[views[i]])
        PROVE  FlushFailsWhenNarrow'
    <3>1. PICK i \in 1 .. n : Drawn(views[i]) /\ Overhangs(view[views[i]])
      BY <2>5
    <3>2. /\ views[i] \in Range(views) /\ Overhangs(view'[views[i]])
          /\ view'[views[i]].visible
      BY <1>3, <1>6, <1>7, <3>1 DEF Drawn
    <3>3. \E m \in Range(views) : Overhangs(view'[m]) /\ view'[m].visible
      BY <3>2
    <3>4. \E m \in Range(views') : SubtitleOff(view[m])'
      BY <1>1, <3>3 DEF SubtitleOff, Overhangs
    <3> QED BY <3>4 DEF FlushFailsWhenNarrow
  <2>10. FlushFailsWhenNarrow'
    <3>1. (\E m \in DOMAIN view : TooNarrow(view[m]))
          \/ \E i \in 1 .. n : Drawn(views[i]) /\ Overhangs(view[views[i]])
      BY <2>3 DEF Failing, n
    <3> QED BY <2>4, <2>5, <3>1
  <2>6. ClickReachesSeen' /\ CursorInFocus'
    BY <2>1 DEF ClickReachesSeen, CursorInFocus
  <2>7. cursor' \in {Hidden} \cup (Int \X Int)
    BY <1>2 DEF RoundOK
  <2>8. \A m \in DOMAIN view' :
          /\ DOMAIN view'[m] = Fields /\ view'[m].x0 < view'[m].x1
          /\ view'[m].cx \in Nat /\ view'[m].cy \in Nat /\ view'[m].ox \in Nat /\ view'[m].oy \in Nat
    BY <1>5, <1>6, FieldsOf
  <2>9. TypeOK'
    BY <1>1, <1>4, <1>5, <2>1, <2>7, <2>8 DEF TypeOK
  <2> QED BY <1>5, <1>6, <2>6, <2>9, <2>10 DEF ScreenInv
<1>9. CASE ~failed'
  <2>1. shown' = at.picture /\ DOMAIN at.picture = Points
    BY <1>2, <1>9 DEF RoundOK
  <2>2. Points # {}
    BY <1>4, SizeOf
  <2>3. AllMoved(n, at.view) /\ CursorOK(n, at.cursor) /\ PaintOK(n, at.picture)
    BY <1>2, <2>1, <2>2 DEF RoundOK
  <2>4. TypeOK'
    <3>1. cursor' \in {Hidden} \cup (Int \X Int)
      BY <1>2 DEF RoundOK
    <3>2. \A m \in DOMAIN view' :
            /\ DOMAIN view'[m] = Fields /\ view'[m].x0 < view'[m].x1
            /\ view'[m].cx \in Nat /\ view'[m].cy \in Nat /\ view'[m].ox \in Nat /\ view'[m].oy \in Nat
      BY <1>5, <1>6, FieldsOf
    <3> QED BY <1>1, <1>4, <1>5, <2>1, <3>1, <3>2 DEF TypeOK, Points
  <2>5. Typed'
    BY <1>5, <1>6, <2>4 DEF Typed
  <2>6. ClickReachesSeen'
    <3> SUFFICES ASSUME NEW p \in DOMAIN shown', SeesWhatIsHit(p)',
                        NEW cell, cell = shown'[p], Inked(cell)
                 PROVE  SeenAt(cell, p)'
      BY SeenNext DEF Seen
    <3>1. p \in Points /\ cell = at.picture[p]
      BY <2>1
    <3>2. SeesWhatIsHit(p)
      BY <1>1, <1>4, <1>6 DEF SeesWhatIsHit
    <3>3. PICK i \in 1 .. n : Top(n, i, p) /\ Shows(cell, views[i], Scrolled(view[views[i]]), p)
      BY <2>3, <3>1, <3>2 DEF PaintOK
    <3>4. /\ i \in DOMAIN views /\ views[i] \in DOMAIN view /\ views[i] \in Range(views)
          /\ view[views[i]] \in ViewSet
      BY <1>1, <1>3, ListedView
    <3>5. p \in Int \X Int
      <4>1. term[1] \in Nat /\ term[2] \in Nat
        BY <1>4, SizeOf
      <4> QED BY <3>1, <4>1 DEF Points
    <3>6. Inside(view[views[i]], p)
      BY <3>3 DEF Top
    <3>7. Drawn(views[i])
      <4>1. view[views[i]].y0 \in Int /\ view[views[i]].y1 \in Int
        BY <3>4, FieldsOf
      <4>2. p[2] \in Int
        BY <3>5
      <4>3. view[views[i]].visible
        BY <3>2, <3>4, <3>6 DEF SeesWhatIsHit
      <4> QED BY <3>6, <4>1, <4>2, <4>3 DEF Drawn, Inside
    <3>8. view'[views[i]] = Scrolled(view[views[i]])
      BY <1>2, <2>3, <3>7 DEF AllMoved
    <3>9. /\ Inside(view'[views'[i]], p)
          /\ \A j \in DOMAIN views' : Inside(view'[views'[j]], p) => j <= i
          /\ Shows(cell, views'[i], view'[views'[i]], p) /\ i \in DOMAIN views'
      BY <1>1, <1>3, <1>6, <1>7, <3>3, <3>4, <3>6, <3>8 DEF Top
    <3>10. Reaches'
      BY <2>5, ReachedNext
    <3> QED BY <3>5, <3>9, <3>10 DEF Reaches, SeenAt
  <2>7. FlushFailsWhenNarrow'
    BY <1>9 DEF FlushFailsWhenNarrow
  <2>8. CursorInFocus'
    <3> SUFFICES ASSUME currentView' # NoView, \E m \in Range(views') : Drawn(m)'
                 PROVE  cursor' = Hidden \/ Inside(view'[currentView'], cursor')
      BY DEF CursorInFocus
    <3>1. PICK m \in Range(views) : view'[m].visible /\ view'[m].y1 >= view'[m].y0
      BY <1>1 DEF Drawn
    <3>2. m \in DOMAIN view
      BY <1>4
    <3>3. Drawn(m)
      BY <1>6, <3>1, <3>2 DEF Drawn
    <3>4. PICK i \in 1 .. n : views[i] = m
      BY <1>3 DEF Range
    <3>5. currentView \in DOMAIN view /\ currentView # NoView /\ currentView' = currentView
      BY <1>1, <1>4
    <3>6. cursor' = Hidden \/ Inside(view[currentView], cursor')
      BY <1>2, <2>3, <3>3, <3>4, <3>5 DEF CursorOK
    <3> QED BY <1>6, <3>5, <3>6
  <2> QED BY <1>5, <1>6, <2>4, <2>6, <2>7, <2>8 DEF ScreenInv
<1> QED BY <1>8, <1>9

-----------------------------------------------------------------------------
(* The theorems.                                                           *)

LEMMA ScreenInit ==
  Init => ScreenInv
<1> SUFFICES ASSUME Init PROVE ScreenInv
  OBVIOUS
<1>1. /\ term \in Sizes /\ views = <<>> /\ DOMAIN view = {} /\ currentView = NoView
      /\ cursor = Hidden /\ shown = Stale /\ failed = FALSE
  BY DEF Init
<1>2. Range(views) = {} /\ views \in Seq(Names)
  BY <1>1 DEF Range
<1>3. TypeOK
  BY <1>1, <1>2 DEF TypeOK
<1> QED BY <1>1, <1>3 DEF ScreenInv, ClickReachesSeen, FlushFailsWhenNarrow, CursorInFocus

LEMMA ScreenStep ==
  ScreenInv /\ [Next]_vars => ScreenInv'
<1> SUFFICES ASSUME ScreenInv, [Next]_vars PROVE ScreenInv'
  OBVIOUS
<1>1. Typed
  BY DEF ScreenInv, Typed
<1>2. ASSUME Typed', shown' = Stale, ~failed' PROVE ScreenInv'
  BY <1>2, StaleStep DEF ScreenInv, Typed
<1>3. ASSUME Typed', Changed PROVE ScreenInv'
  BY <1>2, <1>3 DEF Changed
<1>4. ASSUME NEW n \in Names, NEW r \in Rects(n), SetView(n, r) PROVE ScreenInv'
  BY <1>1, <1>3, <1>4, SetViewTyped DEF SetView
<1>5. ASSUME NEW n \in Names, NEW m \in Names, NEW h \in 1 .. 3, SetViewBeneath(n, m, h) PROVE ScreenInv'
  <2>1. PICK r \in Rects(n) : SetView(n, r)
    BY <1>5 DEF SetViewBeneath
  <2> QED BY <1>4, <2>1
<1>6. ASSUME NEW n \in Names, SetViewOnTop(n) \/ SetViewOnBottom(n) PROVE ScreenInv'
  BY <1>1, <1>3, <1>6, StackTyped DEF SetViewOnTop, SetViewOnBottom
<1>7. ASSUME NEW n \in Names, DeleteView(n) \/ SetCurrentView(n) PROVE ScreenInv'
  BY <1>1, <1>3, <1>7, FocusTyped DEF DeleteView, SetCurrentView
<1>8. ASSUME NEW n \in Names, NEW look \in Looks(n), SetLook(n, look) PROVE ScreenInv'
  BY <1>1, <1>3, <1>8, LookTyped DEF SetLook
<1>14. ASSUME NEW n \in Names, NEW p \in Positions(n), SetOrigin(n, p) \/ SetCursorUnrestricted(n, p)
       PROVE  ScreenInv'
  BY <1>1, <1>3, <1>14, PositionTyped DEF SetOrigin, SetCursorUnrestricted
<1>9. CASE SetManager
  BY <1>1, <1>3, <1>9, ManagerTyped DEF SetManager
<1>10. ASSUME NEW s \in Sizes, Resize(s) PROVE ScreenInv'
  <2>1. /\ term' = s /\ shown' = Stale /\ ~failed'
        /\ UNCHANGED <<views, view, currentView, cursor>>
    BY <1>10 DEF Resize
  <2>2. Typed'
    BY <1>1, <2>1 DEF Typed, TypeOK
  <2> QED BY <1>2, <2>1, <2>2
<1>11. CASE Flush
  BY <1>11, FlushInv
<1>12. ASSUME NEW x \in 0 .. term[1] - 1, NEW y \in 0 .. term[2] - 1, Mouse(<<x, y>>) PROVE ScreenInv'
  <2>1. term[1] \in Nat /\ term[2] \in Nat
    BY <1>1, SizeOf DEF Typed, TypeOK
  <2>3. x \in Int /\ y \in Int
    BY <2>1
  <2>2. PICK p \in Int \X Int : p = <<x, y>>
    BY <2>3
  <2> QED BY <1>12, <2>2, MouseInv
<1>13. CASE UNCHANGED vars
  <2>1. UNCHANGED <<term, views, view, currentView, cursor, shown, failed>>
    BY <1>13 DEF vars
  <2>2. Typed'
    BY <1>1, <2>1 DEF Typed, TypeOK
  <2>3. \A p : SeesWhatIsHit(p)' <=> SeesWhatIsHit(p)
    BY <2>1 DEF SeesWhatIsHit
  <2>4. \A n, p : AfterHit(n, p)' = AfterHit(n, p)
    BY <2>1 DEF AfterHit
  <2>5. \A p : ViewByPosition(p)' = ViewByPosition(p)
    BY <2>1 DEF ViewByPosition
  <2>6. \A cell, p : SeenAt(cell, p) => SeenAt(cell, p)'
    <3> SUFFICES ASSUME NEW cell, NEW p, SeenAt(cell, p) PROVE SeenAt(cell, p)'
      OBVIOUS
    <3>1. PICK n : n = cell.of
      OBVIOUS
    <3> QED BY <2>1, <2>4, <2>5 DEF SeenAt
  <2>7. Seen => Seen'
    BY <2>1, <2>3, <2>6 DEF Seen
  <2>8. ClickReachesSeen'
    BY <2>7, SeenIs, SeenNext DEF ScreenInv
  <2>9. FlushFailsWhenNarrow' /\ CursorInFocus'
    BY <2>1 DEF ScreenInv, FlushFailsWhenNarrow, SubtitleOff, CursorInFocus, Drawn
  <2> QED BY <2>2, <2>8, <2>9 DEF ScreenInv, Typed
<1> QED BY <1>4, <1>5, <1>6, <1>7, <1>8, <1>9, <1>10, <1>11, <1>12, <1>13, <1>14 DEF Next

\* ScreenInv is inductive.
LEMMA Invariance ==
  Spec => []ScreenInv
<1>1. Init => ScreenInv
  BY ScreenInit
<1>2. ScreenInv /\ [Next]_vars => ScreenInv'
  BY ScreenStep
<1> QED BY <1>1, <1>2, PTL DEF Spec

\* The types of the variables: the views that are kept are those that are
\* listed and the focused one, which is listed or was deleted (DeleteView).
THEOREM TypeCorrect ==
  Spec => []TypeOK
<1>1. ScreenInv => TypeOK
  BY DEF ScreenInv
<1> QED BY <1>1, Invariance, PTL

\* onKey gives a mouse event to the view whose inside the screen shows there,
\* for any views, wherever they lie, unless a view that is hidden or padded has
\* the point inside.  Where that view shows text, the cursor is put on the
\* rune shown, whatever the origin, if the view's runes take one column each
\* and Wrap folds none of its lines.  Of other text nothing is said: onKey
\* takes the column of the screen for the rune, draw does not.
THEOREM ClicksReachTheSeen ==
  Spec => []ClickReachesSeen
<1>1. ScreenInv => ClickReachesSeen
  BY DEF ScreenInv
<1> QED BY <1>1, Invariance, PTL

\* flush fails only because of a subtitle that is not on the screen, or a
\* wrapped view without a column or with one and a wide rune: the checks in
\* drawFrameEdges, drawFrameCorners and drawTitle keep SetRune from its error
\* whatever part of a view is off the screen, takeLine ends in any other view.
THEOREM FlushFailsOnlyWhenNarrow ==
  Spec => []FlushFailsWhenNarrow
<1>1. ScreenInv => FlushFailsWhenNarrow
  BY DEF ScreenInv
<1> QED BY <1>1, Invariance, PTL

\* The cursor that draw leaves on the screen is in the focused view, also when
\* that view is not visible, was deleted, is folded or scrolled.
THEOREM CursorStaysInFocus ==
  Spec => []CursorInFocus
<1>1. ScreenInv => CursorInFocus
  BY DEF ScreenInv
<1> QED BY <1>1, Invariance, PTL

=============================================================================
