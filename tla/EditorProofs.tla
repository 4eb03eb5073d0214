---------------------------- MODULE EditorProofs ----------------------------
(***************************************************************************)
(* What TLAPS proves of Editor for every size of the view, every text and  *)
(* all widths of runes.  First the folding of a line: viewLines and        *)
(* linesPosOnScreen, two recursions over the cells, find the same row.     *)
(* Then the invariant, one lemma for each action.  Last the text field:    *)
(* the lines around the cursor cut the text that they make in two, and     *)
(* each operation changes the ends of the two parts.                       *)
(***************************************************************************)
EXTENDS Editor, SequenceFacts

-----------------------------------------------------------------------------
(* Columns.                                                                *)

\* The columns of one cell.
CellWidth(c) == IF c \in Wide THEN 2 ELSE IF c \in Zero THEN 0 ELSE 1

\* The columns of the first n cells.
Columns(line, n) == LineWidth(SubSeq(line, 1, n))

\* The first cell after n is the last of n + 1.
LEMMA OneMoreCell ==
  ASSUME NEW S, NEW s \in Seq(S), NEW n \in Nat, n < Len(s)
  PROVE  /\ SubSeq(s, 1, n) \in Seq(S) /\ s[n + 1] \in S
         /\ SubSeq(s, 1, n + 1) = Append(SubSeq(s, 1, n), s[n + 1])
OBVIOUS

\* A cell after a line adds its columns.
LEMMA WidthAppend ==
  ASSUME NEW s \in Seq(Cells), NEW c \in Cells, LineWidth(s) \in Int
  PROVE  LineWidth(Append(s, c)) = LineWidth(s) + CellWidth(c)
<1> DEFINE t == Append(s, c)
           w == Count(s, Wide)
           z == Count(s, Zero)
           ww == Count(t, Wide)
           zz == Count(t, Zero)
<1>1. w \in Nat /\ z \in Nat
  BY CountType
<1>2. /\ ww = w + (IF c \in Wide THEN 1 ELSE 0)
      /\ zz = z + (IF c \in Zero THEN 1 ELSE 0)
  BY CountAppend
<1>3. LineWidth(s) = Len(s) + w - z
  BY DEF LineWidth, Count, Places
<1>4. LineWidth(t) = Len(t) + ww - zz
  BY DEF LineWidth, Count, Places
<1>5. Len(t) = Len(s) + 1 /\ Len(s) \in Nat
  OBVIOUS
<1> HIDE DEF t, w, z, ww, zz
<1>6. LineWidth(t) = LineWidth(s) + 1 + (IF c \in Wide THEN 1 ELSE 0) - (IF c \in Zero THEN 1 ELSE 0)
  BY <1>1, <1>2, <1>3, <1>4, <1>5
<1>7. ~(c \in Wide /\ c \in Zero)
  BY RunesAssumption
<1>8. LineWidth(t) = LineWidth(s) + CellWidth(c)
  BY <1>6, <1>7 DEF CellWidth
<1> QED BY <1>8 DEF t

\* No cells, no columns.
LEMMA NoColumns == LineWidth(<<>>) = 0
<1>1. DOMAIN <<>> = {} /\ Len(<<>>) = 0
  OBVIOUS
<1>2. {i \in DOMAIN <<>> : <<>>[i] \in Wide} = {} /\ {i \in DOMAIN <<>> : <<>>[i] \in Zero} = {}
  BY <1>1
<1>3. Cardinality({}) = 0
  BY FS_EmptySet
<1> QED BY <1>1, <1>2, <1>3 DEF LineWidth

\* The columns of a line, cell by cell.
LEMMA ColumnsNext ==
  ASSUME NEW line \in Seq(Cells), NEW n \in Nat, n < Len(line), Columns(line, n) \in Nat
  PROVE  /\ Columns(line, n + 1) = Columns(line, n) + CellWidth(line[n + 1])
         /\ Columns(line, n + 1) \in Nat /\ Columns(line, n) <= Columns(line, n + 1)
<1>1. Columns(line, n + 1) = Columns(line, n) + CellWidth(line[n + 1])
  <2> DEFINE first == SubSeq(line, 1, n)
             c == line[n + 1]
  <2>1. first \in Seq(Cells) /\ c \in Cells /\ SubSeq(line, 1, n + 1) = Append(first, c)
    BY OneMoreCell
  <2>2. LineWidth(first) \in Int
    BY DEF Columns
  <2> HIDE DEF first, c
  <2>3. LineWidth(Append(first, c)) = LineWidth(first) + CellWidth(c)
    BY <2>1, <2>2, WidthAppend
  <2> QED BY <2>1, <2>3 DEF Columns, first, c
<1>2. CellWidth(line[n + 1]) \in Nat
  BY DEF CellWidth
<1> QED BY <1>1, <1>2

\* They are a number for each cell ...
LEMMA ColumnsType ==
  ASSUME NEW line \in Seq(Cells), NEW n \in 0 .. Len(line)
  PROVE  Columns(line, n) \in Nat
<1> DEFINE T == {k \in 0 .. Len(line) : Columns(line, k) \notin Nat}
<1> SUFFICES ASSUME T # {} PROVE FALSE
  OBVIOUS
<1>1. PICK m \in T : \A k \in T : m <= k
  <2>1. T \subseteq Nat
    OBVIOUS
  <2> HIDE DEF T
  <2> QED BY <2>1, Least
<1>2. Columns(line, 0) = 0
  <2>1. SubSeq(line, 1, 0) = <<>>
    OBVIOUS
  <2> QED BY <2>1, NoColumns DEF Columns
<1>3. m \in Nat /\ m # 0 /\ m <= Len(line) /\ Columns(line, m) \notin Nat
  BY <1>2
<1>4. /\ m - 1 \in Nat /\ m - 1 < Len(line) /\ m - 1 + 1 = m /\ ~(m <= m - 1)
      /\ m - 1 \in 0 .. Len(line)
  BY <1>3
<1>5. Columns(line, m - 1) \in Nat
  BY <1>1, <1>4
<1>6. Columns(line, m - 1 + 1) \in Nat
  BY <1>4, <1>5, ColumnsNext
<1> QED BY <1>3, <1>4, <1>6

\* ... and never fewer further on.
LEMMA ColumnsGrow ==
  ASSUME NEW line \in Seq(Cells), NEW n \in 0 .. Len(line), NEW i \in 0 .. n
  PROVE  Columns(line, i) <= Columns(line, n)
<1> DEFINE T == {k \in 0 .. Len(line) : i <= k /\ ~(Columns(line, i) <= Columns(line, k))}
<1>0. \A k \in 0 .. Len(line) : Columns(line, k) \in Nat
  BY ColumnsType
<1>a. i \in 0 .. Len(line) /\ i \in Nat
  OBVIOUS
<1> SUFFICES ASSUME T # {} PROVE FALSE
  BY <1>a
<1>1. PICK m \in T : \A k \in T : m <= k
  <2>1. T \subseteq Nat
    OBVIOUS
  <2> HIDE DEF T
  <2> QED BY <2>1, Least
<1>2. m \in 0 .. Len(line) /\ i <= m /\ ~(Columns(line, i) <= Columns(line, m))
  OBVIOUS
<1>3. m # i
  <2>1. Columns(line, i) \in Nat
    BY <1>0, <1>a
  <2> QED BY <1>2, <2>1
<1>4. /\ m - 1 \in Nat /\ m - 1 < Len(line) /\ m - 1 + 1 = m /\ ~(m <= m - 1)
      /\ m - 1 \in 0 .. Len(line) /\ i <= m - 1
  BY <1>2, <1>3, <1>a
<1>5. Columns(line, i) <= Columns(line, m - 1)
  BY <1>1, <1>4
<1>6. Columns(line, m - 1) <= Columns(line, m - 1 + 1)
  BY <1>0, <1>4, ColumnsNext
<1>7. Columns(line, i) \in Nat /\ Columns(line, m - 1) \in Nat /\ Columns(line, m) \in Nat
  BY <1>0, <1>2, <1>4, <1>a
<1> QED BY <1>2, <1>4, <1>5, <1>6, <1>7

-----------------------------------------------------------------------------
(* Rows.                                                                   *)

\* A row takes at least one rune, as SizeAssumption has it for Wrap.
Fits(maxX) == maxX \in Nat /\ maxX > 0 /\ (Wide # {} => maxX > 1)

\* One cell fits into a row.
LEMMA CellFits ==
  ASSUME NEW line \in Seq(Cells), line # <<>>, NEW maxX, Fits(maxX)
  PROVE  Columns(line, 1) <= maxX
<1>1. 0 \in Nat /\ 0 < Len(line) /\ 0 + 1 = 1
  OBVIOUS
<1>2. Columns(line, 0) = 0
  <2>1. SubSeq(line, 1, 0) = <<>>
    OBVIOUS
  <2> QED BY <2>1, NoColumns DEF Columns
<1>3. Columns(line, 0 + 1) = Columns(line, 0) + CellWidth(line[0 + 1])
  BY <1>1, <1>2, ColumnsNext
<1>4. CellWidth(line[0 + 1]) <= maxX
  <2>1. line[0 + 1] \in Wide => maxX > 1
    BY DEF Fits
  <2> QED BY <2>1 DEF CellWidth, Fits
<1>5. CellWidth(line[0 + 1]) \in Nat
  BY DEF CellWidth
<1> QED BY <1>1, <1>2, <1>3, <1>4, <1>5 DEF Fits

\* A row takes some cells of the line, and ends as soon as it is full.
LEMMA RowLenType ==
  ASSUME NEW line \in Seq(Cells), NEW maxX, Fits(maxX)
  PROVE  /\ RowLen(line, maxX) \in 0 .. Len(line)
         /\ line # <<>> => RowLen(line, maxX) >= 1
         /\ \A i \in 0 .. Len(line) : i < RowLen(line, maxX) => Columns(line, i) < maxX
<1> DEFINE w(i) == Columns(line, i)
           taken == {n \in 0 .. Len(line) : w(n) <= maxX}
           full == {n \in taken : w(n) = maxX}
           r == IF full = {} THEN Max(taken) ELSE Min(full)
<1>1. RowLen(line, maxX) = r
  BY DEF RowLen, Columns
<1>2. /\ Len(line) \in Nat /\ maxX \in Nat /\ maxX > 0
      /\ \A i \in 0 .. Len(line) : w(i) \in Nat
      /\ \A n \in 0 .. Len(line) : \A i \in 0 .. n : w(i) <= w(n)
  BY ColumnsType, ColumnsGrow DEF Fits
<1>3. w(0) = 0
  <2>1. SubSeq(line, 1, 0) = <<>>
    OBVIOUS
  <2> QED BY <2>1, NoColumns DEF Columns
<1>4. line # <<>> => 1 \in 0 .. Len(line) /\ w(1) <= maxX
  BY CellFits
<1> HIDE DEF w
<1>5. 0 \in taken /\ (line # <<>> => 1 \in taken)
  BY <1>2, <1>3, <1>4
<1>6. CASE full = {}
  <2>1. taken \subseteq 0 .. Len(line) /\ taken # {}
    BY <1>5
  <2>2. r \in taken /\ \A k \in taken : k <= r
    <3> HIDE DEF taken, full
    <3>1. Max(taken) \in taken /\ \A k \in taken : k <= Max(taken)
      BY <1>2, <2>1, Extremes
    <3> QED BY <1>6, <3>1
  <2> HIDE DEF r
  <2>3. ASSUME NEW i \in 0 .. Len(line), i < r PROVE w(i) < maxX
    <3>1. r \in 0 .. Len(line) /\ w(r) <= maxX
      BY <2>2
    <3>2. i \in 0 .. r
      BY <2>3, <3>1
    <3>3. w(i) <= w(r) /\ w(i) \in Nat /\ w(r) \in Nat
      BY <1>2, <3>1, <3>2
    <3>4. w(i) <= maxX
      BY <1>2, <3>1, <3>3
    <3>5. w(i) # maxX
      BY <1>6, <3>4
    <3> QED BY <1>2, <3>3, <3>4, <3>5
  <2> QED BY <1>1, <1>5, <2>2, <2>3 DEF w
<1>7. CASE full # {}
  <2>1. full \subseteq 0 .. Len(line)
    OBVIOUS
  <2>2. r \in full /\ \A k \in full : r <= k
    <3> HIDE DEF full
    <3>1. Min(full) \in full /\ \A k \in full : Min(full) <= k
      BY <1>2, <1>7, <2>1, Extremes
    <3> QED BY <1>7, <3>1
  <2> HIDE DEF r
  <2>3. r \in 0 .. Len(line) /\ w(r) = maxX
    BY <2>2
  <2>4. r # 0
    BY <1>2, <1>3, <2>3
  <2>5. ASSUME NEW i \in 0 .. Len(line), i < r PROVE w(i) < maxX
    <3>1. i \in 0 .. r
      BY <2>3, <2>5
    <3>2. w(i) <= maxX /\ w(i) \in Nat
      BY <1>2, <2>3, <3>1
    <3>3. i \notin full
      BY <2>2, <2>3, <2>5
    <3>4. w(i) # maxX
      BY <3>2, <3>3
    <3> QED BY <1>2, <3>2, <3>4
  <2>6. r >= 1
    BY <2>3, <2>4
  <2> QED BY <1>1, <2>3, <2>5, <2>6 DEF w
<1> QED BY <1>6, <1>7

\* The cells from s + 1 to x are the first x - s of those behind s.
LEMMA PartOfDrop ==
  ASSUME NEW S, NEW line \in Seq(S), NEW s \in 0 .. Len(line), NEW x \in s .. Len(line)
  PROVE  /\ Drop(line, s) \in Seq(S) /\ Len(Drop(line, s)) = Len(line) - s
         /\ x - s \in 0 .. Len(line) - s
         /\ SubSeq(line, s + 1, x) = SubSeq(Drop(line, s), 1, x - s)
<1> DEFINE d == Drop(line, s)
           a == SubSeq(line, s + 1, x)
           b == SubSeq(d, 1, x - s)
<1>1. /\ d \in Seq(S) /\ Len(d) = Len(line) - s
      /\ \A i \in 1 .. Len(line) - s : d[i] = line[s + i]
  BY DEF Drop
<1>2. a \in Seq(S) /\ Len(a) = x - s /\ \A i \in 1 .. x - s : a[i] = line[s + i]
  OBVIOUS
<1>3. x - s \in 0 .. Len(line) - s /\ \A i \in 1 .. x - s : i \in 1 .. Len(line) - s
  OBVIOUS
<1> HIDE DEF d
<1>4. b \in Seq(S) /\ Len(b) = x - s /\ \A i \in 1 .. x - s : b[i] = d[i]
  <2>1. x - s \in 0 .. Len(d)
    BY <1>1, <1>3
  <2> QED BY <1>1, <2>1, SubSeqType
<1> HIDE DEF a, b
<1>5. \A i \in 1 .. Len(a) : a[i] = b[i]
  BY <1>1, <1>2, <1>3, <1>4
<1>6. a = b
  BY <1>2, <1>4, <1>5, SameSequence
<1> QED BY <1>1, <1>3, <1>6 DEF a, b, d

\* The row that begins behind the first s cells, and where the next begins.
RowAt(line, s, maxX) == RowLen(Drop(line, s), maxX)

\* It ends in the line, is not empty before its end, and is narrower than the
\* view at each place in it.
LEMMA RowAtType ==
  ASSUME NEW line \in Seq(Cells), NEW maxX, Fits(maxX), NEW s \in 0 .. Len(line)
  PROVE  /\ RowAt(line, s, maxX) \in Nat /\ s + RowAt(line, s, maxX) \in 0 .. Len(line)
         /\ s + RowAt(line, s, maxX) < Len(line) => s + RowAt(line, s, maxX) > s
         /\ \A x \in s .. Len(line) :
              /\ LineWidth(SubSeq(line, s + 1, x)) \in Nat
              /\ x < s + RowAt(line, s, maxX) => LineWidth(SubSeq(line, s + 1, x)) < maxX
<1> DEFINE d == Drop(line, s)
           r == RowAt(line, s, maxX)
<1>1. Len(line) \in Nat /\ s \in s .. Len(line) /\ s \in Nat
  OBVIOUS
<1>2. d \in Seq(Cells) /\ Len(d) = Len(line) - s
  BY <1>1, PartOfDrop
<1> HIDE DEF d
<1>3. /\ r \in 0 .. Len(d) /\ (d # <<>> => r >= 1)
      /\ \A i \in 0 .. Len(d) : i < r => Columns(d, i) < maxX
  BY <1>2, RowLenType DEF RowAt, d
<1>4. d # <<>> <=> s < Len(line)
  BY <1>1, <1>2
<1> HIDE DEF r
<1>5. r \in Nat /\ s + r \in 0 .. Len(line) /\ (s + r < Len(line) => s + r > s)
  BY <1>1, <1>2, <1>3, <1>4
<1>6. ASSUME NEW x \in s .. Len(line)
      PROVE  /\ LineWidth(SubSeq(line, s + 1, x)) \in Nat
             /\ x < s + r => LineWidth(SubSeq(line, s + 1, x)) < maxX
  <2>1. LineWidth(SubSeq(line, s + 1, x)) = Columns(d, x - s) /\ x - s \in 0 .. Len(d)
    BY <1>2, PartOfDrop DEF Columns, d
  <2>2. Columns(d, x - s) \in Nat
    BY <1>2, <2>1, ColumnsType
  <2>3. x < s + r => x - s < r
    BY <1>1, <1>5
  <2> QED BY <1>3, <2>1, <2>2, <2>3
<1> QED BY <1>5, <1>6 DEF r

\* RowStarts: the function it computes with.
StartsFrom(line, maxX, f) ==
  f = [s \in 0 .. Len(line) |->
         <<s>> \o (IF s + RowAt(line, s, maxX) < Len(line) THEN f[s + RowAt(line, s, maxX)] ELSE <<>>)]

\* There is one, as each row begins behind the one before.
LEMMA StartsExist ==
  ASSUME NEW line \in Seq(Cells), NEW maxX, Fits(maxX)
  PROVE  \E f : StartsFrom(line, maxX, f)
<1> DEFINE L == Len(line)
           X == 0 .. L
           V == Seq(Nat)
           to(s) == s + RowAt(line, s, maxX)
           stop == {s \in X : ~(to(s) < L)}
           base == [s \in X |-> <<s>>]
           next == [s \in X |-> to(s)]
           step == [s \in X |-> [v \in V |-> <<s>> \o v]]
           far == [s \in X |-> L - s]
<1>1. L \in Nat /\ \A s \in X : s \in Nat /\ to(s) \in X /\ (to(s) < L => to(s) > s)
  BY RowAtType
<1> HIDE DEF to
<1>2. base \in [X -> V] /\ next \in [X -> X] /\ step \in [X -> [V -> V]] /\ far \in [X -> 0 .. L]
  <2>1. base \in [X -> V]
    BY <1>1
  <2>2. next \in [X -> X]
    BY <1>1
  <2>3. \A s \in X : [v \in V |-> <<s>> \o v] \in [V -> V]
    <3> TAKE s \in X
    <3>1. <<s>> \in V
      BY <1>1
    <3>2. \A v \in V : <<s>> \o v \in V
      BY <3>1
    <3> QED BY <3>2
  <2>4. far \in [X -> 0 .. L]
    BY <1>1
  <2> QED BY <2>1, <2>2, <2>3, <2>4
<1>3. \A s \in X : s \notin stop => far[next[s]] < far[s]
  <2> TAKE s \in X
  <2>1. s \notin stop => to(s) \in X /\ to(s) > s
    BY <1>1
  <2>2. s \notin stop => far[next[s]] = L - to(s) /\ far[s] = L - s
    BY <2>1
  <2> QED BY <1>1, <2>1, <2>2
<1>4. PICK f \in [X -> V] : Recursive(X, stop, base, next, step, f)
  <2> HIDE DEF X, V, stop, base, next, step, far
  <2> QED BY <1>1, <1>2, <1>3, Recursion
<1>5. ASSUME NEW s \in X
      PROVE  f[s] = <<s>> \o (IF to(s) < L THEN f[to(s)] ELSE <<>>)
  <2>1. f[s] = IF s \in stop THEN base[s] ELSE step[s][f[next[s]]]
    <3> HIDE DEF X, stop, base, next, step
    <3> QED BY <1>4 DEF Recursive
  <2>2. CASE to(s) < L
    <3>1. s \notin stop /\ next[s] = to(s) /\ f[to(s)] \in V
      BY <1>1, <1>4, <2>2
    <3>2. step[s][f[to(s)]] = <<s>> \o f[to(s)]
      BY <3>1
    <3> HIDE DEF stop, next, step
    <3> QED BY <2>1, <2>2, <3>1, <3>2
  <2>3. CASE ~(to(s) < L)
    <3>1. s \in stop /\ base[s] = <<s>>
      BY <2>3
    <3>2. <<s>> \o <<>> = <<s>>
      OBVIOUS
    <3> HIDE DEF stop, next, step
    <3> QED BY <2>1, <2>3, <3>1, <3>2
  <2> QED BY <2>2, <2>3
<1>6. f = [s \in X |-> f[s]]
  BY <1>4
<1>7. f = [s \in X |-> <<s>> \o (IF to(s) < L THEN f[to(s)] ELSE <<>>)]
  <2> HIDE DEF X
  <2> QED BY <1>5, <1>6
<1> QED BY <1>7 DEF StartsFrom, to

\* What RowStarts returns is its value at the start of the line.
LEMMA RowStartsFrom ==
  ASSUME NEW line \in Seq(Cells), NEW maxX, Fits(maxX)
  PROVE  \E f : StartsFrom(line, maxX, f) /\ RowStarts(line, maxX) = f[0]
<1> DEFINE g == CHOOSE f : f = [s \in 0 .. Len(line) |->
                   <<s>> \o (IF s + RowLen(Drop(line, s), maxX) < Len(line)
                             THEN f[s + RowLen(Drop(line, s), maxX)] ELSE <<>>)]
<1>1. StartsFrom(line, maxX, g)
  <2>1. \E f : StartsFrom(line, maxX, f)
    BY StartsExist
  <2> QED BY <2>1 DEF StartsFrom, RowAt
<1>2. RowStarts(line, maxX) = g[0]
  BY DEF RowStarts
<1> QED BY <1>1, <1>2

\* Numbers that grow, from s on.
Ascending(r, s) ==
  /\ r \in Seq(Nat) /\ r # <<>> /\ r[1] = s
  /\ \A i, j \in DOMAIN r : i < j => r[i] < r[j]

\* One more before them.
LEMMA AscendingMore ==
  ASSUME NEW s \in Nat, NEW t \in Nat, s < t, NEW r, Ascending(r, t)
  PROVE  /\ Ascending(<<s>> \o r, s) /\ Len(<<s>> \o r) = Len(r) + 1
         /\ \A i \in DOMAIN r : i + 1 \in DOMAIN (<<s>> \o r) /\ (<<s>> \o r)[i + 1] = r[i]
<1> DEFINE q == <<s>> \o r
<1>1. r \in Seq(Nat) /\ Len(r) \in Nat /\ Len(r) >= 1 /\ DOMAIN r = 1 .. Len(r) /\ r[1] = t
  BY DEF Ascending
<1>2. /\ q \in Seq(Nat) /\ Len(q) = Len(r) + 1 /\ q[1] = s /\ DOMAIN q = 1 .. Len(r) + 1
      /\ \A i \in 1 .. Len(r) : q[i + 1] = r[i]
  BY <1>1
<1>3. \A i \in 1 .. Len(r) : t <= r[i] /\ r[i] \in Nat
  <2> TAKE i \in 1 .. Len(r)
  <2>1. r[i] \in Nat
    BY <1>1
  <2>2. i = 1 \/ (1 \in DOMAIN r /\ i \in DOMAIN r /\ 1 < i)
    BY <1>1
  <2> QED BY <1>1, <2>1, <2>2 DEF Ascending
<1> HIDE DEF q
<1>4. ASSUME NEW i \in DOMAIN q, NEW j \in DOMAIN q, i < j PROVE q[i] < q[j]
  <2>1. j - 1 \in 1 .. Len(r) /\ q[j] = r[j - 1]
    <3>1. j - 1 \in 1 .. Len(r) /\ j - 1 + 1 = j
      BY <1>1, <1>2, <1>4
    <3> QED BY <1>2, <3>1
  <2>2. CASE i = 1
    BY <1>2, <1>3, <2>1, <2>2
  <2>3. CASE i # 1
    <3>0. i \in 1 .. Len(r) + 1 /\ j \in 1 .. Len(r) + 1
      BY <1>2
    <3>1. i - 1 \in 1 .. Len(r) /\ i - 1 + 1 = i /\ i - 1 < j - 1
      BY <1>4, <2>3, <3>0
    <3>2. q[i] = r[i - 1]
      BY <1>2, <3>1
    <3>3. r[i - 1] < r[j - 1]
      BY <1>1, <2>1, <3>1 DEF Ascending
    <3> QED BY <2>1, <3>2, <3>3
  <2> QED BY <2>2, <2>3
<1>5. q # <<>>
  BY <1>1, <1>2
<1>6. Ascending(q, s)
  BY <1>2, <1>4, <1>5 DEF Ascending
<1>7. \A i \in DOMAIN r : i + 1 \in DOMAIN q /\ q[i + 1] = r[i]
  BY <1>1, <1>2
<1> QED BY <1>2, <1>6, <1>7 DEF q

\* The value of the function at a place.
LEMMA StartsAt ==
  ASSUME NEW line, NEW maxX, NEW f, StartsFrom(line, maxX, f), NEW s \in 0 .. Len(line)
  PROVE  f[s] = <<s>> \o (IF s + RowAt(line, s, maxX) < Len(line)
                          THEN f[s + RowAt(line, s, maxX)] ELSE <<>>)
BY DEF StartsFrom

\* The starts of the rows grow.
LEMMA StartsAscend ==
  ASSUME NEW line \in Seq(Cells), NEW maxX, Fits(maxX), NEW f, StartsFrom(line, maxX, f),
         NEW s \in 0 .. Len(line)
  PROVE  Ascending(f[s], s)
<1> DEFINE L == Len(line)
           to(i) == i + RowAt(line, i, maxX)
           T == {i \in 0 .. L : ~Ascending(f[i], i)}
<1> SUFFICES ASSUME T # {} PROVE FALSE
  OBVIOUS
<1>1. L \in Nat
  OBVIOUS
<1>2. PICK m \in T : \A i \in T : m >= i
  <2>1. T \subseteq Nat /\ \A i \in T : i <= L
    BY <1>1
  <2> HIDE DEF T, L
  <2> QED BY <1>1, <2>1, Greatest
<1>3. m \in 0 .. L /\ m \in Nat /\ ~Ascending(f[m], m)
  BY <1>1
<1>4. f[m] = <<m>> \o (IF to(m) < L THEN f[to(m)] ELSE <<>>)
  BY <1>3, StartsAt
<1>5. to(m) \in 0 .. L /\ (to(m) < L => to(m) > m)
  BY <1>3, RowAtType
<1> HIDE DEF to, L
<1>6. CASE to(m) < L
  <2>1. to(m) > m /\ to(m) \in Nat
    BY <1>1, <1>5, <1>6
  <2>2. to(m) \notin T
    BY <1>1, <1>2, <1>3, <2>1
  <2>3. Ascending(f[to(m)], to(m))
    BY <1>5, <2>2
  <2>4. m < to(m)
    BY <1>3, <2>1
  <2>5. Ascending(<<m>> \o f[to(m)], m)
    BY <1>3, <2>1, <2>3, <2>4, AscendingMore
  <2> QED BY <1>3, <1>4, <1>6, <2>5
<1>7. CASE ~(to(m) < L)
  <2>1. f[m] = <<m>>
    <3>1. <<m>> \o <<>> = <<m>>
      OBVIOUS
    <3> QED BY <1>4, <1>7, <3>1
  <2>2. Ascending(<<m>>, m)
    BY <1>3 DEF Ascending
  <2> QED BY <1>3, <2>1, <2>2
<1> QED BY <1>6, <1>7

\* PosInLine: the function it computes with, row and column from the row that
\* begins behind s cells.
PosFrom(line, x, maxX, f) ==
  f = [s \in 0 .. Len(line) |->
         IF x < s + RowAt(line, s, maxX) THEN [x |-> LineWidth(SubSeq(line, s + 1, x)), y |-> 0]
         ELSE IF s + RowAt(line, s, maxX) = Len(line)
         THEN [x |-> x - (s + RowAt(line, s, maxX)) + LineWidth(Drop(line, s)), y |-> 0]
         ELSE [f[s + RowAt(line, s, maxX)] EXCEPT !.y = @ + 1]]

\* The values of linesPosOnScreen.
Positions == [x : Nat, y : Nat]

\* The two ends of the recursion are positions.
LEMMA PosEnds ==
  ASSUME NEW line \in Seq(Cells), NEW maxX, Fits(maxX), NEW x \in Nat, NEW s \in 0 .. Len(line)
  PROVE  /\ x < s + RowAt(line, s, maxX) => LineWidth(SubSeq(line, s + 1, x)) \in Nat
         /\ ~(x < s + RowAt(line, s, maxX)) =>
              x - (s + RowAt(line, s, maxX)) + LineWidth(Drop(line, s)) \in Nat
<1> DEFINE to == s + RowAt(line, s, maxX)
           w == LineWidth(Drop(line, s))
<1>1. to \in 0 .. Len(line) /\ Len(line) \in Nat /\ s \in Nat
  BY RowAtType
<1>2. CASE x < s
  <2>1. SubSeq(line, s + 1, x) = <<>>
    BY <1>1, <1>2
  <2>2. LineWidth(SubSeq(line, s + 1, x)) \in Nat
    <3>1. 0 \in Nat
      OBVIOUS
    <3> QED BY <2>1, <3>1, NoColumns, Zenon
  <2>3. RowAt(line, s, maxX) \in Nat
    BY RowAtType
  <2>4. x < to
    BY <1>1, <1>2, <2>3
  <2> QED BY <2>2, <2>4
<1>3. CASE x >= s /\ x < to
  <2>1. x \in s .. Len(line)
    BY <1>1, <1>3
  <2>2. LineWidth(SubSeq(line, s + 1, x)) \in Nat
    BY <2>1, RowAtType
  <2> QED BY <1>3, <2>2
<1>4. CASE ~(x < to)
  <2>1. Len(line) \in s .. Len(line)
    BY <1>1
  <2>2. w \in Nat
    BY <2>1, RowAtType DEF Drop
  <2> HIDE DEF w, to
  <2>3. x - to + w \in Nat
    BY <1>1, <1>4, <2>2
  <2> QED BY <1>4, <2>3 DEF w, to
<1>5. x < to \/ ~(x < to)
  OBVIOUS
<1>6. x < s \/ x >= s
  BY <1>1
<1> QED BY <1>2, <1>3, <1>4, <1>5, <1>6

\* There is such a function.
LEMMA PosExist ==
  ASSUME NEW line \in Seq(Cells), NEW maxX, Fits(maxX), NEW x \in Nat
  PROVE  \E f \in [0 .. Len(line) -> Positions] : PosFrom(line, x, maxX, f)
<1> DEFINE L == Len(line)
           X == 0 .. L
           to(s) == s + RowAt(line, s, maxX)
           here(s) == [x |-> LineWidth(SubSeq(line, s + 1, x)), y |-> 0]
           past(s) == [x |-> x - to(s) + LineWidth(Drop(line, s)), y |-> 0]
           stop == {s \in X : x < to(s) \/ to(s) = L}
           base == [s \in X |-> IF s \in stop THEN IF x < to(s) THEN here(s) ELSE past(s)
                                ELSE [x |-> 0, y |-> 0]]
           next == [s \in X |-> to(s)]
           step == [s \in X |-> [v \in Positions |-> [v EXCEPT !.y = @ + 1]]]
           far == [s \in X |-> L - s]
<1>1. L \in Nat /\ \A s \in X : s \in Nat /\ to(s) \in X /\ (to(s) < L => to(s) > s)
  BY RowAtType
<1>2. \A s \in X : (x < to(s) => here(s) \in Positions) /\ (~(x < to(s)) => past(s) \in Positions)
  BY PosEnds DEF Positions
<1> HIDE DEF to, here, past
<1>3. base \in [X -> Positions]
  <2>1. [x |-> 0, y |-> 0] \in Positions
    BY DEF Positions
  <2> QED BY <1>2, <2>1
<1>4. next \in [X -> X] /\ far \in [X -> 0 .. L]
  BY <1>1
<1>5. step \in [X -> [Positions -> Positions]]
  <2>1. \A v \in Positions : [v EXCEPT !.y = @ + 1] \in Positions
    BY DEF Positions
  <2> QED BY <2>1
<1>6. \A s \in X : s \notin stop => far[next[s]] < far[s]
  <2> TAKE s \in X
  <2>1. s \notin stop => to(s) \in X /\ to(s) > s
    BY <1>1
  <2>2. s \notin stop => far[next[s]] = L - to(s) /\ far[s] = L - s
    BY <2>1
  <2> QED BY <1>1, <2>1, <2>2
<1>7. PICK f \in [X -> Positions] : Recursive(X, stop, base, next, step, f)
  <2> HIDE DEF X, stop, base, next, step, far
  <2> QED BY <1>1, <1>3, <1>4, <1>5, <1>6, Recursion
<1>8. ASSUME NEW s \in X
      PROVE  f[s] = IF x < to(s) THEN here(s)
                    ELSE IF to(s) = L THEN past(s) ELSE [f[to(s)] EXCEPT !.y = @ + 1]
  <2>1. f[s] = IF s \in stop THEN base[s] ELSE step[s][f[next[s]]]
    <3> HIDE DEF X, stop, base, next, step
    <3> QED BY <1>7 DEF Recursive
  <2>2. CASE s \in stop
    <3>1. base[s] = IF x < to(s) THEN here(s) ELSE past(s)
      BY <2>2
    <3>2. x < to(s) \/ to(s) = L
      BY <2>2
    <3> HIDE DEF stop, base, next, step
    <3> QED BY <2>1, <2>2, <3>1, <3>2
  <2>3. CASE s \notin stop
    <3>1. next[s] = to(s) /\ f[to(s)] \in Positions /\ ~(x < to(s)) /\ to(s) # L
      BY <1>1, <1>7, <2>3
    <3>2. step[s][f[to(s)]] = [f[to(s)] EXCEPT !.y = @ + 1]
      BY <3>1
    <3> HIDE DEF stop, base, next, step
    <3> QED BY <2>1, <2>3, <3>1, <3>2
  <2> QED BY <2>2, <2>3
<1>9. f = [s \in X |-> f[s]]
  BY <1>7
<1>10. f = [s \in X |-> IF x < to(s) THEN here(s)
                        ELSE IF to(s) = L THEN past(s) ELSE [f[to(s)] EXCEPT !.y = @ + 1]]
  <2> HIDE DEF X
  <2> QED BY <1>8, <1>9
<1> QED BY <1>7, <1>10 DEF PosFrom, to, here, past

\* PosInLine returns its value at the start of the line, folded once more.
LEMMA PosInLineFrom ==
  ASSUME NEW line \in Seq(Cells), NEW maxX, Fits(maxX), NEW x \in Nat
  PROVE  \E f : /\ PosFrom(line, x, maxX, f)
                /\ PosInLine(line, x, maxX) =
                     [x |-> f[0].x % maxX, y |-> f[0].y + f[0].x \div maxX]
<1> DEFINE g == CHOOSE f : f = [s \in 0 .. Len(line) |->
                   IF x < s + RowLen(Drop(line, s), maxX)
                   THEN [x |-> LineWidth(SubSeq(line, s + 1, x)), y |-> 0]
                   ELSE IF s + RowLen(Drop(line, s), maxX) = Len(line)
                   THEN [x |-> x - (s + RowLen(Drop(line, s), maxX)) + LineWidth(Drop(line, s)), y |-> 0]
                   ELSE [f[s + RowLen(Drop(line, s), maxX)] EXCEPT !.y = @ + 1]]
<1>1. PosFrom(line, x, maxX, g)
  <2>1. \E f : PosFrom(line, x, maxX, f)
    BY PosExist
  <2> QED BY <2>1 DEF PosFrom, RowAt
<1>2. PosInLine(line, x, maxX) = [x |-> g[0].x % maxX, y |-> g[0].y + g[0].x \div maxX]
  BY DEF PosInLine
<1> QED BY <1>1, <1>2

\* Its value at a place.
LEMMA PosAt ==
  ASSUME NEW line, NEW x, NEW maxX, NEW f, PosFrom(line, x, maxX, f), NEW s \in 0 .. Len(line)
  PROVE  f[s] =
         IF x < s + RowAt(line, s, maxX) THEN [x |-> LineWidth(SubSeq(line, s + 1, x)), y |-> 0]
         ELSE IF s + RowAt(line, s, maxX) = Len(line)
         THEN [x |-> x - (s + RowAt(line, s, maxX)) + LineWidth(Drop(line, s)), y |-> 0]
         ELSE [f[s + RowAt(line, s, maxX)] EXCEPT !.y = @ + 1]
BY DEF PosFrom

\* The values are positions.
LEMMA PosFromType ==
  ASSUME NEW line \in Seq(Cells), NEW maxX, Fits(maxX), NEW x \in Nat,
         NEW f, PosFrom(line, x, maxX, f), NEW s \in 0 .. Len(line)
  PROVE  f[s] \in Positions
<1> DEFINE L == Len(line)
           to(i) == i + RowAt(line, i, maxX)
           here(i) == [x |-> LineWidth(SubSeq(line, i + 1, x)), y |-> 0]
           past(i) == [x |-> x - to(i) + LineWidth(Drop(line, i)), y |-> 0]
           T == {i \in 0 .. L : f[i] \notin Positions}
<1> SUFFICES ASSUME T # {} PROVE FALSE
  OBVIOUS
<1>1. L \in Nat
  OBVIOUS
<1>2. PICK m \in T : \A i \in T : m >= i
  <2>1. T \subseteq Nat /\ \A i \in T : i <= L
    BY <1>1
  <2> HIDE DEF T, L
  <2> QED BY <1>1, <2>1, Greatest
<1>3. m \in 0 .. L /\ m \in Nat /\ f[m] \notin Positions
  BY <1>1
<1>4. f[m] = IF x < to(m) THEN here(m)
             ELSE IF to(m) = L THEN past(m) ELSE [f[to(m)] EXCEPT !.y = @ + 1]
  BY <1>3, PosAt
<1>5. to(m) \in 0 .. L /\ (to(m) < L => to(m) > m)
  BY <1>3, RowAtType
<1>6. (x < to(m) => here(m) \in Positions) /\ (~(x < to(m)) => past(m) \in Positions)
  BY <1>3, PosEnds DEF Positions
<1> HIDE DEF to, L, here, past
<1>7. ~(x < to(m)) /\ to(m) # L
  BY <1>3, <1>4, <1>6
<1>8. to(m) > m /\ to(m) \in 0 .. L
  BY <1>1, <1>5, <1>7
<1>9. to(m) \notin T
  BY <1>1, <1>2, <1>3, <1>8
<1>10. f[to(m)] \in Positions
  BY <1>8, <1>9
<1>11. [f[to(m)] EXCEPT !.y = @ + 1] \in Positions
  BY <1>10 DEF Positions
<1> QED BY <1>3, <1>4, <1>7, <1>11

\* The row in which linesPosOnScreen finds cell x is the last that starts
\* before it, and its column is in the row.
Shown(r, line, x, maxX, p) ==
  \E k \in DOMAIN r :
    /\ r[k] <= x /\ (k < Len(r) => x < r[k + 1])
    /\ p = [x |-> LineWidth(SubSeq(line, r[k] + 1, x)), y |-> k - 1]
    /\ LineWidth(SubSeq(line, r[k] + 1, x)) \in 0 .. maxX - 1

\* The row that linesPosOnScreen finds is the row of viewLines that x is in.
LEMMA PosShown ==
  ASSUME NEW line \in Seq(Cells), NEW maxX, Fits(maxX), NEW x \in Nat, x < Len(line),
         NEW f, StartsFrom(line, maxX, f), NEW g, PosFrom(line, x, maxX, g),
         NEW s \in 0 .. x
  PROVE  Shown(f[s], line, x, maxX, g[s])
<1> DEFINE L == Len(line)
           to(i) == i + RowAt(line, i, maxX)
           w(i) == LineWidth(SubSeq(line, i + 1, x))
           T == {i \in 0 .. x : ~Shown(f[i], line, x, maxX, g[i])}
<1> SUFFICES ASSUME T # {} PROVE FALSE
  OBVIOUS
<1>1. L \in Nat /\ maxX \in Nat
  BY DEF Fits
<1>2. PICK m \in T : \A i \in T : m >= i
  <2>1. T \subseteq Nat /\ \A i \in T : i <= x
    OBVIOUS
  <2> HIDE DEF T
  <2> QED BY <2>1, Greatest
<1>3. m \in 0 .. x /\ m \in Nat /\ ~Shown(f[m], line, x, maxX, g[m])
  OBVIOUS
<1>4. m \in 0 .. L /\ x \in m .. L
  BY <1>1, <1>3
<1>5. f[m] = <<m>> \o (IF to(m) < L THEN f[to(m)] ELSE <<>>)
  BY <1>4, StartsAt
<1>6. g[m] = IF x < to(m) THEN [x |-> w(m), y |-> 0]
             ELSE IF to(m) = L THEN [x |-> x - to(m) + LineWidth(Drop(line, m)), y |-> 0]
             ELSE [g[to(m)] EXCEPT !.y = @ + 1]
  BY <1>4, PosAt
<1>7. /\ to(m) \in 0 .. L /\ (to(m) < L => to(m) > m)
      /\ w(m) \in Nat /\ (x < to(m) => w(m) < maxX)
  BY <1>4, RowAtType
<1>8. Ascending(f[m], m)
  BY <1>4, StartsAscend
<1>9. to(m) < L => Ascending(f[to(m)], to(m))
  BY <1>7, StartsAscend
<1> HIDE DEF to
<1>10. CASE x < to(m)
  <2>1. 1 \in DOMAIN f[m] /\ f[m][1] = m
    BY <1>8 DEF Ascending
  <2>2. 1 < Len(f[m]) => x < f[m][2]
    <3>1. CASE to(m) < L
      <4>1. f[to(m)][1] = to(m) /\ 1 \in DOMAIN f[to(m)]
        BY <1>9, <3>1 DEF Ascending
      <4>2. f[m] = <<m>> \o f[to(m)]
        BY <1>5, <3>1
      <4>3. m < to(m) /\ to(m) \in Nat
        BY <1>7, <3>1
      <4>4. \A i \in DOMAIN f[to(m)] : f[m][i + 1] = f[to(m)][i]
        BY <1>3, <1>9, <3>1, <4>2, <4>3, AscendingMore
      <4>5. f[m][2] = to(m)
        <5>1. 1 + 1 = 2
          OBVIOUS
        <5> QED BY <4>1, <4>4, <5>1
      <4> QED BY <1>10, <4>5
    <3>2. CASE ~(to(m) < L)
      <4>1. <<m>> \o <<>> = <<m>>
        OBVIOUS
      <4>2. Len(f[m]) = 1
        BY <1>5, <3>2, <4>1
      <4> QED BY <4>2
    <3> QED BY <3>1, <3>2
  <2>3. g[m] = [x |-> w(m), y |-> 1 - 1] /\ w(m) \in 0 .. maxX - 1
    BY <1>1, <1>6, <1>7, <1>10
  <2>4. m <= x /\ 1 + 1 = 2
    BY <1>3
  <2>5. Shown(f[m], line, x, maxX, g[m])
    BY <2>1, <2>2, <2>3, <2>4 DEF Shown
  <2> QED BY <1>3, <2>5
<1>11. CASE ~(x < to(m))
  <2>1. to(m) < L /\ to(m) > m /\ to(m) \in 0 .. x /\ to(m) # L
    BY <1>1, <1>3, <1>7, <1>11
  <2>2. to(m) \notin T
    BY <1>2, <1>3, <2>1
  <2>3. Shown(f[to(m)], line, x, maxX, g[to(m)])
    BY <2>1, <2>2
  <2> DEFINE r == f[to(m)]
             q == f[m]
  <2>4. q = <<m>> \o r
    BY <1>5, <2>1
  <2>5. /\ Ascending(r, to(m)) /\ Len(q) = Len(r) + 1
        /\ \A i \in DOMAIN r : i + 1 \in DOMAIN q /\ q[i + 1] = r[i]
    BY <1>3, <1>9, <2>1, <2>4, AscendingMore
  <2>6. g[m] = [g[to(m)] EXCEPT !.y = @ + 1]
    BY <1>6, <1>11, <2>1
  <2> HIDE DEF r, q
  <2>7. PICK k \in DOMAIN r :
          /\ r[k] <= x /\ (k < Len(r) => x < r[k + 1])
          /\ g[to(m)] = [x |-> LineWidth(SubSeq(line, r[k] + 1, x)), y |-> k - 1]
          /\ LineWidth(SubSeq(line, r[k] + 1, x)) \in 0 .. maxX - 1
    BY <2>3 DEF Shown, r
  <2>8. k \in 1 .. Len(r) /\ Len(r) \in Nat /\ DOMAIN r = 1 .. Len(r)
    BY <2>5 DEF Ascending
  <2>9. PICK j \in DOMAIN q : j = k + 1 /\ q[j] = r[k]
    BY <2>5
  <2>10. j < Len(q) => x < q[j + 1]
    <3>1. SUFFICES ASSUME j < Len(q) PROVE x < q[j + 1]
      OBVIOUS
    <3>2. k < Len(r) /\ j \in DOMAIN r
      BY <2>5, <2>8, <2>9, <3>1
    <3>3. q[j + 1] = r[k + 1]
      BY <2>5, <2>9, <3>2
    <3> QED BY <2>7, <3>2, <3>3
  <2> DEFINE c == LineWidth(SubSeq(line, r[k] + 1, x))
  <2>11. g[m] = [x |-> c, y |-> j - 1]
    <3>1. g[to(m)] = [x |-> c, y |-> k - 1]
      BY <2>7
    <3> HIDE DEF c
    <3>2. g[m] = [x |-> c, y |-> k - 1 + 1]
      BY <2>6, <3>1
    <3>3. k - 1 + 1 = j - 1
      BY <2>8, <2>9
    <3> QED BY <3>2, <3>3
  <2>12. LineWidth(SubSeq(line, q[j] + 1, x)) = c /\ c \in 0 .. maxX - 1
    BY <2>7, <2>9
  <2>13. Shown(q, line, x, maxX, g[m])
    <3>1. q[j] <= x
      BY <2>7, <2>9
    <3>2. g[m] = [x |-> LineWidth(SubSeq(line, q[j] + 1, x)), y |-> j - 1]
      BY <2>11, <2>12
    <3>3. LineWidth(SubSeq(line, q[j] + 1, x)) \in 0 .. maxX - 1
      BY <2>12
    <3> QED BY <2>10, <3>1, <3>2, <3>3, Zenon DEF Shown
  <2> QED BY <1>3, <2>13 DEF q
<1> QED BY <1>10, <1>11

\* The starts of the rows of a line.
LEMMA RowStartsType ==
  ASSUME NEW line \in Seq(Cells), NEW maxX, Fits(maxX)
  PROVE  Ascending(RowStarts(line, maxX), 0)
<1>1. PICK f : StartsFrom(line, maxX, f) /\ RowStarts(line, maxX) = f[0]
  BY RowStartsFrom
<1>2. 0 \in 0 .. Len(line)
  OBVIOUS
<1>3. Ascending(f[0], 0)
  BY <1>1, <1>2, StartsAscend
<1> QED BY <1>1, <1>3

\* A position folded at the right end of the view.
LEMMA FoldType ==
  ASSUME NEW x \in Nat, NEW y \in Nat, NEW m \in Nat, m > 0
  PROVE  /\ x % m \in Nat /\ x \div m \in Nat /\ y + x \div m \in Nat
         /\ x < m => x % m = x /\ x \div m = 0
OBVIOUS

\* PosInLine returns a position.
LEMMA PosInLineType ==
  ASSUME NEW line \in Seq(Cells), NEW maxX, Fits(maxX), NEW x \in Nat
  PROVE  PosInLine(line, x, maxX) \in Positions
<1>1. PICK f : /\ PosFrom(line, x, maxX, f)
               /\ PosInLine(line, x, maxX) = [x |-> f[0].x % maxX, y |-> f[0].y + f[0].x \div maxX]
  BY PosInLineFrom
<1>2. f[0] \in Positions
  <2>1. 0 \in 0 .. Len(line)
    OBVIOUS
  <2> QED BY <1>1, <2>1, PosFromType
<1>3. f[0].x \in Nat /\ f[0].y \in Nat
  BY <1>2 DEF Positions
<1>4. f[0].x % maxX \in Nat /\ f[0].y + f[0].x \div maxX \in Nat
  BY <1>3, FoldType DEF Fits
<1> QED BY <1>1, <1>4 DEF Positions

\* For a cell of the line it is the place in its row.
LEMMA PosInLineShown ==
  ASSUME NEW line \in Seq(Cells), NEW maxX, Fits(maxX), NEW x \in Nat, x < Len(line)
  PROVE  Shown(RowStarts(line, maxX), line, x, maxX, PosInLine(line, x, maxX))
<1>1. PICK f : StartsFrom(line, maxX, f) /\ RowStarts(line, maxX) = f[0]
  BY RowStartsFrom
<1>2. PICK g : /\ PosFrom(line, x, maxX, g)
               /\ PosInLine(line, x, maxX) = [x |-> g[0].x % maxX, y |-> g[0].y + g[0].x \div maxX]
  BY PosInLineFrom
<1>3. Shown(f[0], line, x, maxX, g[0])
  <2>1. 0 \in 0 .. x
    OBVIOUS
  <2> QED BY <1>1, <1>2, <2>1, PosShown
<1>4. g[0] \in Positions /\ g[0].x < maxX
  <2>1. 0 \in 0 .. Len(line)
    OBVIOUS
  <2>2. g[0] \in Positions
    BY <1>2, <2>1, PosFromType
  <2>3. g[0].x \in 0 .. maxX - 1
    BY <1>3 DEF Shown
  <2> QED BY <2>2, <2>3 DEF Fits
<1>5. g[0].x \in Nat /\ g[0].y \in Nat /\ g[0] = [x |-> g[0].x, y |-> g[0].y]
  BY <1>4 DEF Positions
<1>6. g[0].x % maxX = g[0].x /\ g[0].y + g[0].x \div maxX = g[0].y
  <2> DEFINE a == g[0].x
             b == g[0].y
  <2>1. a \in Nat /\ b \in Nat /\ a < maxX /\ maxX \in Nat /\ maxX > 0
    BY <1>4, <1>5 DEF Fits
  <2> HIDE DEF a, b
  <2>2. a % maxX = a /\ a \div maxX = 0
    BY <2>1, FoldType
  <2>3. b + a \div maxX = b
    BY <2>1, <2>2
  <2> QED BY <2>2, <2>3 DEF a, b
<1>7. PosInLine(line, x, maxX) = g[0]
  BY <1>2, <1>5, <1>6
<1> QED BY <1>1, <1>3, <1>7

\* RowsAbove: the function it computes with.
RowsFrom(ls, n, maxX, f) ==
  f = [i \in 0 .. n |-> IF i = 0 THEN 0 ELSE f[i - 1] + Len(RowStarts(ls[i], maxX))]

\* The number of rows above a line is a number.
LEMMA RowsAboveType ==
  ASSUME NEW ls \in Seq(Seq(Cells)), NEW maxX, Fits(maxX), NEW n \in 0 .. Len(ls)
  PROVE  RowsAbove(ls, n, maxX) \in Nat
<1> DEFINE X == 0 .. n
           rows(i) == Len(RowStarts(ls[i], maxX))
           base == [i \in X |-> 0]
           next == [i \in X |-> IF i = 0 THEN 0 ELSE i - 1]
           step == [i \in X |-> [v \in Nat |-> v + (IF i = 0 THEN 0 ELSE rows(i))]]
           far == [i \in X |-> i]
           g == CHOOSE f : f = [i \in 0 .. n |-> IF i = 0 THEN 0 ELSE f[i - 1] + Len(RowStarts(ls[i], maxX))]
<1>1. n \in Nat /\ \A i \in X : i # 0 => i \in 1 .. Len(ls) /\ i - 1 \in X
  OBVIOUS
<1>2. \A i \in X : i # 0 => rows(i) \in Nat
  <2> SUFFICES ASSUME NEW i \in X, i # 0 PROVE rows(i) \in Nat
    OBVIOUS
  <2>1. ls[i] \in Seq(Cells)
    BY <1>1
  <2>2. RowStarts(ls[i], maxX) \in Seq(Nat)
    BY <2>1, RowStartsType DEF Ascending
  <2> QED BY <2>2
<1> HIDE DEF rows
<1>3. base \in [X -> Nat] /\ next \in [X -> X] /\ far \in [X -> 0 .. n]
  BY <1>1
<1>4. step \in [X -> [Nat -> Nat]]
  <2>1. \A i \in X : (IF i = 0 THEN 0 ELSE rows(i)) \in Nat
    BY <1>2
  <2>2. \A i \in X : \A v \in Nat : v + (IF i = 0 THEN 0 ELSE rows(i)) \in Nat
    BY <2>1
  <2> QED BY <2>2
<1>5. \A i \in X : i \notin {0} => far[next[i]] < far[i]
  BY <1>1
<1>6. PICK f \in [X -> Nat] : Recursive(X, {0}, base, next, step, f)
  <2> HIDE DEF X, base, next, step, far
  <2> QED BY <1>1, <1>3, <1>4, <1>5, Recursion
<1>7. ASSUME NEW i \in X PROVE f[i] = IF i = 0 THEN 0 ELSE f[i - 1] + rows(i)
  <2>1. f[i] = IF i \in {0} THEN base[i] ELSE step[i][f[next[i]]]
    <3> HIDE DEF X, base, next, step
    <3> QED BY <1>6 DEF Recursive
  <2>2. CASE i = 0
    BY <2>1, <2>2
  <2>3. CASE i # 0
    <3>1. next[i] = i - 1 /\ f[i - 1] \in Nat
      BY <1>1, <1>6, <2>3
    <3>2. step[i][f[i - 1]] = f[i - 1] + rows(i)
      BY <2>3, <3>1
    <3> HIDE DEF next, step
    <3> QED BY <2>1, <2>3, <3>1, <3>2
  <2> QED BY <2>2, <2>3
<1>8. RowsFrom(ls, n, maxX, f)
  <2>1. f = [i \in X |-> f[i]]
    BY <1>6
  <2>2. f = [i \in X |-> IF i = 0 THEN 0 ELSE f[i - 1] + rows(i)]
    <3> HIDE DEF X
    <3> QED BY <1>7, <2>1
  <2> QED BY <2>2 DEF RowsFrom, rows
<1>9. RowsFrom(ls, n, maxX, g)
  BY <1>8 DEF RowsFrom
<1>10. RowsAbove(ls, n, maxX) = g[n]
  BY DEF RowsAbove
<1> HIDE DEF g
<1>11. ASSUME NEW i \in X PROVE g[i] = IF i = 0 THEN 0 ELSE g[i - 1] + rows(i)
  BY <1>9 DEF RowsFrom, rows
<1> DEFINE T == {i \in X : g[i] \notin Nat}
<1>12. T = {}
  <2> SUFFICES ASSUME T # {} PROVE FALSE
    OBVIOUS
  <2>1. PICK m \in T : \A i \in T : m <= i
    <3>1. T \subseteq Nat
      OBVIOUS
    <3> HIDE DEF T
    <3> QED BY <3>1, Least
  <2>2. m \in X /\ g[m] \notin Nat
    OBVIOUS
  <2>3. m # 0
    BY <1>11, <2>2
  <2>4. m - 1 \in X /\ ~(m <= m - 1)
    BY <1>1, <2>2, <2>3
  <2>5. g[m - 1] \in Nat
    BY <2>1, <2>4
  <2>6. g[m] = g[m - 1] + rows(m)
    BY <1>11, <2>2, <2>3
  <2>7. rows(m) \in Nat
    BY <1>2, <2>2, <2>3
  <2> QED BY <2>2, <2>5, <2>6, <2>7
<1>13. n \in X
  BY <1>1
<1> QED BY <1>10, <1>12, <1>13

\* Where linesPosOnScreen says that a position is.
LEMMA PosOnScreenType ==
  ASSUME NEW ls \in Seq(Seq(Cells)), NEW x \in Nat, NEW y \in Nat,
         NEW folded \in BOOLEAN, folded => Fits(ViewX)
  PROVE  PosOnScreen(ls, x, y, ViewX, folded) \in Positions
<1> DEFINE known == IF y < Len(ls) THEN y ELSE Len(ls)
           above == RowsAbove(ls, known, ViewX)
           inLine == IF y < Len(ls) THEN PosInLine(Line(ls, y), x, ViewX)
                     ELSE [x |-> x % ViewX, y |-> y - Len(ls) + x \div ViewX]
<1>1. CASE ~folded
  BY <1>1 DEF PosOnScreen, Positions
<1>2. CASE folded
  <2>1. Fits(ViewX) /\ ViewX \in Nat /\ ViewX > 0
    BY <1>2 DEF Fits
  <2>2. known \in 0 .. Len(ls)
    OBVIOUS
  <2>3. above \in Nat
    <3> HIDE DEF known
    <3> QED BY <2>1, <2>2, RowsAboveType
  <2>4. inLine \in Positions
    <3>1. CASE y < Len(ls)
      <4>1. Line(ls, y) \in Seq(Cells)
        BY <3>1 DEF Line
      <4> QED BY <2>1, <3>1, <4>1, PosInLineType
    <3>2. CASE ~(y < Len(ls))
      <4>1. y - Len(ls) \in Nat
        BY <3>2
      <4>2. x % ViewX \in Nat /\ y - Len(ls) + x \div ViewX \in Nat
        BY <2>1, <4>1, FoldType
      <4> QED BY <3>2, <4>2 DEF Positions
    <3> QED BY <3>1, <3>2
  <2>5. PosOnScreen(ls, x, y, ViewX, folded) = [x |-> inLine.x, y |-> above + inLine.y]
    BY <1>2 DEF PosOnScreen
  <2> HIDE DEF above, inLine
  <2>6. inLine.x \in Nat /\ above + inLine.y \in Nat
    BY <2>3, <2>4 DEF Positions
  <2> QED BY <2>5, <2>6 DEF Positions
<1> QED BY <1>1, <1>2

\* The last of ascending numbers that is not above x.
LEMMA LastStart ==
  ASSUME NEW s, NEW r, Ascending(r, s), NEW x \in Nat, NEW k \in DOMAIN r,
         r[k] <= x, k < Len(r) => x < r[k + 1]
  PROVE  Max({i \in DOMAIN r : r[i] <= x}) = k
<1> DEFINE K == {i \in DOMAIN r : r[i] <= x}
<1>1. r \in Seq(Nat) /\ Len(r) \in Nat /\ DOMAIN r = 1 .. Len(r)
  BY DEF Ascending
<1>2. K \subseteq 0 .. Len(r) /\ K # {} /\ k \in K
  BY <1>1
<1>3. ASSUME NEW i \in K PROVE i <= k
  <2> SUFFICES ASSUME ~(i <= k) PROVE FALSE
    OBVIOUS
  <2>1. i \in 1 .. Len(r) /\ r[i] <= x /\ r[i] \in Nat /\ k \in 1 .. Len(r)
    BY <1>1
  <2>2. k < Len(r) /\ k + 1 \in 1 .. Len(r) /\ (k + 1 = i \/ k + 1 < i)
    BY <2>1
  <2>3. x < r[k + 1] /\ r[k + 1] \in Nat
    BY <1>1, <2>2
  <2>4. k + 1 < i => r[k + 1] < r[i]
    BY <1>1, <2>1, <2>2 DEF Ascending
  <2> QED BY <2>1, <2>2, <2>3, <2>4
<1> HIDE DEF K
<1>4. Max(K) \in K /\ \A i \in K : i <= Max(K)
  BY <1>1, <1>2, Extremes
<1>5. Max(K) <= k /\ k <= Max(K) /\ Max(K) \in Nat /\ k \in Nat
  BY <1>1, <1>2, <1>3, <1>4
<1>6. Max(K) = k
  BY <1>5
<1> QED BY <1>6 DEF K

-----------------------------------------------------------------------------
(* The invariant.                                                          *)

\* CursorInText and MovesIntoView, of any lines, cursor and origin.
InText(ls, x, y) == IF ls = <<>> THEN x = 0 ELSE y < Len(ls) /\ x <= Len(Line(ls, y))

InView(ls, x, y, left, top) ==
  LET p == PosOnScreen(ls, x, y, ViewX, wrap)
  IN p.y \in top .. top + ViewY - 1 /\ (wrap \/ p.x \in left .. left + ViewX - 1)

\* The loop to the end of a line is on the last one: the cursor goes no
\* further than that.
EditorInv ==
  /\ TypeOK /\ CursorInText /\ wrap \in Wraps
  /\ mode = "end" => cy + 1 >= Len(lines)

\* A view that wraps is as wide as each rune.
LEMMA ViewFits == EditorInv /\ wrap => Fits(ViewX)
<1> SUFFICES ASSUME EditorInv, wrap PROVE Fits(ViewX)
  OBVIOUS
<1>1. wrap = TRUE
  BY DEF EditorInv, TypeOK
<1>2. TRUE \in Wraps
  BY <1>1 DEF EditorInv
<1>3. Wide # {} => ViewX > 1
  BY <1>2, SizeAssumption
<1>4. ViewX \in Nat /\ ViewX > 0
  BY SizeAssumption
<1> QED BY <1>3, <1>4 DEF Fits

\* With Wrap the cursor is shown on its rune: from the types alone.
LEMMA CursorShown == EditorInv => CursorOnItsRune
<1> SUFFICES ASSUME EditorInv, wrap, CanDelete(lines, cx, cy)
             PROVE  PosOnScreen(lines, cx, cy, ViewX, wrap) = DrawnAt(cx, cy)
  BY DEF CursorOnItsRune
<1> DEFINE line == Line(lines, cy)
           starts == RowStarts(line, ViewX)
           p == PosInLine(line, cx, ViewX)
           above == RowsAbove(lines, cy, ViewX)
<1>1. Fits(ViewX)
  BY ViewFits
<1>2. lines \in Seq(Seq(Cells)) /\ cx \in Nat /\ cy \in Nat /\ cy < Len(lines) /\ cx < Len(line)
  BY DEF EditorInv, TypeOK, CanDelete
<1>3. line \in Seq(Cells) /\ cy \in 0 .. Len(lines)
  BY <1>2 DEF Line
<1>4. above \in Nat
  BY <1>1, <1>2, <1>3, RowsAboveType
<1>5. PosOnScreen(lines, cx, cy, ViewX, wrap) = [x |-> p.x, y |-> above + p.y]
  BY <1>2 DEF PosOnScreen
<1> HIDE DEF line
<1>6. Shown(starts, line, cx, ViewX, p) /\ Ascending(starts, 0)
  BY <1>1, <1>2, <1>3, PosInLineShown, RowStartsType
<1> DEFINE last == Max({i \in DOMAIN starts : starts[i] <= cx})
<1>7. DrawnAt(cx, cy) = [x |-> LineWidth(SubSeq(line, starts[last] + 1, cx)), y |-> above + last - 1]
  BY DEF DrawnAt, line
<1> HIDE DEF starts, p, above
<1>8. PICK k \in DOMAIN starts :
        /\ starts[k] <= cx /\ (k < Len(starts) => cx < starts[k + 1])
        /\ p = [x |-> LineWidth(SubSeq(line, starts[k] + 1, cx)), y |-> k - 1]
        /\ LineWidth(SubSeq(line, starts[k] + 1, cx)) \in 0 .. ViewX - 1
  BY <1>6 DEF Shown
<1>9. last = k
  BY <1>2, <1>6, <1>8, LastStart
<1> HIDE DEF last
<1> DEFINE w == LineWidth(SubSeq(line, starts[k] + 1, cx))
<1>10. p = [x |-> w, y |-> k - 1]
  BY <1>8
<1>11. DrawnAt(cx, cy) = [x |-> w, y |-> above + k - 1]
  BY <1>7, <1>9
<1> HIDE DEF w
<1>12. p.x = w /\ p.y = k - 1
  BY <1>10
<1>13. k \in Nat
  BY <1>6 DEF Ascending
<1>14. above + p.y = above + k - 1
  BY <1>4, <1>12, <1>13
<1> QED BY <1>5, <1>11, <1>12, <1>14

-----------------------------------------------------------------------------
(* What the operations do to the lines.                                    *)

\* Dropping the first n.
LEMMA DropSome ==
  ASSUME NEW S, NEW s \in Seq(S), NEW n \in Nat
  PROVE  /\ Drop(s, n) \in Seq(S) /\ Len(Drop(s, n)) = IF n <= Len(s) THEN Len(s) - n ELSE 0
         /\ \A i \in 1 .. Len(s) - n : Drop(s, n)[i] = s[n + i]
BY DEF Drop

\* Padding up to n elements.
LEMMA PadSome ==
  ASSUME NEW S, NEW s \in Seq(S), NEW n \in Int, NEW e \in S
  PROVE  /\ Pad(s, n, e) \in Seq(S)
         /\ Len(Pad(s, n, e)) = IF n > Len(s) THEN n ELSE Len(s)
         /\ \A i \in 1 .. Len(s) : Pad(s, n, e)[i] = s[i]
<1> DEFINE k == IF n > Len(s) THEN n - Len(s) ELSE 0
           more == [i \in 1 .. k |-> e]
<1>1. k \in Nat /\ Len(s) \in Nat
  OBVIOUS
<1>2. more \in Seq(S) /\ Len(more) = k
  <2> HIDE DEF k
  <2> QED BY <1>1
<1>3. Pad(s, n, e) = s \o more
  BY DEF Pad
<1> HIDE DEF more
<1>4. /\ s \o more \in Seq(S) /\ Len(s \o more) = Len(s) + k
      /\ \A i \in 1 .. Len(s) : (s \o more)[i] = s[i]
  <2> HIDE DEF k
  <2> QED BY <1>1, <1>2
<1>5. Len(s) + k = IF n > Len(s) THEN n ELSE Len(s)
  OBVIOUS
<1> HIDE DEF k
<1> QED BY <1>3, <1>4, <1>5

\* One more element, and several.
LEMMA OneAfter ==
  ASSUME NEW S, NEW s \in Seq(S), NEW e \in S
  PROVE  s \o <<e>> \in Seq(S) /\ Len(s \o <<e>>) = Len(s) + 1 /\ (s \o <<e>>)[Len(s) + 1] = e
OBVIOUS

\* A sequence behind another.
LEMMA OthersAfter ==
  ASSUME NEW S, NEW s \in Seq(S), NEW t \in Seq(S)
  PROVE  /\ s \o t \in Seq(S) /\ Len(s \o t) = Len(s) + Len(t)
         /\ \A i \in 1 .. Len(s) : (s \o t)[i] = s[i]
OBVIOUS

\* What v.lines can be.
Texts == Seq(Seq(Cells))

\* A rune written at (x, y) is in the text, with the place behind it.
LEMMA WriteRuneType ==
  ASSUME NEW ls \in Texts, NEW x \in Nat, NEW y \in Nat, NEW ch \in Cells, NEW over \in BOOLEAN
  PROVE  /\ WriteRune(ls, x, y, ch, over) \in Texts
         /\ Len(WriteRune(ls, x, y, ch, over)) = IF y + 1 > Len(ls) THEN y + 1 ELSE Len(ls)
         /\ WriteRune(ls, x, y, ch, over) # <<>>
         /\ y < Len(WriteRune(ls, x, y, ch, over))
         /\ x + 1 <= Len(Line(WriteRune(ls, x, y, ch, over), y))
<1> DEFINE all == Pad(ls, y + 1, <<>>)
           old == Line(all, y)
           line == Pad(old, x, NUL)
           from == IF over THEN x + 1 ELSE x
           rest == Drop(line, from)
           new == SubSeq(line, 1, x) \o <<ch>> \o rest
           out == WriteRune(ls, x, y, ch, over)
<1>1. out = [all EXCEPT ![y + 1] = new]
  BY DEF WriteRune
<1>2. <<>> \in Seq(Cells) /\ NUL \in Cells /\ y + 1 \in Int
  BY DEF Cells
<1>3. all \in Texts /\ Len(all) = IF y + 1 > Len(ls) THEN y + 1 ELSE Len(ls)
  <2> DEFINE S == Seq(Cells)
             e == <<>>
  <2>1. PICK k : k = y + 1
    OBVIOUS
  <2>2. ls \in Seq(S) /\ k \in Int /\ e \in S
    BY <1>2, <2>1 DEF Texts
  <2> HIDE DEF S, e
  <2>3. /\ Pad(ls, k, e) \in Seq(S)
        /\ Len(Pad(ls, k, e)) = IF k > Len(ls) THEN k ELSE Len(ls)
    BY <2>2, PadSome
  <2> QED BY <2>1, <2>3 DEF S, e, Texts
<1> HIDE DEF all
<1>4. y + 1 \in 1 .. Len(all) /\ Len(ls) \in Nat
  BY <1>3 DEF Texts
<1>5. old \in Seq(Cells)
  BY <1>3, <1>4 DEF Line, Texts
<1> HIDE DEF old
<1>6. line \in Seq(Cells) /\ Len(line) = IF x > Len(old) THEN x ELSE Len(old)
  BY <1>2, <1>5, PadSome
<1> HIDE DEF line
<1>7. x \in 0 .. Len(line) /\ from \in Nat
  BY <1>5, <1>6
<1>8. rest \in Seq(Cells)
  BY <1>6, <1>7, DropSome
<1> HIDE DEF rest, from
<1>9. SubSeq(line, 1, x) \in Seq(Cells) /\ Len(SubSeq(line, 1, x)) = x
  BY <1>6, <1>7, SubSeqType
<1> DEFINE first == SubSeq(line, 1, x)
<1>10. first \in Seq(Cells) /\ Len(first) = x
  BY <1>9
<1> HIDE DEF first
<1>11. first \o <<ch>> \o rest \in Seq(Cells) /\ Len(first \o <<ch>> \o rest) >= x + 1
  BY <1>8, <1>10
<1>12. new \in Seq(Cells) /\ Len(new) >= x + 1
  BY <1>11 DEF first
<1> HIDE DEF new
<1>13. out \in Texts /\ Len(out) = Len(all) /\ out[y + 1] = new
  BY <1>1, <1>3, <1>4, <1>12 DEF Texts
<1> HIDE DEF out
<1>14. Line(out, y) = new
  BY <1>13 DEF Line
<1>15. y < Len(out) /\ out # <<>>
  BY <1>4, <1>13
<1> QED BY <1>3, <1>12, <1>13, <1>14, <1>15 DEF out

\* Deleting the cell at (x, y) leaves as many lines, and the place.
LEMMA DeleteRuneType ==
  ASSUME NEW ls \in Texts, NEW x \in Nat, NEW y \in Nat, CanDelete(ls, x, y)
  PROVE  /\ DeleteRune(ls, x, y) \in Texts /\ Len(DeleteRune(ls, x, y)) = Len(ls)
         /\ Len(Line(DeleteRune(ls, x, y), y)) = Len(Line(ls, y)) - 1
<1> DEFINE line == Line(ls, y)
           new == SubSeq(line, 1, x) \o Drop(line, x + 1)
           out == DeleteRune(ls, x, y)
<1>1. out = [ls EXCEPT ![y + 1] = new]
  BY DEF DeleteRune, Line
<1>2. y + 1 \in 1 .. Len(ls) /\ x < Len(line)
  BY DEF CanDelete
<1>3. line \in Seq(Cells)
  BY <1>2 DEF Line, Texts
<1> HIDE DEF line
<1>4. SubSeq(line, 1, x) \in Seq(Cells) /\ Len(SubSeq(line, 1, x)) = x
  BY <1>2, <1>3, SubSeqType
<1>5. Drop(line, x + 1) \in Seq(Cells) /\ Len(Drop(line, x + 1)) = Len(line) - (x + 1)
  <2>1. x + 1 \in Nat /\ x + 1 <= Len(line)
    BY <1>2, <1>3
  <2> QED BY <1>3, <2>1, DropSome
<1>6. new \in Seq(Cells) /\ Len(new) = Len(line) - 1
  BY <1>2, <1>3, <1>4, <1>5
<1> HIDE DEF new
<1>7. out \in Texts /\ Len(out) = Len(ls) /\ out[y + 1] = new
  BY <1>1, <1>2, <1>6 DEF Texts
<1> HIDE DEF out
<1> QED BY <1>6, <1>7 DEF out, line, Line

\* Merging line y with the next keeps its cells in place.
LEMMA MergeLinesType ==
  ASSUME NEW ls \in Texts, NEW y \in Nat, y + 1 < Len(ls)
  PROVE  /\ MergeLines(ls, y) \in Texts /\ Len(MergeLines(ls, y)) = Len(ls) - 1
         /\ Line(MergeLines(ls, y), y) = Line(ls, y) \o Line(ls, y + 1)
         /\ Len(Line(MergeLines(ls, y), y)) = Len(Line(ls, y)) + Len(Line(ls, y + 1))
<1> DEFINE one == Line(ls, y)
           two == Line(ls, y + 1)
           first == SubSeq(ls, 1, y)
           rest == Drop(ls, y + 2)
           both == one \o two
           out == MergeLines(ls, y)
<1>1. out = first \o <<both>> \o rest
  BY DEF MergeLines
<1>2. one \in Seq(Cells) /\ two \in Seq(Cells)
  BY DEF Line, Texts
<1>3. first \in Texts /\ Len(first) = y
  BY SubSeqType DEF Texts
<1>4. rest \in Texts /\ Len(rest) = Len(ls) - (y + 2)
  <2>1. y + 2 \in Nat /\ y + 2 <= Len(ls)
    BY DEF Texts
  <2> QED BY <2>1, DropSome DEF Texts
<1> HIDE DEF one, two, first, rest
<1>5. both \in Seq(Cells) /\ Len(both) = Len(one) + Len(two)
  BY <1>2
<1> HIDE DEF both
<1>6. /\ first \o <<both>> \o rest \in Texts
      /\ Len(first \o <<both>> \o rest) = Len(ls) - 1
      /\ (first \o <<both>> \o rest)[y + 1] = both
  <2> DEFINE upto == first \o <<both>>
  <2>1. upto \in Texts /\ Len(upto) = y + 1 /\ upto[y + 1] = both
    BY <1>3, <1>5, OneAfter DEF Texts
  <2> HIDE DEF upto
  <2>2. /\ upto \o rest \in Texts /\ Len(upto \o rest) = Len(upto) + Len(rest)
        /\ (upto \o rest)[y + 1] = both
    <3>1. /\ upto \o rest \in Texts /\ Len(upto \o rest) = Len(upto) + Len(rest)
          /\ \A i \in 1 .. Len(upto) : (upto \o rest)[i] = upto[i]
      BY <1>4, <2>1, OthersAfter DEF Texts
    <3>2. y + 1 \in 1 .. Len(upto)
      BY <2>1
    <3> QED BY <2>1, <3>1, <3>2
  <2>3. Len(upto) + Len(rest) = Len(ls) - 1
    BY <1>4, <2>1 DEF Texts
  <2> QED BY <2>2, <2>3 DEF upto
<1> HIDE DEF out
<1>7. Line(out, y) = both
  BY <1>1, <1>6 DEF Line
<1> QED BY <1>1, <1>5, <1>6, <1>7 DEF out, both, one, two

\* Breaking line y adds one behind it.
LEMMA BreakLineType ==
  ASSUME NEW ls \in Texts, NEW x \in Nat, NEW y \in Nat
  PROVE  /\ BreakLine(ls, x, y) \in Texts
         /\ y < Len(ls) => Len(BreakLine(ls, x, y)) = Len(ls) + 1
         /\ ~(y < Len(ls)) => BreakLine(ls, x, y) = ls
<1>1. CASE ~(y < Len(ls))
  BY <1>1 DEF BreakLine
<1>2. CASE y < Len(ls)
  <2> DEFINE line == Line(ls, y)
             at == IF x < Len(line) THEN x ELSE Len(line)
             first == SubSeq(ls, 1, y)
             rest == Drop(ls, y + 1)
             head == SubSeq(line, 1, at)
             tail == Drop(line, at)
             out == BreakLine(ls, x, y)
  <2>1. out = first \o <<head, tail>> \o rest
    BY <1>2 DEF BreakLine
  <2>2. line \in Seq(Cells)
    BY <1>2 DEF Line, Texts
  <2> HIDE DEF line
  <2>3. at \in 0 .. Len(line) /\ at \in Nat
    BY <2>2
  <2> HIDE DEF at
  <2>4. head \in Seq(Cells) /\ tail \in Seq(Cells)
    BY <2>2, <2>3, SubSeqType, DropSome
  <2>5. first \in Texts /\ Len(first) = y
    BY <1>2, SubSeqType DEF Texts
  <2>6. rest \in Texts /\ Len(rest) = Len(ls) - (y + 1)
    <3>1. y + 1 \in Nat /\ y + 1 <= Len(ls)
      BY <1>2 DEF Texts
    <3> QED BY <3>1, DropSome DEF Texts
  <2> HIDE DEF first, rest, head, tail
  <2>7. /\ first \o <<head, tail>> \o rest \in Texts
        /\ Len(first \o <<head, tail>> \o rest) = Len(ls) + 1
    <3> DEFINE two == <<head, tail>>
               upto == first \o two
    <3>1. two \in Texts /\ Len(two) = 2
      BY <2>4 DEF Texts
    <3> HIDE DEF two
    <3>2. upto \in Texts /\ Len(upto) = y + 2
      <4>1. first \o two \in Texts /\ Len(first \o two) = Len(first) + Len(two)
        BY <2>5, <3>1, OthersAfter DEF Texts
      <4> QED BY <2>5, <3>1, <4>1
    <3> HIDE DEF upto
    <3>3. upto \o rest \in Texts /\ Len(upto \o rest) = Len(upto) + Len(rest)
      BY <2>6, <3>2, OthersAfter DEF Texts
    <3>4. Len(upto) + Len(rest) = Len(ls) + 1
      BY <2>6, <3>2 DEF Texts
    <3> QED BY <3>3, <3>4 DEF upto, two
  <2> HIDE DEF out
  <2>8. out \in Texts /\ Len(out) = Len(ls) + 1
    BY <2>1, <2>7
  <2> QED BY <1>2, <2>8 DEF out
<1> QED BY <1>1, <1>2

-----------------------------------------------------------------------------
(* Where MoveCursor goes, and what is shown then.                          *)

\* The types, as the lemmas on the moves use them.
LEMMA Types ==
  EditorInv => /\ lines \in Texts /\ cx \in Nat /\ cy \in Nat /\ ox \in Nat /\ oy \in Nat
               /\ wrap \in BOOLEAN /\ InText(lines, cx, cy)
BY DEF EditorInv, TypeOK, CursorInText, InText, Texts

\* The length of a line of the text.
LEMMA LineType ==
  ASSUME NEW ls \in Texts, NEW y \in Nat, y < Len(ls)
  PROVE  Line(ls, y) \in Seq(Cells) /\ Len(Line(ls, y)) \in Nat
BY DEF Line, Texts

\* A move ends in the text, wherever it begins.
LEMMA TargetInText ==
  ASSUME cx \in Nat, cy \in Nat, NEW ls \in Texts, NEW dx \in Int, NEW dy \in Int
  PROVE  /\ Target(ls, dx, dy)[1] \in Nat /\ Target(ls, dx, dy)[2] \in Nat
         /\ InText(ls, Target(ls, dx, dy)[1], Target(ls, dx, dy)[2])
<1>1. CASE ls = <<>>
  BY <1>1 DEF Target, InText
<1>2. CASE ls # <<>>
  <2> DEFINE y == Clamp(cy + dy, 0, Len(ls) - 1)
             x == cx + dx
             t == Target(ls, dx, dy)
             len(j) == Len(Line(ls, j))
  <2>1. Len(ls) \in Nat /\ Len(ls) > 0
    BY <1>2 DEF Texts
  <2>2. y \in Nat /\ y < Len(ls) /\ x \in Int
    BY <2>1 DEF Clamp
  <2>3. t = IF x > len(y)
            THEN IF dy = 0 /\ y + 1 < Len(ls) THEN <<0, y + 1>> ELSE <<len(y), y>>
            ELSE IF x >= 0 THEN <<x, y>>
            ELSE IF y > 0 THEN <<len(y - 1), y - 1>> ELSE <<0, 0>>
    BY <1>2 DEF Target
  <2>4. \A j \in Nat : j < Len(ls) => len(j) \in Nat
    BY LineType
  <2>5. len(y) \in Nat
    BY <2>2, <2>4
  <2>6. y > 0 => y - 1 \in Nat /\ y - 1 < Len(ls)
    BY <2>1, <2>2
  <2>7. y > 0 => len(y - 1) \in Nat
    BY <2>4, <2>6
  <2>8. len(0) \in Nat /\ (y + 1 < Len(ls) => len(y + 1) \in Nat)
    BY <2>1, <2>2, <2>4
  <2> HIDE DEF x, y, t, len
  <2>9. t[1] \in Nat /\ t[2] \in Nat /\ t[2] < Len(ls) /\ t[1] <= len(t[2])
    <3>1. CASE x > len(y) /\ dy = 0 /\ y + 1 < Len(ls)
      <4>1. t = <<0, y + 1>>
        BY <2>3, <3>1
      <4>2. t[1] = 0 /\ t[2] = y + 1
        BY <4>1
      <4>3. len(t[2]) = len(y + 1)
        BY <4>2
      <4> QED BY <2>2, <2>8, <3>1, <4>2, <4>3
    <3>2. CASE x > len(y) /\ ~(dy = 0 /\ y + 1 < Len(ls))
      <4>1. t = <<len(y), y>>
        BY <2>3, <3>2
      <4>2. t[1] = len(y) /\ t[2] = y
        BY <4>1
      <4> QED BY <2>2, <2>5, <4>2
    <3>3. CASE ~(x > len(y)) /\ x >= 0
      <4>1. t = <<x, y>>
        BY <2>3, <3>3
      <4>2. t[1] = x /\ t[2] = y
        BY <4>1
      <4> QED BY <2>2, <2>5, <3>3, <4>2
    <3>4. CASE ~(x > len(y)) /\ ~(x >= 0) /\ y > 0
      <4>1. t = <<len(y - 1), y - 1>>
        BY <2>3, <3>4
      <4>2. t[1] = len(y - 1) /\ t[2] = y - 1
        BY <4>1
      <4>3. len(t[2]) = len(y - 1)
        BY <4>2
      <4> QED BY <2>6, <2>7, <3>4, <4>2, <4>3
    <3>5. CASE ~(x > len(y)) /\ ~(x >= 0) /\ ~(y > 0)
      <4>1. t = <<0, 0>>
        BY <2>3, <3>5
      <4>2. t[1] = 0 /\ t[2] = 0
        BY <4>1
      <4> QED BY <2>1, <2>8, <4>2
    <3> QED BY <3>1, <3>2, <3>3, <3>4, <3>5
  <2> QED BY <1>2, <2>9 DEF InText, t, len
<1> QED BY <1>1, <1>2

\* The new offset is one, and shows the position.
LEMMA ScrolledShows ==
  ASSUME NEW o \in Nat, NEW p \in Nat, NEW size \in Nat, size > 0
  PROVE  /\ Scrolled(o, p, size) \in Nat
         /\ p \in Scrolled(o, p, size) .. Scrolled(o, p, size) + size - 1
BY DEF Scrolled

\* The same with the preview to the left.
LEMMA ScrolledXShows ==
  ASSUME NEW o \in Nat, NEW x \in Nat
  PROVE  ScrolledX(o, x) \in Nat /\ x \in ScrolledX(o, x) .. ScrolledX(o, x) + ViewX - 1
<1> DEFINE right == IF x > o + ViewX - 1 THEN x - ViewX + 1 ELSE o
           p == Preview(x)
<1>1. ViewX \in Nat /\ ViewX > 0
  BY SizeAssumption
<1>2. p \in Nat /\ p <= x /\ p <= ViewX - 1
  BY <1>1 DEF Preview
<1>3. right \in Nat /\ x <= right + ViewX - 1
  BY <1>1
<1>4. ScrolledX(o, x) = IF x - p < right THEN x - p ELSE right
  BY DEF ScrolledX
<1> HIDE DEF right, p
<1> QED BY <1>1, <1>2, <1>3, <1>4

\* What a move over the lines ls leaves: the cursor in the text and shown.
Arrives(ls) ==
  /\ cx' \in Nat /\ cy' \in Nat /\ ox' \in Nat /\ oy' \in Nat
  /\ InText(ls, cx', cy')
  /\ ls # <<>> => InView(ls, cx', cy', ox', oy')

\* MoveCursor arrives, with any arguments and over any lines.
LEMMA MoveOverArrives ==
  ASSUME EditorInv, NEW ls \in Texts, NEW dx \in Int, NEW dy \in Int, MoveOver(ls, dx, dy)
  PROVE  Arrives(ls)
<1> DEFINE t == Target(ls, dx, dy)
           p == PosOnScreen(ls, t[1], t[2], ViewX, wrap)
<1>1. cx \in Nat /\ cy \in Nat /\ ox \in Nat /\ oy \in Nat /\ wrap \in BOOLEAN
  BY Types
<1>2. t[1] \in Nat /\ t[2] \in Nat /\ InText(ls, t[1], t[2])
  BY <1>1, TargetInText
<1>3. cx' = t[1] /\ cy' = t[2]
  BY DEF MoveOver
<1>4. ls = <<>> => ox' = ox /\ oy' = oy
  BY DEF MoveOver
<1>5. ls # <<>> => oy' = Scrolled(oy, p.y, ViewY) /\ ox' = IF wrap THEN ox ELSE ScrolledX(ox, p.x)
  BY DEF MoveOver
<1> HIDE DEF t
<1>6. p.x \in Nat /\ p.y \in Nat
  <2>1. wrap => Fits(ViewX)
    BY ViewFits
  <2>2. p \in Positions
    BY <1>1, <1>2, <2>1, PosOnScreenType DEF Texts
  <2> HIDE DEF p
  <2> QED BY <2>2 DEF Positions
<1>7. ls # <<>> => oy' \in Nat /\ p.y \in oy' .. oy' + ViewY - 1
  <2> DEFINE py == p.y
  <2>1. ls # <<>> => oy' = Scrolled(oy, py, ViewY)
    BY <1>5
  <2>2. py \in Nat
    BY <1>6
  <2> HIDE DEF py
  <2>3. Scrolled(oy, py, ViewY) \in Nat
        /\ py \in Scrolled(oy, py, ViewY) .. Scrolled(oy, py, ViewY) + ViewY - 1
    BY <1>1, <2>2, SizeAssumption, ScrolledShows
  <2>4. ls # <<>> => oy' \in Nat /\ py \in oy' .. oy' + ViewY - 1
    BY <2>1, <2>3
  <2> QED BY <2>4 DEF py
<1>8. ls # <<>> => ox' \in Nat /\ (wrap \/ p.x \in ox' .. ox' + ViewX - 1)
  <2> DEFINE px == p.x
  <2>1. ls # <<>> => ox' = IF wrap THEN ox ELSE ScrolledX(ox, px)
    BY <1>5
  <2>2. px \in Nat
    BY <1>6
  <2> HIDE DEF px
  <2>3. ScrolledX(ox, px) \in Nat /\ px \in ScrolledX(ox, px) .. ScrolledX(ox, px) + ViewX - 1
    BY <1>1, <2>2, ScrolledXShows
  <2>4. ls # <<>> => ox' \in Nat /\ (wrap \/ px \in ox' .. ox' + ViewX - 1)
    BY <1>1, <2>1, <2>3
  <2> QED BY <2>4 DEF px
<1>9. ls # <<>> => InView(ls, cx', cy', ox', oy')
  <2>1. InView(ls, t[1], t[2], ox', oy') <=>
          p.y \in oy' .. oy' + ViewY - 1 /\ (wrap \/ p.x \in ox' .. ox' + ViewX - 1)
    BY DEF InView
  <2> HIDE DEF p
  <2> QED BY <1>3, <1>7, <1>8, <2>1
<1>10. ox' \in Nat /\ oy' \in Nat
  BY <1>1, <1>4, <1>7, <1>8
<1> QED BY <1>2, <1>3, <1>9, <1>10 DEF Arrives

\* One rune to the left on its line.
LEMMA TargetLeft ==
  ASSUME cx \in Nat, cy \in Nat, NEW ls \in Texts, cy < Len(ls), cx > 0,
         cx - 1 <= Len(Line(ls, cy))
  PROVE  Target(ls, -1, 0) = <<cx - 1, cy>>
<1>1. Len(Line(ls, cy)) \in Nat /\ Len(ls) \in Nat /\ ls # <<>>
  BY LineType DEF Texts
<1>2. Clamp(cy + 0, 0, Len(ls) - 1) = cy
  BY <1>1 DEF Clamp
<1> DEFINE len == Len(Line(ls, cy))
<1>3. Target(ls, -1, 0) = IF cx + -1 > len
          THEN IF 0 = 0 /\ cy + 1 < Len(ls) THEN <<0, cy + 1>> ELSE <<len, cy>>
          ELSE IF cx + -1 >= 0 THEN <<cx + -1, cy>>
          ELSE IF cy > 0 THEN <<Len(Line(ls, cy - 1)), cy - 1>> ELSE <<0, 0>>
  BY <1>1, <1>2 DEF Target
<1> HIDE DEF len
<1>4. ~(cx + -1 > len) /\ cx + -1 >= 0 /\ cx + -1 = cx - 1
  BY <1>1 DEF len
<1> QED BY <1>3, <1>4

\* From the start of a line to the end of the one above.
LEMMA TargetUp ==
  ASSUME cx \in Nat, cy \in Nat, NEW ls \in Texts, cy < Len(ls), cx = 0, cy > 0
  PROVE  Target(ls, -1, 0) = <<Len(Line(ls, cy - 1)), cy - 1>>
<1>1. Len(Line(ls, cy)) \in Nat /\ Len(ls) \in Nat /\ ls # <<>>
  BY LineType DEF Texts
<1>2. Clamp(cy + 0, 0, Len(ls) - 1) = cy
  BY <1>1 DEF Clamp
<1> DEFINE len == Len(Line(ls, cy))
<1>3. Target(ls, -1, 0) = IF cx + -1 > len
          THEN IF 0 = 0 /\ cy + 1 < Len(ls) THEN <<0, cy + 1>> ELSE <<len, cy>>
          ELSE IF cx + -1 >= 0 THEN <<cx + -1, cy>>
          ELSE IF cy > 0 THEN <<Len(Line(ls, cy - 1)), cy - 1>> ELSE <<0, 0>>
  BY <1>1, <1>2 DEF Target
<1> HIDE DEF len
<1>4. ~(cx + -1 > len) /\ ~(cx + -1 >= 0)
  BY <1>1 DEF len
<1> QED BY <1>3, <1>4

\* To the right on the last line, or nowhere.
LEMMA TargetRight ==
  ASSUME cx \in Nat, cy \in Nat, NEW ls \in Texts, cy + 1 = Len(ls)
  PROVE  Target(ls, 1, 0) =
           IF cx + 1 > Len(Line(ls, cy)) THEN <<Len(Line(ls, cy)), cy>> ELSE <<cx + 1, cy>>
<1>1. Len(Line(ls, cy)) \in Nat /\ Len(ls) \in Nat /\ ls # <<>>
  BY LineType DEF Texts
<1>2. Clamp(cy + 0, 0, Len(ls) - 1) = cy
  BY <1>1 DEF Clamp
<1> DEFINE len == Len(Line(ls, cy))
<1>3. Target(ls, 1, 0) = IF cx + 1 > len
          THEN IF 0 = 0 /\ cy + 1 < Len(ls) THEN <<0, cy + 1>> ELSE <<len, cy>>
          ELSE IF cx + 1 >= 0 THEN <<cx + 1, cy>>
          ELSE IF cy > 0 THEN <<Len(Line(ls, cy - 1)), cy - 1>> ELSE <<0, 0>>
  BY <1>1, <1>2 DEF Target
<1> HIDE DEF len
<1>4. ~(cy + 1 < Len(ls)) /\ cx + 1 >= 0
  BY <1>1
<1>5. Target(ls, 1, 0) = IF cx + 1 > len THEN <<len, cy>> ELSE <<cx + 1, cy>>
  BY <1>3, <1>4
<1> QED BY <1>5 DEF len

-----------------------------------------------------------------------------
(* One lemma for each action.                                              *)

\* What every step leaves of the lines, the cursor and the origin.
Landed ==
  /\ lines' \in Texts /\ cx' \in Nat /\ cy' \in Nat /\ ox' \in Nat /\ oy' \in Nat
  /\ InText(lines', cx', cy')
  /\ moved' \in BOOLEAN
  /\ moved' => InView(lines', cx', cy', ox', oy')

\* The loops, and none.
Modes == {"ready", "delete", "home", "end", "back"}

\* The rest of the invariant.
LEMMA Kept ==
  ASSUME EditorInv, Landed, overwrite' \in BOOLEAN, wrap' = wrap, mode' \in Modes, prevX' \in Int,
         mode' = "end" => cy' + 1 >= Len(lines')
  PROVE  EditorInv' /\ MovesIntoView'
<1>1. wrap \in BOOLEAN /\ wrap \in Wraps
  BY DEF EditorInv, TypeOK
<1>2. TypeOK'
  BY <1>1 DEF TypeOK, Landed, Texts, Modes
<1>3. CursorInText'
  BY DEF CursorInText, Landed, InText
<1>4. EditorInv'
  BY <1>1, <1>2, <1>3 DEF EditorInv
<1>5. MovesIntoView'
  BY DEF MovesIntoView, Landed, InView
<1> QED BY <1>4, <1>5

\* Nothing moves.
LEMMA StillStep ==
  ASSUME EditorInv, Still
  PROVE  Landed /\ cx' = cx /\ cy' = cy /\ lines' = lines
BY Types DEF Still, Stay, place, Landed

\* A move over the lines as they are.
LEMMA MoveStep ==
  ASSUME EditorInv, NEW dx \in Int, NEW dy \in Int, Move(dx, dy)
  PROVE  Landed
<1>1. Arrives(lines) /\ lines' = lines
  BY Types, MoveOverArrives DEF Move
<1>2. moved' = (lines' # <<>>) /\ lines \in Texts
  BY Types DEF Move, Shows
<1> QED BY <1>1, <1>2 DEF Arrives, Landed

\* Where a step to the left goes.
LEMMA LeftStep ==
  ASSUME EditorInv, Move(-1, 0), cx > 0
  PROVE  cx' = cx - 1
<1>1. lines \in Texts /\ cx \in Nat /\ cy \in Nat /\ InText(lines, cx, cy)
  BY Types
<1>2. cy < Len(lines) /\ cx <= Len(Line(lines, cy))
  BY <1>1 DEF InText
<1>3. cx - 1 <= Len(Line(lines, cy))
  BY <1>1, <1>2, LineType
<1>4. Target(lines, -1, 0) = <<cx - 1, cy>>
  BY <1>1, <1>2, <1>3, TargetLeft
<1> QED BY <1>4 DEF Move, MoveOver

\* Where a step to the right goes on the last line.
LEMMA RightStep ==
  ASSUME EditorInv, Move(1, 0), cy + 1 >= Len(lines)
  PROVE  (cx' > cx \/ cx' = cx) /\ cy' + 1 >= Len(lines')
<1>1. /\ lines \in Texts /\ cx \in Nat /\ cy \in Nat /\ InText(lines, cx, cy)
      /\ lines' = lines /\ Len(lines) \in Nat
  BY Types DEF Move, Texts
<1>2. cx' = Target(lines, 1, 0)[1] /\ cy' = Target(lines, 1, 0)[2]
  BY DEF Move, MoveOver
<1>3. CASE lines = <<>>
  <2>1. Target(lines, 1, 0) = <<0, 0>>
    BY <1>3 DEF Target
  <2>2. cx = 0
    BY <1>1, <1>3 DEF InText
  <2>3. Len(lines) = 0
    BY <1>3
  <2> QED BY <1>1, <1>2, <2>1, <2>2, <2>3
<1>4. CASE lines # <<>>
  <2>1. cy < Len(lines) /\ cx <= Len(Line(lines, cy))
    BY <1>1, <1>4 DEF InText
  <2>2. cy + 1 = Len(lines)
    BY <1>1, <2>1
  <2>3. Len(Line(lines, cy)) \in Nat
    BY <1>1, <2>1, LineType
  <2> DEFINE len == Len(Line(lines, cy))
             t == Target(lines, 1, 0)
  <2>4. t = IF cx + 1 > len THEN <<len, cy>> ELSE <<cx + 1, cy>>
    BY <1>1, <2>2, TargetRight
  <2>5. cx' = t[1] /\ cy' = t[2] /\ len \in Nat /\ cx <= len
    BY <1>2, <2>1, <2>3
  <2> HIDE DEF len, t
  <2>6. t[2] = cy /\ (t[1] = cx + 1 \/ (t[1] = len /\ cx + 1 > len))
    BY <2>4
  <2> QED BY <1>1, <2>2, <2>5, <2>6
<1> QED BY <1>3, <1>4

\* EditDelete leaves the cursor in the text; with a rune to the left it goes
\* there.
LEMMA DeleteStep ==
  ASSUME EditorInv, NEW back \in BOOLEAN, Delete(back)
  PROVE  Landed /\ (back /\ cx > 0 => cx' < cx)
<1>1. /\ lines \in Texts /\ cx \in Nat /\ cy \in Nat /\ ox \in Nat /\ oy \in Nat
      /\ InText(lines, cx, cy) /\ Len(lines) \in Nat
  BY Types DEF Texts
<1> DEFINE line == Line(lines, cy)
<1>2. CASE cy >= Len(lines) /\ Move(-1, 0)
  <2>1. cx = 0
    BY <1>1, <1>2 DEF InText
  <2> QED BY <1>2, <2>1, MoveStep
<1>3. CASE cy < Len(lines) /\ back /\ cx = 0 /\ cy = 0 /\ Still
  BY <1>3, StillStep
<1>4. ASSUME cy < Len(lines), back, cx = 0, cy > 0,
             MoveOver(lines, -1, 0), lines' = MergeLines(lines, cy - 1), moved' = FALSE
      PROVE  Landed
  <2> DEFINE y == cy - 1
  <2>1. y \in Nat /\ y + 1 < Len(lines) /\ y < Len(lines)
    BY <1>1, <1>4
  <2>2. Arrives(lines)
    BY <1>1, <1>4, MoveOverArrives
  <2>3. Target(lines, -1, 0) = <<Len(Line(lines, cy - 1)), cy - 1>>
    BY <1>1, <1>4, TargetUp
  <2>4. cx' = Len(Line(lines, y)) /\ cy' = y
    BY <1>4, <2>3 DEF MoveOver
  <2>5. lines' = MergeLines(lines, y)
    BY <1>4
  <2> HIDE DEF y
  <2> DEFINE one == Line(lines, y)
             two == Line(lines, y + 1)
             new == MergeLines(lines, y)
  <2>6. new \in Texts /\ Len(new) = Len(lines) - 1 /\ Len(Line(new, y)) = Len(one) + Len(two)
    BY <1>1, <2>1, MergeLinesType
  <2>7. Len(one) \in Nat /\ Len(two) \in Nat
    BY <1>1, <2>1, LineType
  <2> HIDE DEF one, two, new
  <2>8. y < Len(new) /\ new # <<>>
    BY <1>1, <2>1, <2>6
  <2>9. Len(one) <= Len(Line(new, y))
    BY <2>6, <2>7
  <2>10. InText(new, cx', cy')
    BY <2>4, <2>8, <2>9 DEF InText, one
  <2> QED BY <1>4, <2>2, <2>5, <2>6, <2>10 DEF Arrives, Landed, new
<1>5. ASSUME cy < Len(lines), back, cx > 0, lines' = DeleteRune(lines, cx - 1, cy),
             IF CanDelete(lines, cx - 1, cy)
             THEN MoveOver(DeleteRune(lines, cx - 1, cy), -1, 0) /\ Shows
             ELSE Stay
      PROVE  Landed /\ cx' < cx
  <2>1. cx <= Len(line) /\ Len(line) \in Nat
    BY <1>1, <1>5, LineType DEF InText
  <2>2. cx - 1 \in Nat /\ CanDelete(lines, cx - 1, cy)
    BY <1>1, <1>5, <2>1 DEF CanDelete
  <2> DEFINE x == cx - 1
             new == DeleteRune(lines, x, cy)
  <2>3. x \in Nat /\ CanDelete(lines, x, cy)
    BY <2>2
  <2>4. MoveOver(new, -1, 0) /\ moved' = (lines' # <<>>) /\ lines' = new
    BY <1>5, <2>2 DEF Shows
  <2> HIDE DEF x
  <2>5. new \in Texts /\ Len(new) = Len(lines) /\ Len(Line(new, cy)) = Len(line) - 1
    BY <1>1, <2>3, DeleteRuneType
  <2> HIDE DEF new
  <2>6. Arrives(new)
    BY <2>4, <2>5, MoveOverArrives
  <2>7. Landed
    BY <2>4, <2>5, <2>6 DEF Arrives, Landed
  <2>8. cx - 1 <= Len(Line(new, cy)) /\ cy < Len(new)
    BY <1>1, <1>5, <2>1, <2>5
  <2>9. Target(new, -1, 0) = <<cx - 1, cy>>
    BY <1>1, <1>5, <2>5, <2>8, TargetLeft
  <2>10. cx' = cx - 1
    BY <2>4, <2>9 DEF MoveOver
  <2> QED BY <1>1, <2>7, <2>10
<1>6. ASSUME cy < Len(lines), ~back, Stay,
             lines' = IF cx = Len(Line(lines, cy)) THEN MergeLines(lines, cy)
                      ELSE DeleteRune(lines, cx, cy)
      PROVE  Landed
  <2>1. cx <= Len(line) /\ Len(line) \in Nat
    BY <1>1, <1>6, LineType DEF InText
  <2>2. cx' = cx /\ cy' = cy /\ ox' = ox /\ oy' = oy /\ moved' = FALSE
    BY <1>6 DEF Stay, place
  <2>3. lines' \in Texts /\ InText(lines', cx, cy)
    <3>1. CASE cx = Len(line) /\ cy + 1 < Len(lines)
      <4> DEFINE new == MergeLines(lines, cy)
                 two == Line(lines, cy + 1)
      <4>1. new \in Texts /\ Len(new) = Len(lines) - 1 /\ Len(Line(new, cy)) = Len(line) + Len(two)
        BY <1>1, <3>1, MergeLinesType
      <4>2. Len(two) \in Nat
        BY <1>1, <3>1, LineType
      <4>3. lines' = new
        BY <1>6, <3>1
      <4> HIDE DEF new, two
      <4>4. cx <= Len(Line(new, cy)) /\ cy < Len(new) /\ new # <<>>
        BY <1>1, <2>1, <3>1, <4>1, <4>2
      <4> QED BY <4>1, <4>3, <4>4 DEF InText
    <3>2. CASE cx = Len(line) /\ ~(cy + 1 < Len(lines))
      <4>1. lines' = lines
        BY <1>6, <3>2 DEF MergeLines
      <4> QED BY <1>1, <4>1
    <3>3. CASE cx # Len(line)
      <4> DEFINE new == DeleteRune(lines, cx, cy)
      <4>1. CanDelete(lines, cx, cy)
        BY <1>1, <1>6, <2>1, <3>3 DEF CanDelete
      <4>2. new \in Texts /\ Len(new) = Len(lines) /\ Len(Line(new, cy)) = Len(line) - 1
        BY <1>1, <4>1, DeleteRuneType
      <4>3. lines' = new
        BY <1>6, <3>3
      <4> HIDE DEF new
      <4>4. cx <= Len(Line(new, cy)) /\ cy < Len(new) /\ new # <<>>
        BY <1>1, <1>6, <2>1, <3>3, <4>2
      <4> QED BY <4>2, <4>3, <4>4 DEF InText
    <3> QED BY <3>1, <3>2, <3>3
  <2> QED BY <1>1, <2>2, <2>3 DEF Landed
<1>7. \/ cy >= Len(lines) /\ Move(-1, 0)
      \/ cy < Len(lines) /\ back /\ cx = 0 /\ cy = 0 /\ Still
      \/ /\ cy < Len(lines) /\ back /\ cx = 0 /\ cy > 0
         /\ MoveOver(lines, -1, 0) /\ lines' = MergeLines(lines, cy - 1) /\ moved' = FALSE
      \/ /\ cy < Len(lines) /\ back /\ cx > 0 /\ lines' = DeleteRune(lines, cx - 1, cy)
         /\ IF CanDelete(lines, cx - 1, cy)
            THEN MoveOver(DeleteRune(lines, cx - 1, cy), -1, 0) /\ Shows
            ELSE Stay
      \/ /\ cy < Len(lines) /\ ~back /\ Stay
         /\ lines' = IF cx = Len(Line(lines, cy)) THEN MergeLines(lines, cy)
                     ELSE DeleteRune(lines, cx, cy)
  BY DEF Delete
<1>8. cy >= Len(lines) => cx = 0
  BY <1>1 DEF InText
<1>9. Landed
  BY <1>2, <1>3, <1>4, <1>5, <1>6, <1>7
<1>10. ASSUME back, cx > 0 PROVE cx' < cx
  <2>1. ~(cy >= Len(lines)) /\ ~(cx = 0)
    BY <1>1, <1>8, <1>10
  <2> QED BY <1>5, <1>7, <1>10, <2>1
<1> QED BY <1>9, <1>10

\* What the other variables are, and what leaving them alone keeps.
LEMMA Others ==
  EditorInv => /\ overwrite \in BOOLEAN /\ mode \in Modes /\ prevX \in Int
               /\ mode = "end" => cy + 1 >= Len(lines)
BY DEF EditorInv, TypeOK, Modes

\* The operations of a key when no loop runs.
LEMMA KeyKept ==
  ASSUME EditorInv, Ready, Landed, UNCHANGED <<wrap, prevX>>, overwrite' \in BOOLEAN,
         mode' \in Modes \ {"end"}
  PROVE  EditorInv' /\ MovesIntoView'
BY Others, Kept DEF Modes

\* EditWrite.
LEMMA EditWriteStep ==
  ASSUME EditorInv, NEW ch \in Cells, EditWrite(ch)
  PROVE  EditorInv' /\ MovesIntoView'
<1> DEFINE written == WriteRune(lines, cx, cy, ch, overwrite)
<1>1. lines \in Texts /\ cx \in Nat /\ cy \in Nat /\ overwrite \in BOOLEAN
  BY Types, Others
<1>2. written \in Texts /\ written # <<>>
  BY <1>1, WriteRuneType
<1>3. /\ Ready /\ lines' = written /\ MoveOver(written, 1, 0) /\ moved' = (lines' # <<>>)
      /\ UNCHANGED <<overwrite, wrap, mode, prevX>>
  BY DEF EditWrite, Shows
<1> HIDE DEF written
<1>4. Arrives(written)
  BY <1>2, <1>3, MoveOverArrives
<1>5. Landed
  BY <1>2, <1>3, <1>4 DEF Arrives, Landed
<1>6. mode' \in Modes \ {"end"}
  BY <1>3 DEF Ready, Modes
<1> QED BY <1>1, <1>3, <1>5, <1>6, KeyKept

\* EditDelete.
LEMMA EditDeleteStep ==
  ASSUME EditorInv, NEW back \in BOOLEAN, EditDelete(back)
  PROVE  EditorInv' /\ MovesIntoView'
<1>1. Ready /\ Landed /\ UNCHANGED <<overwrite, wrap, mode, prevX>>
  BY DeleteStep DEF EditDelete
<1>2. mode' \in Modes \ {"end"} /\ overwrite' \in BOOLEAN
  BY <1>1, Others DEF Ready, Modes
<1> QED BY <1>1, <1>2, KeyKept

\* EditNewLine.
LEMMA EditNewLineStep ==
  ASSUME EditorInv, EditNewLine
  PROVE  EditorInv' /\ MovesIntoView'
<1>1. /\ lines \in Texts /\ cx \in Nat /\ cy \in Nat /\ oy \in Nat /\ overwrite \in BOOLEAN
      /\ InText(lines, cx, cy) /\ Len(lines) \in Nat
  BY Types, Others DEF Texts
<1> DEFINE new == BreakLine(lines, cx, cy)
<1>2. /\ Ready /\ lines' = new /\ ox' = 0 /\ cx' = 0 /\ cy' = cy + 1 /\ moved' = FALSE
      /\ UNCHANGED <<oy, overwrite, wrap, mode, prevX>>
  BY DEF EditNewLine
<1>3. /\ new \in Texts
      /\ cy < Len(lines) => Len(new) = Len(lines) + 1
      /\ ~(cy < Len(lines)) => new = lines
  BY <1>1, BreakLineType
<1> HIDE DEF new
<1>4. InText(new, cx', cy')
  <2>1. CASE lines = <<>>
    <3>1. ~(cy < Len(lines))
      BY <1>1, <2>1
    <3>2. new = <<>>
      BY <1>3, <2>1, <3>1
    <3> QED BY <1>2, <3>2 DEF InText
  <2>2. CASE lines # <<>>
    <3>1. cy < Len(lines)
      BY <1>1, <2>2 DEF InText
    <3>2. cy' < Len(new) /\ new # <<>>
      BY <1>1, <1>2, <1>3, <3>1
    <3>3. 0 <= Len(Line(new, cy'))
      BY <1>1, <1>2, <1>3, <3>2, LineType
    <3> QED BY <1>2, <3>2, <3>3 DEF InText
  <2> QED BY <2>1, <2>2
<1>5. Landed
  <2>1. cx' \in Nat /\ cy' \in Nat /\ ox' \in Nat /\ oy' \in Nat
    BY <1>1, <1>2
  <2> QED BY <1>2, <1>3, <1>4, <2>1 DEF Landed
<1>6. mode' \in Modes \ {"end"}
  BY <1>2 DEF Ready, Modes
<1> QED BY <1>1, <1>2, <1>5, <1>6, KeyKept

\* MoveCursor.
LEMMA MoveCursorStep ==
  ASSUME EditorInv, NEW dx \in Int, NEW dy \in Int, MoveCursor(dx, dy)
  PROVE  EditorInv' /\ MovesIntoView'
<1>1. Ready /\ Landed /\ UNCHANGED <<overwrite, wrap, mode, prevX>>
  BY MoveStep DEF MoveCursor
<1>2. mode' \in Modes \ {"end"} /\ overwrite' \in BOOLEAN
  BY <1>1, Others DEF Ready, Modes
<1> QED BY <1>1, <1>2, KeyKept

\* The steps that only begin or end something.
LEMMA ToggleOverwriteStep ==
  ASSUME EditorInv, ToggleOverwrite
  PROVE  EditorInv' /\ MovesIntoView'
<1>1. Ready /\ Landed /\ UNCHANGED <<wrap, mode, prevX>> /\ overwrite' = ~overwrite
  BY StillStep DEF ToggleOverwrite
<1>2. mode' \in Modes \ {"end"} /\ overwrite' \in BOOLEAN
  BY <1>1, Others DEF Ready, Modes
<1> QED BY <1>1, <1>2, KeyKept

\* EditDeleteToStartOfLine: a line end, or the loop begins.
LEMMA EditDeleteToStartOfLineStep ==
  ASSUME EditorInv, EditDeleteToStartOfLine
  PROVE  EditorInv' /\ MovesIntoView'
<1>1. /\ Ready /\ UNCHANGED <<overwrite, wrap, prevX>>
      /\ (Delete(TRUE) /\ UNCHANGED mode) \/ (mode' = "delete" /\ Still)
  BY DEF EditDeleteToStartOfLine
<1>2. Landed
  BY <1>1, DeleteStep, StillStep
<1>3. mode' \in Modes \ {"end"} /\ overwrite' \in BOOLEAN
  BY <1>1, Others DEF Ready, Modes
<1> QED BY <1>1, <1>2, <1>3, KeyKept

\* EditGotoToStartOfLine.
LEMMA EditGotoToStartOfLineStep ==
  ASSUME EditorInv, EditGotoToStartOfLine
  PROVE  EditorInv' /\ MovesIntoView'
<1>1. Ready /\ Landed /\ UNCHANGED <<overwrite, wrap, prevX>> /\ mode' = "home"
  BY StillStep DEF EditGotoToStartOfLine
<1>2. mode' \in Modes \ {"end"} /\ overwrite' \in BOOLEAN
  BY <1>1, Others DEF Ready, Modes
<1> QED BY <1>1, <1>2, KeyKept

\* A turn of the deletion, and of the way home.
LEMMA DeleteToStartTurnStep ==
  ASSUME EditorInv, DeleteToStartTurn
  PROVE  /\ EditorInv' /\ MovesIntoView'
         /\ mode' = mode => cx' < cx
<1>1. /\ mode = "delete" /\ UNCHANGED <<overwrite, wrap, prevX>>
      /\ (cx > 0 /\ Delete(TRUE) /\ UNCHANGED mode) \/ (cx = 0 /\ mode' = "ready" /\ Still)
  BY DEF DeleteToStartTurn
<1>2. Landed /\ (mode' = mode => cx' < cx)
  BY <1>1, DeleteStep, StillStep
<1>3. mode' \in Modes /\ mode' # "end" /\ overwrite' \in BOOLEAN /\ prevX' \in Int /\ wrap' = wrap
  BY <1>1, Others DEF Modes
<1> QED BY <1>2, <1>3, Kept

\* A turn of the way home.
LEMMA GotoStartTurnStep ==
  ASSUME EditorInv, GotoStartTurn
  PROVE  /\ EditorInv' /\ MovesIntoView'
         /\ mode' = mode => cx' < cx
<1>1. /\ mode = "home" /\ UNCHANGED <<overwrite, wrap, prevX>>
      /\ (cx > 0 /\ Move(-1, 0) /\ UNCHANGED mode) \/ (cx = 0 /\ mode' = "ready" /\ Still)
  BY DEF GotoStartTurn
<1>2. Landed
  BY <1>1, MoveStep, StillStep
<1>3. mode' \in Modes /\ mode' # "end" /\ overwrite' \in BOOLEAN /\ prevX' \in Int /\ wrap' = wrap
  BY <1>1, Others DEF Modes
<1>4. ASSUME mode' = mode PROVE cx' < cx
  <2>1. cx > 0 /\ Move(-1, 0)
    BY <1>1, <1>4
  <2>2. cx' = cx - 1 /\ cx \in Nat
    BY <2>1, LeftStep, Types
  <2> QED BY <2>2
<1> QED BY <1>2, <1>3, <1>4, Kept

\* EditGotoToEndOfLine, in text or in an empty view.
LEMMA EditGotoToEndOfLineStep ==
  ASSUME EditorInv, EditGotoToEndOfLine
  PROVE  EditorInv' /\ MovesIntoView'
<1> DEFINE to == Nearest(0, cy + 1)[2]
<1>1. /\ lines \in Texts /\ cy \in Nat /\ ox \in Nat /\ oy \in Nat /\ overwrite \in BOOLEAN
      /\ Len(lines) \in Nat /\ (lines # <<>> => Len(lines) > 0)
  BY Types, Others DEF Texts
<1>2. /\ mode' = (IF to = cy THEN "end" ELSE "back") /\ cx' = 0 /\ cy' = to
      /\ prevX' = -1 /\ moved' = FALSE /\ UNCHANGED <<lines, ox, oy, overwrite, wrap>>
  BY DEF EditGotoToEndOfLine
<1>3. to = IF lines = <<>> THEN 0 ELSE IF cy + 1 >= Len(lines) THEN Len(lines) - 1 ELSE cy + 1
  BY DEF Nearest
<1> HIDE DEF to
<1>4. to \in Nat /\ (lines # <<>> => to < Len(lines)) /\ (to = cy => cy + 1 >= Len(lines))
  <2>1. CASE lines = <<>>
    <3>1. to = 0 /\ Len(lines) = 0
      BY <1>3, <2>1
    <3> QED BY <1>1, <2>1, <3>1
  <2>2. CASE lines # <<>>
    BY <1>1, <1>3, <2>2
  <2> QED BY <2>1, <2>2
<1>5. InText(lines, 0, to)
  <2>1. lines # <<>> => 0 <= Len(Line(lines, to))
    BY <1>1, <1>4, LineType
  <2> QED BY <1>4, <2>1 DEF InText
<1>6. Landed
  BY <1>1, <1>2, <1>4, <1>5 DEF Landed
<1>7. mode' \in Modes /\ (mode' = "end" => cy' + 1 >= Len(lines'))
  BY <1>2, <1>4 DEF Modes
<1> QED BY <1>1, <1>2, <1>6, <1>7, Kept

\* A turn of the way to the end of the line.
LEMMA GotoEndTurnStep ==
  ASSUME EditorInv, GotoEndTurn
  PROVE  /\ EditorInv' /\ MovesIntoView'
         /\ mode' = mode => mode = "end" /\ (cx' > cx \/ prevX' = cx')
<1>1. /\ UNCHANGED <<overwrite, wrap>>
      /\ \/ mode = "back" /\ Move(-1, 0) /\ mode' = "ready" /\ UNCHANGED prevX
         \/ mode = "end" /\ prevX # cx /\ prevX' = cx /\ Move(1, 0) /\ UNCHANGED mode
         \/ mode = "end" /\ prevX = cx /\ mode' = "ready" /\ Still /\ UNCHANGED prevX
  BY DEF GotoEndTurn
<1>2. Landed
  BY <1>1, MoveStep, StillStep
<1>3. mode' \in Modes /\ overwrite' \in BOOLEAN /\ prevX' \in Int
  BY <1>1, Others, Types DEF Modes
<1>4. mode' = mode \/ mode' = "end" => mode = "end" /\ prevX' = cx /\ Move(1, 0)
  BY <1>1
<1>5. mode' = mode \/ mode' = "end" => (cx' > cx \/ cx' = cx) /\ cy' + 1 >= Len(lines')
  BY <1>4, Others, RightStep
<1>6. EditorInv' /\ MovesIntoView'
  BY <1>1, <1>2, <1>3, <1>5, Kept
<1> QED BY <1>4, <1>5, <1>6

\* SetCursor puts the cursor into the text or refuses.
LEMMA SetCursorStep ==
  ASSUME EditorInv, NEW x \in Int, NEW y \in Int, SetCursor(x, y)
  PROVE  EditorInv' /\ MovesIntoView'
<1> DEFINE n == Nearest(x, y)
           yy == IF lines = <<>> THEN 0 ELSE IF y >= Len(lines) THEN Len(lines) - 1 ELSE y
           len == IF lines = <<>> THEN 0 ELSE Len(Line(lines, yy))
<1>1. /\ lines \in Texts /\ ox \in Nat /\ oy \in Nat /\ overwrite \in BOOLEAN
      /\ Len(lines) \in Nat /\ (lines # <<>> => Len(lines) > 0)
  BY Types, Others DEF Texts
<1>2. /\ Ready /\ n[1] >= 0 /\ n[2] >= 0 /\ cx' = n[1] /\ cy' = n[2] /\ moved' = FALSE
      /\ UNCHANGED <<lines, ox, oy, overwrite, wrap, mode, prevX>>
  BY DEF SetCursor
<1>3. n = <<IF x > 0 /\ x > len THEN len ELSE x, yy>>
  BY DEF Nearest
<1>4. yy \in Int /\ (lines # <<>> => yy < Len(lines))
  BY <1>1
<1>5. len = IF lines = <<>> THEN 0 ELSE Len(Line(lines, yy))
  OBVIOUS
<1> HIDE DEF n, yy, len
<1>6. n[2] = yy /\ n[1] = IF x > 0 /\ x > len THEN len ELSE x
  BY <1>3
<1>7. yy \in Nat
  BY <1>2, <1>4, <1>6
<1>8. len \in Nat
  BY <1>1, <1>4, <1>5, <1>7, LineType
<1>9. n[1] \in Nat /\ n[1] <= len
  BY <1>2, <1>6, <1>8
<1>10. InText(lines, n[1], n[2])
  <2>1. CASE lines = <<>>
    <3>1. n[1] = 0
      BY <1>5, <1>9, <2>1
    <3> QED BY <2>1, <3>1 DEF InText
  <2>2. CASE lines # <<>>
    <3>1. n[2] < Len(lines) /\ n[1] <= Len(Line(lines, n[2]))
      BY <1>4, <1>5, <1>6, <1>9, <2>2
    <3> QED BY <2>2, <3>1 DEF InText
  <2> QED BY <2>1, <2>2
<1>11. Landed
  BY <1>1, <1>2, <1>6, <1>7, <1>9, <1>10 DEF Landed
<1>12. mode' \in Modes \ {"end"}
  BY <1>2 DEF Ready, Modes
<1> QED BY <1>1, <1>2, <1>11, <1>12, KeyKept

\* SetOrigin and drawing leave the cursor where it is.
LEMMA OriginStep ==
  ASSUME EditorInv, \/ \E x, y \in Int : SetOrigin(x, y)
                    \/ Draw
  PROVE  EditorInv' /\ MovesIntoView'
<1>1. /\ Ready /\ ox' \in Nat /\ oy' \in Nat /\ moved' = FALSE
      /\ UNCHANGED <<lines, cx, cy, overwrite, wrap, mode, prevX>>
  BY Types DEF SetOrigin, Draw
<1>2. Landed
  BY <1>1, Types DEF Landed
<1>3. mode' \in Modes \ {"end"} /\ overwrite' \in BOOLEAN
  BY <1>1, Others DEF Ready, Modes
<1> QED BY <1>1, <1>2, <1>3, KeyKept

-----------------------------------------------------------------------------
(* The steps together, and what follows of them.                           *)

\* What each step does.
Progress ==
  mode' = mode =>
    \/ Ready
    \/ mode \in {"delete", "home"} /\ cx' < cx
    \/ mode = "end" /\ (cx' > cx \/ prevX' = cx')

\* The invariant is inductive; a move shows the cursor, a turn gets on.
LEMMA NextStep ==
  ASSUME EditorInv, Next
  PROVE  EditorInv' /\ MovesIntoView' /\ Progress
<1>1. CASE \E ch \in Cells : EditWrite(ch)
  BY <1>1, EditWriteStep DEF EditWrite, Progress
<1>2. CASE \E back \in BOOLEAN : EditDelete(back)
  BY <1>2, EditDeleteStep DEF EditDelete, Progress
<1>3. CASE EditNewLine
  BY <1>3, EditNewLineStep DEF EditNewLine, Progress
<1>4. CASE ToggleOverwrite
  BY <1>4, ToggleOverwriteStep DEF ToggleOverwrite, Progress
<1>5. CASE \E d \in Deltas : MoveCursor(d[1], d[2])
  <2>1. PICK d \in Deltas : MoveCursor(d[1], d[2])
    BY <1>5
  <2>2. d[1] \in Int /\ d[2] \in Int
    BY TextAssumption
  <2> QED BY <2>1, <2>2, MoveCursorStep DEF MoveCursor, Progress
<1>6. CASE EditDeleteToStartOfLine
  BY <1>6, EditDeleteToStartOfLineStep DEF EditDeleteToStartOfLine, Progress
<1>7. CASE EditGotoToStartOfLine
  BY <1>7, EditGotoToStartOfLineStep DEF EditGotoToStartOfLine, Progress
<1>8. CASE EditGotoToEndOfLine
  BY <1>8, EditGotoToEndOfLineStep DEF EditGotoToEndOfLine, Progress
<1>9. CASE DeleteToStartTurn
  BY <1>9, DeleteToStartTurnStep DEF DeleteToStartTurn, Progress
<1>10. CASE GotoStartTurn
  BY <1>10, GotoStartTurnStep DEF GotoStartTurn, Progress
<1>11. CASE GotoEndTurn
  BY <1>11, GotoEndTurnStep DEF Progress
<1>12. CASE \E p \in Points : SetCursor(p[1], p[2]) \/ SetOrigin(p[1], p[2])
  <2>1. PICK p \in Points : SetCursor(p[1], p[2]) \/ SetOrigin(p[1], p[2])
    BY <1>12
  <2>2. p[1] \in Int /\ p[2] \in Int
    BY TextAssumption
  <2>3. Ready
    BY <2>1 DEF SetCursor, SetOrigin
  <2> QED BY <2>1, <2>2, <2>3, SetCursorStep, OriginStep DEF Progress
<1>13. CASE Draw
  BY <1>13, OriginStep DEF Draw, Progress
<1> QED BY <1>1, <1>2, <1>3, <1>4, <1>5, <1>6, <1>7, <1>8, <1>9, <1>10, <1>11, <1>12, <1>13
        DEF Next, LoopTurn

\* The first state: an empty view.
LEMMA EditorStarts == Init => EditorInv /\ MovesIntoView
<1> SUFFICES ASSUME Init PROVE EditorInv /\ MovesIntoView
  OBVIOUS
<1>1. /\ lines = <<>> /\ cx = 0 /\ cy = 0 /\ ox = 0 /\ oy = 0 /\ overwrite = FALSE /\ wrap \in Wraps
      /\ mode = "ready" /\ prevX = 0 /\ moved = FALSE
  BY DEF Init
<1>2. wrap \in BOOLEAN
  BY <1>1, TextAssumption
<1>3. lines \in Seq(Seq(Cells))
  BY <1>1
<1>4. TypeOK
  <2>1. cx \in Nat /\ cy \in Nat /\ ox \in Nat /\ oy \in Nat /\ prevX \in Int
    BY <1>1
  <2>2. overwrite \in BOOLEAN /\ moved \in BOOLEAN /\ mode \in {"ready", "delete", "home", "end", "back"}
    BY <1>1
  <2> QED BY <1>2, <1>3, <2>1, <2>2 DEF TypeOK
<1>5. CursorInText /\ MovesIntoView
  BY <1>1 DEF CursorInText, MovesIntoView
<1> QED BY <1>1, <1>4, <1>5 DEF EditorInv

\* A step that changes nothing.
LEMMA EditorStutters ==
  ASSUME EditorInv, MovesIntoView, UNCHANGED vars
  PROVE  EditorInv' /\ MovesIntoView'
BY DEF EditorInv, MovesIntoView, vars, place, TypeOK, CursorInText

\* The invariant with the moves.
LEMMA EditorAlways == Spec => [](EditorInv /\ MovesIntoView)
<1>1. EditorInv /\ MovesIntoView /\ [Next]_vars => (EditorInv /\ MovesIntoView)'
  BY NextStep, EditorStutters
<1> QED BY <1>1, EditorStarts, PTL DEF Spec

\* The lines are sequences of cells, and no coordinate of the cursor or of
\* the origin is ever negative.
THEOREM TypeCorrect == Spec => []TypeOK
<1>1. EditorInv => TypeOK
  BY DEF EditorInv
<1> QED BY <1>1, EditorAlways, PTL

\* The cursor stays in the text, whatever is typed, deleted or moved, in a
\* view of any size: writeRune never has to invent cells.
THEOREM CursorStaysInText == Spec => []CursorInText
<1>1. EditorInv => CursorInText
  BY DEF EditorInv
<1> QED BY <1>1, EditorAlways, PTL

\* Wherever the origin was, MoveCursor leaves the cursor where it is shown.
THEOREM MovesAreShown == Spec => []MovesIntoView
BY EditorAlways, PTL

\* With Wrap the cursor is shown on the rune it is on: linesPosOnScreen finds
\* the row and the column at which viewLines and draw put that rune.
THEOREM CursorIsOnItsRune == Spec => []CursorOnItsRune
BY EditorAlways, CursorShown, PTL

\* Each turn of a loop of the editor brings its end nearer.
THEOREM LoopsGoOn == Spec => LoopsProgress
<1>1. EditorInv /\ [Next]_vars =>
        [mode' = mode =>
           \/ Ready
           \/ mode \in {"delete", "home"} /\ cx' < cx
           \/ mode = "end" /\ (cx' > cx \/ prevX' = cx')]_vars
  BY NextStep DEF Progress
<1> QED BY <1>1, EditorAlways, PTL DEF Spec, LoopsProgress

-----------------------------------------------------------------------------
(* The text that the lines make: ConcatLines.                              *)

\* The characters of the text field.
Chars == Cells \cup {NewLine}

\* ConcatLines: the function it computes with.
JoinFrom(ls, f) ==
  f = [n \in 1 .. Len(ls) |-> IF n = 1 THEN ls[1] ELSE f[n - 1] \o <<NewLine>> \o ls[n]]

\* A line is a text, and so are a text, a line end and a line.
LEMMA CharsType ==
  ASSUME NEW l \in Seq(Cells)
  PROVE  /\ l \in Seq(Chars)
         /\ \A v \in Seq(Chars) : v \o <<NewLine>> \o l \in Seq(Chars)
<1>1. l \in Seq(Chars) /\ <<NewLine>> \in Seq(Chars)
  BY DEF Chars
<1>2. \A v \in Seq(Chars) : v \o <<NewLine>> \in Seq(Chars)
  BY <1>1
<1>3. \A v \in Seq(Chars) : v \o l \in Seq(Chars)
  BY <1>1
<1> QED BY <1>1, <1>2, <1>3

\* There is one.
LEMMA JoinExist ==
  ASSUME NEW ls \in Texts, ls # <<>>
  PROVE  \E f \in [1 .. Len(ls) -> Seq(Chars)] : JoinFrom(ls, f)
<1> DEFINE X == 1 .. Len(ls)
           V == Seq(Chars)
           base == [i \in X |-> ls[1]]
           next == [i \in X |-> IF i = 1 THEN 1 ELSE i - 1]
           step == [i \in X |-> [v \in V |-> v \o <<NewLine>> \o ls[i]]]
           far == [i \in X |-> i - 1]
           n == Len(ls)
<1>1. n \in Nat /\ n > 0 /\ \A i \in X : i # 1 => i - 1 \in X
  BY DEF Texts
<1>2. \A i \in X : ls[i] \in Seq(Cells)
  BY DEF Texts
<1>3. next \in [X -> X] /\ far \in [X -> 0 .. n]
  BY <1>1
<1>4. base \in [X -> V]
  <2>1. ls[1] \in V
    BY <1>1, <1>2, CharsType
  <2> QED BY <2>1
<1>5. step \in [X -> [V -> V]]
  <2>1. \A i \in X : \A v \in V : v \o <<NewLine>> \o ls[i] \in V
    BY <1>2, CharsType
  <2> HIDE DEF X, V
  <2> QED BY <2>1
<1>6. \A i \in X : i \notin {1} => far[next[i]] < far[i]
  BY <1>1
<1>7. PICK f \in [X -> V] : Recursive(X, {1}, base, next, step, f)
  <2> HIDE DEF X, V, base, next, step, far, n
  <2> QED BY <1>1, <1>3, <1>4, <1>5, <1>6, Recursion
<1>8. ASSUME NEW i \in X
      PROVE  f[i] = IF i = 1 THEN ls[1] ELSE f[i - 1] \o <<NewLine>> \o ls[i]
  <2>1. f[i] = IF i \in {1} THEN base[i] ELSE step[i][f[next[i]]]
    <3> HIDE DEF X, base, next, step
    <3> QED BY <1>7 DEF Recursive
  <2>2. CASE i = 1
    BY <2>1, <2>2
  <2>3. CASE i # 1
    <3>1. next[i] = i - 1 /\ f[i - 1] \in V
      BY <1>1, <1>7, <2>3
    <3>2. step[i][f[i - 1]] = f[i - 1] \o <<NewLine>> \o ls[i]
      <4> HIDE DEF V, X
      <4> QED BY <2>3, <3>1
    <3> HIDE DEF next, step
    <3> QED BY <2>1, <2>3, <3>1, <3>2
  <2> QED BY <2>2, <2>3
<1>9. f = [i \in X |-> f[i]]
  BY <1>7
<1>10. f = [i \in X |-> IF i = 1 THEN ls[1] ELSE f[i - 1] \o <<NewLine>> \o ls[i]]
  <2> HIDE DEF X
  <2> QED BY <1>8, <1>9
<1> QED BY <1>7, <1>10 DEF JoinFrom

\* ConcatLines takes one.
LEMMA JoinChosen ==
  ASSUME NEW ls \in Texts, ls # <<>>
  PROVE  \E g : JoinFrom(ls, g) /\ ConcatLines(ls) = g[Len(ls)]
<1> DEFINE g == CHOOSE f : f = [n \in 1 .. Len(ls) |->
                  IF n = 1 THEN ls[1] ELSE f[n - 1] \o <<NewLine>> \o ls[n]]
<1>1. JoinFrom(ls, g)
  <2>1. \E f : JoinFrom(ls, f)
    BY JoinExist
  <2> QED BY <2>1 DEF JoinFrom
<1>2. ConcatLines(ls) = g[Len(ls)]
  BY DEF ConcatLines
<1> QED BY <1>1, <1>2

\* The function at one place.
LEMMA JoinAt ==
  ASSUME NEW ls, NEW f, JoinFrom(ls, f), NEW n \in 1 .. Len(ls)
  PROVE  f[n] = IF n = 1 THEN ls[1] ELSE f[n - 1] \o <<NewLine>> \o ls[n]
BY DEF JoinFrom

\* Its values depend on the lines so far only.
LEMMA JoinSame ==
  ASSUME NEW a \in Texts, NEW b \in Texts, Len(a) <= Len(b),
         \A i \in 1 .. Len(a) : b[i] = a[i],
         NEW f, JoinFrom(a, f), NEW g, JoinFrom(b, g), NEW n \in 1 .. Len(a)
  PROVE  f[n] = g[n] /\ f[n] \in Seq(Chars)
<1> DEFINE T == {i \in 1 .. Len(a) : ~(f[i] = g[i] /\ f[i] \in Seq(Chars))}
<1> SUFFICES ASSUME T # {} PROVE FALSE
  OBVIOUS
<1>1. Len(a) \in Nat /\ Len(b) \in Nat
  BY DEF Texts
<1>2. PICK m \in T : \A i \in T : m <= i
  <2>1. T \subseteq Nat
    BY <1>1
  <2> HIDE DEF T
  <2> QED BY <2>1, Least
<1>3. m \in 1 .. Len(a) /\ m \in 1 .. Len(b) /\ b[m] = a[m] /\ ~(f[m] = g[m] /\ f[m] \in Seq(Chars))
  BY <1>1, <1>2
<1>4. a[m] \in Seq(Cells)
  BY <1>3 DEF Texts
<1>5. f[m] = IF m = 1 THEN a[1] ELSE f[m - 1] \o <<NewLine>> \o a[m]
  BY <1>3, JoinAt
<1>6. g[m] = IF m = 1 THEN b[1] ELSE g[m - 1] \o <<NewLine>> \o b[m]
  BY <1>3, JoinAt
<1>7. CASE m = 1
  BY <1>3, <1>4, <1>5, <1>6, <1>7, CharsType
<1>8. CASE m # 1
  <2>1. m - 1 \in 1 .. Len(a) /\ ~(m <= m - 1)
    BY <1>1, <1>3, <1>8
  <2>2. f[m - 1] = g[m - 1] /\ f[m - 1] \in Seq(Chars)
    BY <1>2, <2>1
  <2>3. f[m - 1] \o <<NewLine>> \o a[m] \in Seq(Chars)
    BY <1>4, <2>2, CharsType
  <2> QED BY <1>3, <1>5, <1>6, <1>8, <2>2, <2>3
<1> QED BY <1>7, <1>8

\* One line is its own text.
LEMMA TextOfOne ==
  ASSUME NEW l \in Seq(Cells)
  PROVE  ConcatLines(<<l>>) = l /\ l \in Seq(Chars)
<1> DEFINE ls == <<l>>
<1>1. ls \in Texts /\ ls # <<>> /\ Len(ls) = 1 /\ ls[1] = l
  BY DEF Texts
<1> HIDE DEF ls
<1>2. PICK g : JoinFrom(ls, g) /\ ConcatLines(ls) = g[Len(ls)]
  BY <1>1, JoinChosen
<1>3. 1 \in 1 .. Len(ls)
  BY <1>1
<1>4. g[1] = ls[1]
  BY <1>2, <1>3, JoinAt
<1> QED BY <1>1, <1>2, <1>4, CharsType DEF ls

\* A line after others comes after a line end.
LEMMA TextOfMore ==
  ASSUME NEW ls \in Texts, ls # <<>>, NEW l \in Seq(Cells)
  PROVE  /\ ConcatLines(ls) \in Seq(Chars)
         /\ ConcatLines(ls \o <<l>>) = ConcatLines(ls) \o <<NewLine>> \o l
<1> DEFINE more == ls \o <<l>>
           n == Len(ls)
<1>1. more \in Texts /\ Len(more) = n + 1 /\ more[n + 1] = l /\ \A i \in 1 .. n : more[i] = ls[i]
  <2>1. <<l>> \in Texts
    BY DEF Texts
  <2> QED BY <2>1, OneAfter, OthersAfter DEF Texts
<1>2. n \in Nat /\ n > 0 /\ n \in 1 .. n
  BY DEF Texts
<1> HIDE DEF more
<1>3. more # <<>>
  BY <1>1, <1>2
<1>4. PICK f : JoinFrom(ls, f) /\ ConcatLines(ls) = f[n]
  BY JoinChosen
<1>5. PICK g : JoinFrom(more, g) /\ ConcatLines(more) = g[Len(more)]
  BY <1>1, <1>3, JoinChosen
<1>6. f[n] = g[n] /\ f[n] \in Seq(Chars)
  <2>1. Len(ls) <= Len(more)
    BY <1>1, <1>2
  <2> QED BY <1>1, <1>2, <1>4, <1>5, <2>1, JoinSame
<1>7. PICK k : k = n + 1
  OBVIOUS
<1>8. k \in 1 .. Len(more) /\ k # 1 /\ k - 1 = n
  BY <1>1, <1>2, <1>7
<1>9. g[k] = g[k - 1] \o <<NewLine>> \o more[k]
  BY <1>5, <1>8, JoinAt
<1> QED BY <1>1, <1>4, <1>5, <1>6, <1>7, <1>8, <1>9 DEF more

\* Concatenation is associative.
LEMMA Associative ==
  ASSUME NEW S, NEW s \in Seq(S), NEW t \in Seq(S), NEW u \in Seq(S)
  PROVE  (s \o t) \o u = s \o (t \o u)
<1> DEFINE st == s \o t
           tu == t \o u
           v == st \o u
           w == s \o tu
<1>1. st \in Seq(S) /\ tu \in Seq(S) /\ v \in Seq(S) /\ w \in Seq(S)
  OBVIOUS
<1>2. /\ Len(st) = Len(s) + Len(t) /\ Len(tu) = Len(t) + Len(u)
      /\ Len(s) \in Nat /\ Len(t) \in Nat /\ Len(u) \in Nat
  OBVIOUS
<1>3. /\ \A i \in 1 .. Len(s) : st[i] = s[i]
      /\ \A i \in Len(s) + 1 .. Len(st) : st[i] = t[i - Len(s)]
      /\ \A i \in 1 .. Len(t) : tu[i] = t[i]
      /\ \A i \in Len(t) + 1 .. Len(tu) : tu[i] = u[i - Len(t)]
  OBVIOUS
<1> HIDE DEF st, tu
<1>4. /\ Len(v) = Len(st) + Len(u) /\ Len(w) = Len(s) + Len(tu)
      /\ \A i \in 1 .. Len(st) : v[i] = st[i]
      /\ \A i \in Len(st) + 1 .. Len(v) : v[i] = u[i - Len(st)]
      /\ \A i \in 1 .. Len(s) : w[i] = s[i]
      /\ \A i \in Len(s) + 1 .. Len(w) : w[i] = tu[i - Len(s)]
  BY <1>1
<1> HIDE DEF v, w
<1>5. Len(v) = Len(w)
  BY <1>2, <1>4
<1>6. ASSUME NEW i \in 1 .. Len(v) PROVE v[i] = w[i]
  <2>1. CASE i <= Len(s)
    <3>1. i \in 1 .. Len(s) /\ i \in 1 .. Len(st)
      BY <1>2, <1>4, <2>1
    <3> QED BY <1>3, <1>4, <3>1
  <2>2. CASE i > Len(s) /\ i <= Len(st)
    <3>1. PICK j : j = i - Len(s)
      OBVIOUS
    <3>2. i \in 1 .. Len(st) /\ i \in Len(s) + 1 .. Len(st) /\ i \in Len(s) + 1 .. Len(w) /\ j \in 1 .. Len(t)
      BY <1>2, <1>4, <1>5, <2>2, <3>1
    <3>3. v[i] = t[j] /\ w[i] = tu[j]
      BY <1>3, <1>4, <3>1, <3>2
    <3> QED BY <1>3, <3>2, <3>3
  <2>3. CASE i > Len(st)
    <3>1. PICK j : j = i - Len(s)
      OBVIOUS
    <3>2. PICK k : k = i - Len(st)
      OBVIOUS
    <3>3. /\ i \in Len(st) + 1 .. Len(v) /\ i \in Len(s) + 1 .. Len(w)
          /\ j \in Len(t) + 1 .. Len(tu) /\ k = j - Len(t)
      BY <1>2, <1>4, <1>5, <2>3, <3>1, <3>2
    <3>4. v[i] = u[k] /\ w[i] = tu[j]
      BY <1>4, <3>1, <3>2, <3>3
    <3>5. tu[j] = u[k]
      BY <1>3, <3>3
    <3> QED BY <3>4, <3>5
  <2> QED BY <1>2, <1>4, <2>1, <2>2, <2>3
<1>7. v = w
  BY <1>1, <1>5, <1>6, SameSequence
<1> QED BY <1>7 DEF v, w, st, tu

\* The first element as a sequence.
LEMMA FirstOnly ==
  ASSUME NEW S, NEW s \in Seq(S), Len(s) > 0
  PROVE  SubSeq(s, 1, 1) = <<s[1]>>
<1> DEFINE a == SubSeq(s, 1, 1)
           b == <<s[1]>>
<1>1. 1 \in 0 .. Len(s) /\ s[1] \in S
  OBVIOUS
<1>2. a \in Seq(S) /\ Len(a) = 1 /\ \A i \in 1 .. 1 : a[i] = s[i]
  BY <1>1, SubSeqType
<1>3. b \in Seq(S) /\ Len(b) = 1 /\ b[1] = s[1]
  BY <1>1
<1> HIDE DEF a, b
<1>4. \A i \in 1 .. Len(a) : a[i] = b[i]
  BY <1>2, <1>3
<1>5. a = b
  BY <1>2, <1>3, <1>4, SameSequence
<1> QED BY <1>5 DEF a, b

\* Nothing before or after.
LEMMA Nothing ==
  ASSUME NEW S, NEW s \in Seq(S)
  PROVE  <<>> \o s = s /\ s \o <<>> = s
OBVIOUS

\* The lines above and below a line, with their line ends.
Above(ls) == IF ls = <<>> THEN <<>> ELSE ConcatLines(ls) \o <<NewLine>>
Below(ls) == IF ls = <<>> THEN <<>> ELSE <<NewLine>> \o ConcatLines(ls)

\* The text of all lines is one.
LEMMA TextType ==
  ASSUME NEW ls \in Texts
  PROVE  /\ ConcatLines(ls) \in Seq(Chars) /\ Above(ls) \in Seq(Chars) /\ Below(ls) \in Seq(Chars)
         /\ <<NewLine>> \in Seq(Chars)
<1>1. <<NewLine>> \in Seq(Chars) /\ <<>> \in Seq(Cells)
  BY DEF Chars
<1>2. ConcatLines(ls) \in Seq(Chars)
  <2>1. CASE ls = <<>>
    BY <2>1 DEF ConcatLines
  <2>2. CASE ls # <<>>
    BY <1>1, <2>2, TextOfMore
  <2> QED BY <2>1, <2>2
<1> DEFINE c == ConcatLines(ls)
           nl == <<NewLine>>
<1>3. c \in Seq(Chars) /\ nl \in Seq(Chars)
  BY <1>1, <1>2
<1> HIDE DEF c, nl
<1>4. c \o nl \in Seq(Chars) /\ nl \o c \in Seq(Chars) /\ <<>> \in Seq(Chars)
  BY <1>3
<1> QED BY <1>1, <1>2, <1>4 DEF Above, Below, c, nl

\* A line, and what is above it.
LEMMA TextAbove ==
  ASSUME NEW ls \in Texts, NEW l \in Seq(Cells)
  PROVE  /\ ConcatLines(ls \o <<l>>) = Above(ls) \o l
         /\ Above(ls \o <<l>>) = Above(ls) \o l \o <<NewLine>>
<1>1. ConcatLines(ls \o <<l>>) = Above(ls) \o l
  <2>1. CASE ls = <<>>
    <3>1. ls \o <<l>> = <<l>> /\ Above(ls) = <<>> /\ <<>> \o l = l
      BY <2>1 DEF Above
    <3> QED BY <3>1, TextOfOne
  <2>2. CASE ls # <<>>
    BY <2>2, TextOfMore DEF Above
  <2> QED BY <2>1, <2>2
<1>2. ls \o <<l>> # <<>>
  BY DEF Texts
<1> QED BY <1>1, <1>2 DEF Above

\* Lines after lines.
LEMMA TextOfBoth ==
  ASSUME NEW a \in Texts, a # <<>>, NEW b \in Texts, b # <<>>
  PROVE  ConcatLines(a \o b) = ConcatLines(a) \o (<<NewLine>> \o ConcatLines(b))
<1> DEFINE Good(c) == ConcatLines(a \o c) = ConcatLines(a) \o (<<NewLine>> \o ConcatLines(c))
           T == {n \in 1 .. Len(b) : ~Good(SubSeq(b, 1, n))}
<1>1. Len(b) \in Nat /\ Len(b) > 0 /\ SubSeq(b, 1, Len(b)) = b /\ Len(b) \in 1 .. Len(b)
  BY DEF Texts
<1>2. ConcatLines(a) \in Seq(Chars) /\ <<NewLine>> \in Seq(Chars)
  BY TextType
<1>3. ASSUME NEW l \in Seq(Cells) PROVE Good(<<l>>)
  <2>1. ConcatLines(a \o <<l>>) = ConcatLines(a) \o <<NewLine>> \o l
    BY TextOfMore
  <2>2. ConcatLines(<<l>>) = l /\ l \in Seq(Chars)
    BY TextOfOne
  <2>3. ConcatLines(a) \o <<NewLine>> \o l = ConcatLines(a) \o (<<NewLine>> \o l)
    BY <1>2, <2>2, Associative
  <2> QED BY <2>1, <2>2, <2>3
<1>4. ASSUME NEW c \in Texts, c # <<>>, Good(c), NEW l \in Seq(Cells)
      PROVE  Good(c \o <<l>>)
  <2> DEFINE ca == ConcatLines(a)
             cc == ConcatLines(c)
             nl == <<NewLine>>
             one == <<l>>
             ac == a \o c
  <2>1. ca \in Seq(Chars) /\ cc \in Seq(Chars) /\ nl \in Seq(Chars) /\ l \in Seq(Chars)
    BY <1>2, TextType, TextOfOne
  <2>2. one \in Texts
    BY DEF Texts
  <2>3. ac \in Texts /\ ac # <<>>
    BY <1>4 DEF Texts
  <2>4. ConcatLines(ac \o <<l>>) = ConcatLines(ac) \o nl \o l
    <3> HIDE DEF ac
    <3> QED BY <2>3, TextOfMore
  <2>5. ac \o one = a \o (c \o one)
    <3>1. a \in Seq(Seq(Cells)) /\ c \in Seq(Seq(Cells)) /\ one \in Seq(Seq(Cells))
      BY <2>2 DEF Texts
    <3> DEFINE S == Seq(Cells)
    <3>2. a \in Seq(S) /\ c \in Seq(S) /\ one \in Seq(S)
      BY <3>1
    <3> HIDE DEF one, S
    <3>3. (a \o c) \o one = a \o (c \o one)
      BY <3>2, Associative
    <3> QED BY <3>3
  <2>6. ConcatLines(ac) = ca \o (nl \o cc)
    BY <1>4
  <2>7. ConcatLines(c \o <<l>>) = cc \o nl \o l
    BY <1>4, TextOfMore
  <2> HIDE DEF ca, cc, nl, ac
  <2>8. ca \o (nl \o cc) \o nl \o l = ca \o (nl \o (cc \o nl \o l))
    <3> DEFINE ends == nl \o cc
               after == cc \o nl
               mid == nl \o after
    <3>1. ends \in Seq(Chars) /\ after \in Seq(Chars) /\ mid \in Seq(Chars)
      BY <2>1
    <3>2. ends \o nl = mid
      BY <2>1, Associative
    <3>3. mid \o l = nl \o (after \o l)
      <4>1. nl \in Seq(Chars) /\ after \in Seq(Chars) /\ l \in Seq(Chars)
        BY <2>1, <3>1
      <4> HIDE DEF after
      <4>2. (nl \o after) \o l = nl \o (after \o l)
        BY <4>1, Associative
      <4> QED BY <4>2
    <3> HIDE DEF ends, mid, after
    <3>4. (ca \o ends) \o nl = ca \o (ends \o nl)
      <4>1. ca \in Seq(Chars) /\ ends \in Seq(Chars) /\ nl \in Seq(Chars)
        BY <2>1, <3>1
      <4> QED BY <4>1, Associative
    <3>5. (ca \o mid) \o l = ca \o (mid \o l)
      <4>1. ca \in Seq(Chars) /\ mid \in Seq(Chars) /\ l \in Seq(Chars)
        BY <2>1, <3>1
      <4> QED BY <4>1, Associative
    <3>6. (ca \o ends) \o nl \o l = ca \o (nl \o (after \o l))
      BY <3>2, <3>3, <3>4, <3>5
    <3> QED BY <3>6 DEF ends, after
  <2> QED BY <2>4, <2>5, <2>6, <2>7, <2>8 DEF ca, nl
<1> HIDE DEF Good
<1>5. T = {}
  <2> SUFFICES ASSUME T # {} PROVE FALSE
    OBVIOUS
  <2>1. PICK m \in T : \A n \in T : m <= n
    <3>1. T \subseteq Nat
      BY <1>1
    <3> HIDE DEF T
    <3> QED BY <3>1, Least
  <2>2. m \in 1 .. Len(b) /\ ~Good(SubSeq(b, 1, m)) /\ m \in Nat
    BY <1>1
  <2>3. b[m] \in Seq(Cells)
    BY <2>2 DEF Texts
  <2>4. CASE m = 1
    <3>1. SubSeq(b, 1, m) = <<b[m]>>
      BY <1>1, <2>4, FirstOnly DEF Texts
    <3> QED BY <1>3, <2>2, <2>3, <3>1
  <2>5. CASE m # 1
    <3>1. PICK k : k = m - 1
      OBVIOUS
    <3>2. k \in Nat /\ k < Len(b) /\ k \in 0 .. Len(b) /\ k > 0 /\ m = k + 1 /\ k \in 1 .. Len(b) /\ ~(m <= k)
      BY <1>1, <2>2, <2>5, <3>1
    <3>3. Good(SubSeq(b, 1, k))
      BY <2>1, <3>2
    <3> DEFINE c == SubSeq(b, 1, k)
    <3>4. c \in Texts /\ Len(c) = k
      BY <3>2, SubSeqType DEF Texts
    <3>5. SubSeq(b, 1, m) = Append(c, b[m])
      BY <3>2, OneMoreCell DEF Texts
    <3> HIDE DEF c
    <3>6. Append(c, b[m]) = c \o <<b[m]>>
      BY <2>3, <3>4 DEF Texts
    <3>7. c # <<>>
      BY <3>2, <3>4
    <3> QED BY <1>4, <2>2, <2>3, <3>3, <3>4, <3>5, <3>6, <3>7 DEF c
  <2> QED BY <2>4, <2>5
<1>6. Good(SubSeq(b, 1, Len(b)))
  BY <1>1, <1>5
<1> QED BY <1>1, <1>6 DEF Good

\* What is taken from two sequences, one after the other.
LEMMA Halves ==
  ASSUME NEW S, NEW p \in Seq(S), NEW q \in Seq(S), NEW n, n = Len(p)
  PROVE  SubSeq(p \o q, 1, n) = p /\ Drop(p \o q, n) = q
<1> DEFINE s == p \o q
           a == SubSeq(s, 1, n)
           b == Drop(s, n)
<1>1. /\ s \in Seq(S) /\ Len(s) = n + Len(q) /\ n \in Nat /\ Len(q) \in Nat
      /\ \A i \in 1 .. n : s[i] = p[i]
      /\ \A i \in n + 1 .. n + Len(q) : s[i] = q[i - n]
  BY ConcatType DEF Concatenated
<1> HIDE DEF s
<1>2. a = p
  <2>1. n \in 0 .. Len(s)
    BY <1>1
  <2>2. a \in Seq(S) /\ Len(a) = n /\ \A i \in 1 .. n : a[i] = s[i]
    BY <1>1, <2>1, SubSeqType
  <2> HIDE DEF a
  <2>3. \A i \in 1 .. Len(a) : a[i] = p[i]
    BY <1>1, <2>2
  <2> QED BY <2>2, <2>3, SameSequence
<1>3. b = q
  <2>0. n <= Len(s)
    BY <1>1
  <2>1. b \in Seq(S) /\ Len(b) = Len(s) - n /\ \A i \in 1 .. Len(s) - n : b[i] = s[n + i]
    BY <1>1, <2>0, DropSome
  <2> HIDE DEF b
  <2>2. Len(b) = Len(q)
    BY <1>1, <2>1
  <2>3. ASSUME NEW i \in 1 .. Len(b) PROVE b[i] = q[i]
    <3>1. PICK j : j = n + i
      OBVIOUS
    <3>2. j \in n + 1 .. n + Len(q) /\ i = j - n /\ i \in 1 .. Len(s) - n
      BY <1>1, <2>1, <2>2, <3>1
    <3>3. b[i] = s[j] /\ s[j] = q[j - n]
      BY <1>1, <2>1, <3>1, <3>2
    <3> QED BY <3>2, <3>3
  <2> QED BY <2>1, <2>2, <2>3, SameSequence
<1> QED BY <1>2, <1>3 DEF a, b, s

\* The two parts of a sequence make it.
LEMMA BothParts ==
  ASSUME NEW S, NEW s \in Seq(S), NEW n \in 0 .. Len(s)
  PROVE  /\ s = SubSeq(s, 1, n) \o Drop(s, n)
         /\ SubSeq(s, 1, n) \in Seq(S) /\ Len(SubSeq(s, 1, n)) = n
         /\ Drop(s, n) \in Seq(S) /\ Len(Drop(s, n)) = Len(s) - n
<1> DEFINE a == SubSeq(s, 1, n)
           b == Drop(s, n)
           t == a \o b
<1>1. a \in Seq(S) /\ Len(a) = n /\ \A i \in 1 .. n : a[i] = s[i]
  BY SubSeqType
<1>2. b \in Seq(S) /\ Len(b) = Len(s) - n /\ \A i \in 1 .. Len(s) - n : b[i] = s[n + i]
  BY DropSome
<1> HIDE DEF a, b
<1>3. /\ t \in Seq(S) /\ Len(t) = n + Len(b)
      /\ \A i \in 1 .. n : t[i] = a[i]
      /\ \A i \in n + 1 .. n + Len(b) : t[i] = b[i - n]
  BY <1>1, <1>2, ConcatType DEF Concatenated
<1> HIDE DEF t
<1>4. Len(t) = Len(s) /\ n \in Nat /\ Len(s) \in Nat /\ n <= Len(s)
  BY <1>2, <1>3
<1>5. ASSUME NEW i \in 1 .. Len(s) PROVE s[i] = t[i]
  <2>1. CASE i <= n
    <3>1. i \in 1 .. n
      BY <1>4, <2>1
    <3> QED BY <1>1, <1>3, <3>1
  <2>2. CASE i > n
    <3>1. PICK j : j = i - n
      OBVIOUS
    <3>2. i \in n + 1 .. n + Len(b) /\ j \in 1 .. Len(s) - n /\ n + j = i
      BY <1>2, <1>4, <2>2, <3>1
    <3>3. t[i] = b[j] /\ b[j] = s[n + j]
      BY <1>2, <1>3, <3>1, <3>2
    <3> QED BY <3>2, <3>3
  <2> QED BY <1>4, <2>1, <2>2
<1>6. s = t
  BY <1>3, <1>4, <1>5, SameSequence
<1> QED BY <1>1, <1>2, <1>6 DEF a, b, t

\* A sequence around one of its elements, the one that n come before.
Surrounds(S, s, n, a, e, b) ==
  /\ a \in Seq(S) /\ e \in S /\ b \in Seq(S)
  /\ s = a \o <<e>> \o b /\ n = Len(a)

\* What it is, from its parts, and its parts, from it.
LEMMA Around ==
  ASSUME NEW S, NEW s, NEW n, NEW a, NEW e, NEW b, Surrounds(S, s, n, a, e, b)
  PROVE  /\ s \in Seq(S) /\ Len(s) = n + 1 + Len(b) /\ s[n + 1] = e /\ n \in Nat /\ Len(b) \in Nat
         /\ SubSeq(s, 1, n) = a /\ Drop(s, n + 1) = b
<1> DEFINE one == <<e>>
           ae == a \o one
           eb == one \o b
<1>0. a \in Seq(S) /\ e \in S /\ b \in Seq(S) /\ s = ae \o b /\ n = Len(a)
  BY DEF Surrounds
<1>1. one \in Seq(S) /\ n \in Nat /\ Len(b) \in Nat
  BY <1>0
<1>2. ae \in Seq(S) /\ Len(ae) = n + 1 /\ ae[n + 1] = e
  BY <1>0, OneAfter
<1> HIDE DEF one
<1>3. s = a \o eb
  <2>1. a \in Seq(S) /\ one \in Seq(S) /\ b \in Seq(S)
    BY <1>0, <1>1
  <2>2. (a \o one) \o b = a \o (one \o b)
    BY <2>1, Associative
  <2> QED BY <1>0, <2>2
<1>4. eb \in Seq(S)
  BY <1>0, <1>1
<1> HIDE DEF ae, eb
<1>5. PICK k : k = n + 1
  OBVIOUS
<1>6. k = Len(ae) /\ ae[k] = e /\ k \in 1 .. Len(ae)
  BY <1>1, <1>2, <1>5
<1>7. ae \o b \in Seq(S) /\ Len(ae \o b) = Len(ae) + Len(b) /\ \A i \in 1 .. Len(ae) : (ae \o b)[i] = ae[i]
  BY <1>0, <1>2, OthersAfter
<1>8. SubSeq(a \o eb, 1, n) = a
  BY <1>0, <1>4, Halves
<1>9. Drop(ae \o b, k) = b
  BY <1>0, <1>2, <1>6, Halves
<1>10. s[k] = e
  BY <1>0, <1>6, <1>7
<1> QED BY <1>0, <1>1, <1>2, <1>3, <1>5, <1>7, <1>8, <1>9, <1>10

\* Each element of a sequence is in the middle of it.
LEMMA Middle ==
  ASSUME NEW S, NEW s \in Seq(S), NEW n \in Nat, n < Len(s)
  PROVE  Surrounds(S, s, n, SubSeq(s, 1, n), s[n + 1], Drop(s, n + 1))
<1>1. PICK k : k = n + 1
  OBVIOUS
<1> DEFINE a == SubSeq(s, 1, n)
           b == Drop(s, k)
           e == s[k]
<1>2. k \in 0 .. Len(s) /\ n \in 0 .. Len(s) /\ k \in 1 .. Len(s)
  BY <1>1
<1>3. s = SubSeq(s, 1, k) \o b /\ b \in Seq(S)
  BY <1>2, BothParts
<1>4. SubSeq(s, 1, k) = Append(a, e) /\ a \in Seq(S) /\ e \in S
  BY <1>1, OneMoreCell
<1>5. Len(a) = n
  BY <1>2, SubSeqType
<1> HIDE DEF a, b, e
<1>6. Append(a, e) = a \o <<e>>
  BY <1>4
<1>7. Surrounds(S, s, n, a, e, b)
  BY <1>3, <1>4, <1>5, <1>6 DEF Surrounds
<1> QED BY <1>1, <1>7 DEF a, b, e

\* Another element in its place.
LEMMA Put ==
  ASSUME NEW S, NEW s, NEW n, NEW a, NEW e, NEW b, Surrounds(S, s, n, a, e, b), NEW f \in S
  PROVE  Surrounds(S, [s EXCEPT ![n + 1] = f], n, a, f, b)
<1>0. PICK k : k = n + 1
  OBVIOUS
<1> DEFINE t == [s EXCEPT ![k] = f]
           u == SubSeq(t, 1, n)
           v == Drop(t, k)
<1>1. /\ s \in Seq(S) /\ Len(s) = n + 1 + Len(b) /\ n \in Nat /\ Len(b) \in Nat
      /\ SubSeq(s, 1, n) = a /\ Drop(s, k) = b
  BY <1>0, Around
<1>2. /\ k \in 1 .. Len(s) /\ n < Len(s) /\ n \in 0 .. Len(s) /\ k \in Nat /\ k <= Len(s)
      /\ Len(s) - k = Len(b)
  BY <1>0, <1>1
<1>3. t \in Seq(S) /\ Len(t) = Len(s) /\ t[k] = f
  BY <1>1, <1>2
<1>4. \A i \in 1 .. Len(s) : i # k => t[i] = s[i]
  BY <1>1
<1> HIDE DEF t
<1>5. u = a
  <2>2. u \in Seq(S) /\ Len(u) = n /\ \A i \in 1 .. n : u[i] = t[i]
    <3>1. n \in 0 .. Len(t)
      BY <1>2, <1>3
    <3> QED BY <1>3, <3>1, SubSeqType
  <2>3. a \in Seq(S) /\ Len(a) = n /\ \A i \in 1 .. n : a[i] = s[i]
    BY <1>1, <1>2, SubSeqType
  <2>4. \A i \in 1 .. n : i \in 1 .. Len(s) /\ i # k
    BY <1>0, <1>1, <1>2
  <2> HIDE DEF u
  <2>5. \A i \in 1 .. Len(u) : u[i] = a[i]
    BY <1>4, <2>2, <2>3, <2>4
  <2> QED BY <2>2, <2>3, <2>5, SameSequence
<1>6. v = b
  <2>1. v \in Seq(S) /\ Len(v) = Len(b) /\ \A i \in 1 .. Len(b) : v[i] = t[k + i]
    <3>1. k <= Len(t) /\ Len(t) - k = Len(b)
      BY <1>2, <1>3
    <3> QED BY <1>2, <1>3, <3>1, DropSome
  <2>2. b \in Seq(S) /\ \A i \in 1 .. Len(b) : b[i] = s[k + i]
    BY <1>1, <1>2, DropSome
  <2>3. \A i \in 1 .. Len(b) : k + i \in 1 .. Len(s) /\ k + i # k
    BY <1>1, <1>2
  <2> HIDE DEF v
  <2>4. \A i \in 1 .. Len(b) : t[k + i] = s[k + i]
    BY <1>4, <2>3
  <2>5. \A i \in 1 .. Len(v) : v[i] = b[i]
    BY <2>1, <2>2, <2>4
  <2> QED BY <2>1, <2>2, <2>5, SameSequence
<1>7. Surrounds(S, t, n, u, t[k], v)
  <2>1. n < Len(t)
    BY <1>2, <1>3
  <2> QED BY <1>0, <1>1, <1>3, <2>1, Middle
<1> QED BY <1>0, <1>3, <1>5, <1>6, <1>7 DEF t

\* The text of a line and of what is above and below it.
LEMMA TextAround ==
  ASSUME NEW ls, NEW y, NEW a, NEW l, NEW b, Surrounds(Seq(Cells), ls, y, a, l, b)
  PROVE  ConcatLines(ls) = (Above(a) \o l) \o Below(b)
<1>1. a \in Texts /\ l \in Seq(Cells) /\ b \in Texts /\ ls = a \o <<l>> \o b
  BY DEF Surrounds, Texts
<1> DEFINE al == a \o <<l>>
<1>2. al \in Texts /\ al # <<>>
  <2>1. al \in Seq(Seq(Cells)) /\ Len(al) = Len(a) + 1
    BY <1>1, OneAfter DEF Texts
  <2>2. Len(a) \in Nat
    BY <1>1 DEF Texts
  <2> HIDE DEF al
  <2>3. Len(al) > 0
    BY <2>1, <2>2
  <2> QED BY <2>1, <2>3 DEF Texts
<1>3. ConcatLines(al) = Above(a) \o l
  BY <1>1, TextAbove
<1> HIDE DEF al
<1>4. ConcatLines(al \o b) = ConcatLines(al) \o Below(b)
  <2>1. CASE b = <<>>
    <3>1. al \o b = al
      BY <1>2, <2>1 DEF Texts
    <3>2. ConcatLines(al) \in Seq(Chars)
      BY <1>2, TextType
    <3>3. ConcatLines(al) \o <<>> = ConcatLines(al)
      BY <3>2, Nothing
    <3> QED BY <2>1, <3>1, <3>3 DEF Below
  <2>2. CASE b # <<>>
    BY <1>1, <1>2, <2>2, TextOfBoth DEF Below
  <2> QED BY <2>1, <2>2
<1> QED BY <1>1, <1>3, <1>4 DEF al

\* The lines around a place: lines above, two parts of one line, lines below.
At(ls, x, y, a, p, q, b) ==
  /\ Surrounds(Seq(Cells), ls, y, a, p \o q, b)
  /\ p \in Seq(Cells) /\ q \in Seq(Cells) /\ x = Len(p)

\* Each place in the lines has them.
LEMMA AtExists ==
  ASSUME NEW ls \in Texts, NEW x \in Nat, NEW y \in Nat, y < Len(ls), x <= Len(Line(ls, y))
  PROVE  At(ls, x, y, SubSeq(ls, 1, y), SubSeq(Line(ls, y), 1, x), Drop(Line(ls, y), x), Drop(ls, y + 1))
<1> DEFINE l == Line(ls, y)
           p == SubSeq(l, 1, x)
           q == Drop(l, x)
           a == SubSeq(ls, 1, y)
           b == Drop(ls, y + 1)
<1>1. l \in Seq(Cells) /\ Len(l) \in Nat
  BY LineType
<1>2. Surrounds(Seq(Cells), ls, y, a, l, b)
  BY Middle DEF Texts, Line
<1> HIDE DEF l, a, b
<1>3. x \in 0 .. Len(l)
  BY <1>1 DEF l
<1>4. l = p \o q /\ p \in Seq(Cells) /\ Len(p) = x /\ q \in Seq(Cells)
  BY <1>1, <1>3, BothParts
<1> HIDE DEF p, q
<1>5. At(ls, x, y, a, p, q, b)
  BY <1>2, <1>4 DEF At
<1> QED BY <1>5 DEF a, b, l, p, q

\* The text to the left and to the right of a place.
Left(a, p) == Above(a) \o p
Right(q, b) == q \o Below(b)

\* The text is these two, and the first is as long as PosOf says.
LEMMA TextAt ==
  ASSUME NEW ls, NEW x, NEW y, NEW a, NEW p, NEW q, NEW b, At(ls, x, y, a, p, q, b)
  PROVE  /\ ConcatLines(ls) = Left(a, p) \o Right(q, b)
         /\ Left(a, p) \in Seq(Chars) /\ Right(q, b) \in Seq(Chars)
         /\ Len(Left(a, p)) = Len(ConcatLines(SubSeq(ls, 1, y))) + (IF y > 0 THEN 1 ELSE 0) + x
<1> DEFINE up == Above(a)
           down == Below(b)
           line == p \o q
<1>1. /\ Surrounds(Seq(Cells), ls, y, a, line, b) /\ a \in Texts /\ b \in Texts /\ y = Len(a)
      /\ p \in Seq(Cells) /\ q \in Seq(Cells) /\ x = Len(p)
  BY DEF At, Surrounds, Texts
<1>2. ConcatLines(ls) = (up \o line) \o down /\ SubSeq(ls, 1, y) = a
  <2> HIDE DEF line
  <2>1. ConcatLines(ls) = (Above(a) \o line) \o Below(b)
    BY <1>1, TextAround
  <2>2. SubSeq(ls, 1, y) = a
    BY <1>1, Around
  <2> QED BY <2>1, <2>2
<1>3. up \in Seq(Chars) /\ down \in Seq(Chars) /\ ConcatLines(a) \in Seq(Chars)
  BY <1>1, TextType
<1>4. p \in Seq(Chars) /\ q \in Seq(Chars)
  BY <1>1, CharsType
<1>5. Len(up) = Len(ConcatLines(a)) + (IF y > 0 THEN 1 ELSE 0)
  <2>1. CASE a = <<>>
    <3>1. Len(up) = 0 /\ Len(ConcatLines(a)) = 0 /\ y = 0
      BY <1>1, <2>1 DEF Above, ConcatLines
    <3> QED BY <3>1
  <2>2. CASE a # <<>>
    <3> DEFINE c == ConcatLines(a)
    <3>1. c \in Seq(Chars) /\ NewLine \in Chars /\ up = c \o <<NewLine>>
      BY <1>3, <2>2 DEF Above, Chars
    <3>2. y > 0
      BY <1>1, <2>2 DEF Texts
    <3> HIDE DEF up, c
    <3>3. Len(up) = Len(c) + 1
      BY <3>1, OneAfter
    <3> QED BY <3>2, <3>3 DEF c
  <2> QED BY <2>1, <2>2
<1> HIDE DEF up, down, line
<1>6. up \o p \in Seq(Chars) /\ q \o down \in Seq(Chars) /\ Len(up \o p) = Len(up) + x
  BY <1>1, <1>3, <1>4
<1>7. (up \o line) \o down = (up \o p) \o (q \o down)
  <2> DEFINE upp == up \o p
  <2>1. up \o line = upp \o q
    <3>1. (up \o p) \o q = up \o (p \o q)
      <4>1. up \in Seq(Chars) /\ p \in Seq(Chars) /\ q \in Seq(Chars)
        BY <1>3, <1>4
      <4> QED BY <4>1, Associative
    <3> QED BY <3>1 DEF line
  <2>2. (upp \o q) \o down = upp \o (q \o down)
    <3>1. upp \in Seq(Chars) /\ q \in Seq(Chars) /\ down \in Seq(Chars)
      BY <1>3, <1>4, <1>6
    <3> HIDE DEF upp
    <3> QED BY <3>1, Associative
  <2> QED BY <2>1, <2>2
<1>8. Len(up) + x = Len(ConcatLines(a)) + (IF y > 0 THEN 1 ELSE 0) + x
  BY <1>5
<1> QED BY <1>2, <1>6, <1>7, <1>8 DEF Left, Right, up, down

\* Nothing is added to what is long enough.
LEMMA PadEnough ==
  ASSUME NEW S, NEW s \in Seq(S), NEW n \in Int, n <= Len(s), NEW e \in S
  PROVE  Pad(s, n, e) = s
<1> DEFINE t == Pad(s, n, e)
<1>1. t \in Seq(S) /\ Len(t) = Len(s) /\ \A i \in 1 .. Len(s) : t[i] = s[i]
  BY PadSome
<1> HIDE DEF t
<1>2. t = s
  BY <1>1, SameSequence
<1> QED BY <1>2 DEF t

\* Writing before the rest q of a line, or over its first rune.
LEMMA WriteAt ==
  ASSUME NEW ls, NEW x, NEW y, NEW a, NEW p, NEW q, NEW b, At(ls, x, y, a, p, q, b),
         NEW ch \in Cells, NEW over \in BOOLEAN, NEW r \in Seq(Cells),
         \/ ~over /\ r = q
         \/ over /\ q = <<>> /\ r = <<>>
         \/ over /\ \E d \in Cells : q = <<d>> \o r
  PROVE  At(WriteRune(ls, x, y, ch, over), x + 1, y, a, p \o <<ch>>, r, b)
<1> DEFINE S == Seq(Cells)
           l == p \o q
           all == Pad(ls, y + 1, <<>>)
           line == Pad(Line(all, y), x, NUL)
           from == IF over THEN x + 1 ELSE x
           new == p \o <<ch>> \o r
<1>1. Surrounds(S, ls, y, a, l, b) /\ p \in S /\ q \in S /\ x = Len(p) /\ l \in S /\ x \in Nat
  BY DEF At, Surrounds
<1>2. /\ ls \in Seq(S) /\ Len(ls) = y + 1 + Len(b) /\ ls[y + 1] = l /\ y \in Nat /\ Len(b) \in Nat
  <2> HIDE DEF S, l
  <2> QED BY <1>1, Around
<1>3. all = ls
  <2> DEFINE k == y + 1
             e == <<>>
  <2>1. k \in Int /\ k <= Len(ls) /\ e \in S
    BY <1>2
  <2> HIDE DEF k, e, S
  <2>2. Pad(ls, k, e) = ls
    BY <1>2, <2>1, PadEnough
  <2> QED BY <2>2 DEF k, e
<1>4. Line(all, y) = l
  BY <1>2, <1>3 DEF Line
<1>5. line = l
  <2>1. Len(l) = x + Len(q) /\ Len(q) \in Nat
    BY <1>1, OthersAfter
  <2>2. x <= Len(l) /\ x \in Int /\ NUL \in Cells
    BY <1>1, <2>1 DEF Cells
  <2> HIDE DEF l, all
  <2>3. Pad(l, x, NUL) = l
    BY <1>1, <2>2, PadEnough
  <2> QED BY <1>4, <2>3
<1>6. SubSeq(l, 1, x) = p /\ Drop(l, x) = q
  BY <1>1, Halves
<1>7. Drop(l, from) = r
  <2>1. CASE ~over
    BY <1>6, <2>1
  <2>2. CASE over /\ q = <<>> /\ r = <<>>
    <3>1. l = p
      BY <1>1, <2>2, Nothing
    <3>2. from \in Nat /\ from > Len(p)
      BY <1>1, <2>2
    <3> HIDE DEF l, from
    <3>3. Drop(l, from) \in S /\ Len(Drop(l, from)) = 0
      BY <1>1, <3>1, <3>2, DropSome
    <3> DEFINE drop == Drop(l, from)
    <3>4. drop \in Seq(Cells) /\ Len(drop) = 0
      BY <3>3
    <3> HIDE DEF drop
    <3>5. drop = <<>>
      BY <3>4
    <3> QED BY <2>2, <3>5 DEF drop
  <2>3. CASE over /\ \E d \in Cells : q = <<d>> \o r
    <3>1. PICK d \in Cells : q = <<d>> \o r
      BY <2>3
    <3> DEFINE pd == p \o <<d>>
               one == <<d>>
    <3>2. pd \in S /\ Len(pd) = x + 1
      BY <1>1, OneAfter
    <3>3. p \in Seq(Cells) /\ one \in Seq(Cells) /\ r \in Seq(Cells)
      BY <1>1
    <3> HIDE DEF one
    <3>4. (p \o one) \o r = p \o (one \o r)
      BY <3>3, Associative
    <3>5. l = pd \o r
      BY <3>1, <3>4 DEF one
    <3>6. from = Len(pd)
      BY <2>3, <3>2
    <3> HIDE DEF l, pd, from
    <3> QED BY <3>2, <3>5, <3>6, Halves
  <2> QED BY <2>1, <2>2, <2>3
<1>8. WriteRune(ls, x, y, ch, over) = [ls EXCEPT ![y + 1] = new]
  <2>1. WriteRune(ls, x, y, ch, over) =
          [all EXCEPT ![y + 1] = SubSeq(line, 1, x) \o <<ch>> \o Drop(line, from)]
    BY DEF WriteRune
  <2> HIDE DEF all, line, l, from
  <2> QED BY <1>3, <1>5, <1>6, <1>7, <2>1
<1>9. p \o <<ch>> \in S /\ Len(p \o <<ch>>) = x + 1
  BY <1>1, OneAfter
<1>10. new \in S
  <2> DEFINE pc == p \o <<ch>>
  <2>1. pc \in Seq(Cells)
    BY <1>9
  <2> HIDE DEF pc
  <2>2. pc \o r \in Seq(Cells)
    BY <2>1
  <2> QED BY <2>2 DEF pc
<1> HIDE DEF l, new
<1>11. Surrounds(S, [ls EXCEPT ![y + 1] = new], y, a, new, b)
  <2> HIDE DEF S
  <2> QED BY <1>1, <1>10, Put
<1> QED BY <1>8, <1>9, <1>11 DEF At, new

\* Deleting the rune at a place.
LEMMA DeleteAt ==
  ASSUME NEW ls, NEW x, NEW y, NEW a, NEW p, NEW c \in Cells, NEW q \in Seq(Cells), NEW b,
         At(ls, x, y, a, p, <<c>> \o q, b)
  PROVE  At(DeleteRune(ls, x, y), x, y, a, p, q, b)
<1> DEFINE S == Seq(Cells)
           one == <<c>>
           rest == one \o q
           l == p \o rest
           pc == p \o one
           new == p \o q
<1>1. Surrounds(S, ls, y, a, l, b) /\ p \in S /\ rest \in S /\ x = Len(p) /\ x \in Nat /\ new \in S
  BY DEF At, Surrounds
<1>2. /\ ls \in Seq(S) /\ Len(ls) = y + 1 + Len(b) /\ ls[y + 1] = l /\ y \in Nat /\ Len(b) \in Nat
  <2> HIDE DEF S, l
  <2> QED BY <1>1, Around
<1>3. pc \in S /\ Len(pc) = x + 1 /\ one \in S
  BY <1>1, OneAfter
<1>4. l = pc \o q
  <2>1. p \in Seq(Cells) /\ one \in Seq(Cells) /\ q \in Seq(Cells)
    BY <1>1, <1>3
  <2> HIDE DEF one
  <2>2. (p \o one) \o q = p \o (one \o q)
    BY <2>1, Associative
  <2> QED BY <2>2
<1>5. SubSeq(l, 1, x) = p
  <2> HIDE DEF rest
  <2> QED BY <1>1, Halves
<1>6. Drop(l, x + 1) = q
  <2>1. PICK k : k = x + 1
    OBVIOUS
  <2>2. k = Len(pc)
    BY <1>3, <2>1
  <2> HIDE DEF pc, l
  <2>3. Drop(pc \o q, k) = q
    BY <1>3, <2>2, Halves
  <2> QED BY <1>4, <2>1, <2>3
<1>7. Line(ls, y) = l
  BY <1>2 DEF Line
<1>8. x < Len(l)
  <2>1. Len(l) = Len(pc) + Len(q) /\ Len(q) \in Nat
    <3>1. pc \in Seq(Cells) /\ q \in Seq(Cells) /\ l = pc \o q
      BY <1>3, <1>4
    <3> HIDE DEF pc, l
    <3>2. Len(pc \o q) = Len(pc) + Len(q) /\ Len(q) \in Nat
      BY <3>1, OthersAfter
    <3> QED BY <3>1, <3>2
  <2> QED BY <1>1, <1>3, <2>1
<1>9. CanDelete(ls, x, y)
  BY <1>1, <1>2, <1>7, <1>8 DEF CanDelete
<1>10. DeleteRune(ls, x, y) = [ls EXCEPT ![y + 1] = new]
  <2>1. DeleteRune(ls, x, y) = [ls EXCEPT ![y + 1] = SubSeq(ls[y + 1], 1, x) \o Drop(ls[y + 1], x + 1)]
    BY <1>9 DEF DeleteRune
  <2> HIDE DEF l
  <2> QED BY <1>2, <1>5, <1>6, <2>1
<1> HIDE DEF new, l
<1>11. Surrounds(S, [ls EXCEPT ![y + 1] = new], y, a, new, b)
  <2> HIDE DEF S
  <2> QED BY <1>1, Put
<1> QED BY <1>1, <1>10, <1>11 DEF At, new

\* Two elements are one after the other.
LEMMA PairOf ==
  ASSUME NEW S, NEW e \in S, NEW f \in S
  PROVE  <<e>> \in Seq(S) /\ <<f>> \in Seq(S) /\ <<e, f>> = <<e>> \o <<f>>
<1> DEFINE s == <<e>>
           t == <<e, f>>
           u == s \o <<f>>
<1>1. s \in Seq(S) /\ <<f>> \in Seq(S) /\ t \in Seq(S) /\ Len(t) = 2 /\ t[1] = e /\ t[2] = f
  OBVIOUS
<1>2. Len(s) = 1 /\ s[1] = e
  OBVIOUS
<1>3. u \in Seq(S) /\ Len(u) = Len(s) + 1 /\ u[Len(s) + 1] = f
  <2> HIDE DEF s
  <2> QED BY <1>1, OneAfter
<1>4. \A i \in 1 .. Len(s) : u[i] = s[i]
  <2> DEFINE v == <<f>>
  <2>1. v \in Seq(S) /\ u = s \o v
    BY <1>1
  <2> HIDE DEF s, u, v
  <2>2. \A i \in 1 .. Len(s) : (s \o v)[i] = s[i]
    BY <1>1, <2>1, OthersAfter
  <2> QED BY <2>1, <2>2
<1>5. 1 \in 1 .. Len(s) /\ Len(s) + 1 = 2
  BY <1>2
<1> HIDE DEF s, t, u
<1>6. Len(u) = 2 /\ u[1] = e /\ u[2] = f
  BY <1>2, <1>3, <1>4, <1>5
<1>7. \A i \in 1 .. Len(t) : t[i] = u[i]
  BY <1>1, <1>6
<1>8. t = u
  BY <1>1, <1>3, <1>6, <1>7, SameSequence
<1> QED BY <1>1, <1>8 DEF s, t, u

\* Breaking a line at a place.
LEMMA BreakAt ==
  ASSUME NEW ls, NEW x, NEW y, NEW a, NEW p, NEW q, NEW b, At(ls, x, y, a, p, q, b)
  PROVE  At(BreakLine(ls, x, y), 0, y + 1, a \o <<p>>, <<>>, q, b)
<1> DEFINE S == Seq(Cells)
           l == p \o q
           ap == a \o <<p>>
           one == <<p>>
           two == <<q>>
<1>1. /\ Surrounds(S, ls, y, a, l, b) /\ p \in S /\ q \in S /\ x = Len(p) /\ l \in S /\ x \in Nat
      /\ a \in Seq(S) /\ b \in Seq(S) /\ y = Len(a)
  BY DEF At, Surrounds
<1>2. /\ ls \in Seq(S) /\ Len(ls) = y + 1 + Len(b) /\ ls[y + 1] = l /\ y \in Nat /\ Len(b) \in Nat
      /\ SubSeq(ls, 1, y) = a /\ Drop(ls, y + 1) = b
  <2> HIDE DEF S, l
  <2> QED BY <1>1, Around
<1>3. Line(ls, y) = l
  BY <1>2 DEF Line
<1>4. Len(l) = x + Len(q) /\ Len(q) \in Nat
  BY <1>1, OthersAfter
<1>5. SubSeq(l, 1, x) = p /\ Drop(l, x) = q
  BY <1>1, Halves
<1>6. (IF x < Len(l) THEN x ELSE Len(l)) = x
  BY <1>1, <1>4
<1>7. BreakLine(ls, x, y) = a \o <<p, q>> \o b
  <2> DEFINE at == IF x < Len(l) THEN x ELSE Len(l)
  <2>1. y >= 0 /\ y < Len(ls)
    BY <1>2
  <2>2. BreakLine(ls, x, y) =
          SubSeq(ls, 1, y) \o <<SubSeq(l, 1, at), Drop(l, at)>> \o Drop(ls, y + 1)
    BY <1>3, <2>1 DEF BreakLine
  <2>3. at = x
    BY <1>6
  <2> HIDE DEF at, l
  <2> QED BY <1>2, <1>5, <2>2, <2>3
<1>8. one \in Seq(S) /\ two \in Seq(S) /\ <<p, q>> = one \o two
  <2> HIDE DEF S
  <2> QED BY <1>1, PairOf
<1>9. ap \in Seq(S) /\ Len(ap) = y + 1
  <2> HIDE DEF S
  <2> QED BY <1>1, OneAfter
<1>10. a \o <<p, q>> \o b = ap \o <<q>> \o b
  <2> HIDE DEF S, one, two
  <2>0. a \in Seq(S) /\ one \in Seq(S) /\ two \in Seq(S)
    BY <1>1, <1>8
  <2>1. (a \o one) \o two = a \o (one \o two)
    BY <2>0, Associative
  <2> QED BY <1>8, <2>1 DEF one, two
<1>11. <<>> \o q = q /\ <<>> \in S /\ Len(<<>>) = 0
  BY <1>1, Nothing
<1>12. Surrounds(S, BreakLine(ls, x, y), y + 1, ap, q, b)
  <2> HIDE DEF S, ap
  <2> QED BY <1>1, <1>7, <1>9, <1>10 DEF Surrounds
<1> QED BY <1>1, <1>11, <1>12 DEF At

\* Merging the line of a place at its end with the line m below it.
LEMMA MergeAt ==
  ASSUME NEW ls, NEW x, NEW y, NEW a, NEW p, NEW m \in Seq(Cells), NEW b \in Texts,
         At(ls, x, y, a, p, <<>>, <<m>> \o b)
  PROVE  At(MergeLines(ls, y), x, y, a, p, m, b) /\ y + 1 < Len(ls)
<1> DEFINE S == Seq(Cells)
           one == <<p>>
           two == <<m>>
           down == two \o b
           ap == a \o one
<1>1. /\ Surrounds(S, ls, y, a, p \o <<>>, down) /\ p \in S /\ x = Len(p)
      /\ a \in Seq(S) /\ b \in Seq(S) /\ y = Len(a)
  BY DEF At, Surrounds, Texts
<1>2. p \o <<>> = p
  BY <1>1, Nothing
<1>3. Surrounds(S, ls, y, a, p, down) /\ ls = ap \o down
  BY <1>1, <1>2 DEF Surrounds
<1>4. /\ ls \in Seq(S) /\ Len(ls) = y + 1 + Len(down) /\ ls[y + 1] = p /\ y \in Nat
      /\ SubSeq(ls, 1, y) = a
  <2>1. Surrounds(S, ls, y, a, p, down)
    BY <1>3
  <2> HIDE DEF S, down
  <2> QED BY <2>1, Around
<1>5. one \in Seq(S) /\ two \in Seq(S) /\ ap \in Seq(S) /\ Len(ap) = y + 1
  <2>1. one \in Seq(S) /\ two \in Seq(S)
    BY <1>1
  <2> HIDE DEF S
  <2> QED BY <1>1, <2>1, OneAfter
<1>6. PICK k : k = y + 1
  OBVIOUS
<1>7. Surrounds(S, ls, k, ap, m, b)
  <2> HIDE DEF S, ap
  <2>1. (ap \o two) \o b = ap \o (two \o b)
    <3>1. ap \in Seq(S) /\ two \in Seq(S) /\ b \in Seq(S)
      BY <1>1, <1>5
    <3> HIDE DEF two
    <3> QED BY <3>1, Associative
  <2> QED BY <1>1, <1>3, <1>5, <1>6, <2>1 DEF Surrounds, S
<1>8. ls[k + 1] = m /\ Drop(ls, k + 1) = b /\ Len(ls) = k + 1 + Len(b) /\ Len(b) \in Nat
  <2> HIDE DEF S, ap
  <2> QED BY <1>7, Around
<1>9. k + 1 = y + 2 /\ y >= 0 /\ y + 1 < Len(ls)
  BY <1>4, <1>6, <1>8
<1>10. Line(ls, y) = p /\ Line(ls, y + 1) = m
  BY <1>4, <1>6, <1>8 DEF Line
<1>11. MergeLines(ls, y) = a \o <<p \o m>> \o b
  <2>1. MergeLines(ls, y) =
          SubSeq(ls, 1, y) \o <<Line(ls, y) \o Line(ls, y + 1)>> \o Drop(ls, y + 2)
    BY <1>9 DEF MergeLines
  <2> QED BY <1>4, <1>8, <1>9, <1>10, <2>1
<1>12. p \o m \in S
  BY <1>1
<1>13. Surrounds(S, MergeLines(ls, y), y, a, p \o m, b)
  <2> HIDE DEF S
  <2> QED BY <1>1, <1>11, <1>12 DEF Surrounds
<1> QED BY <1>1, <1>9, <1>13 DEF At

\* One more rune or line to the left of a place.
LEMMA LeftMore ==
  ASSUME NEW a \in Texts, NEW p \in Seq(Cells), NEW c \in Cells
  PROVE  /\ Left(a, p \o <<c>>) = Left(a, p) \o <<c>>
         /\ Left(a \o <<p>>, <<>>) = Left(a, p) \o <<NewLine>>
<1> DEFINE up == Above(a)
           one == <<c>>
           nl == <<NewLine>>
<1>1. up \in Seq(Chars) /\ nl \in Seq(Chars)
  BY TextType
<1>2. p \in Seq(Chars) /\ one \in Seq(Chars)
  <2>1. one \in Seq(Cells)
    OBVIOUS
  <2> HIDE DEF one
  <2> QED BY <2>1, CharsType
<1>3. Above(a \o <<p>>) = (up \o p) \o nl
  BY TextAbove
<1> HIDE DEF up, one, nl
<1>4. (up \o p) \o one = up \o (p \o one)
  BY <1>1, <1>2, Associative
<1>5. up \o p \in Seq(Chars)
  BY <1>1, <1>2, OthersAfter
<1> DEFINE upp == up \o p
<1>6. upp \in Seq(Chars)
  BY <1>5
<1> HIDE DEF upp
<1>7. upp \o nl \in Seq(Chars)
  BY <1>1, <1>6, OthersAfter
<1>8. (upp \o nl) \o <<>> = upp \o nl
  <2> DEFINE v == upp \o nl
  <2>1. v \in Seq(Chars)
    BY <1>7
  <2> HIDE DEF v
  <2>2. v \o <<>> = v
    BY <2>1, Nothing
  <2> QED BY <2>2 DEF v
<1> QED BY <1>3, <1>4, <1>8 DEF Left, up, one, nl, upp

\* The same to the right.
LEMMA RightMore ==
  ASSUME NEW b \in Texts, NEW q \in Seq(Cells), NEW c \in Cells
  PROVE  /\ Right(<<c>> \o q, b) = <<c>> \o Right(q, b)
         /\ Right(<<>>, <<q>> \o b) = <<NewLine>> \o Right(q, b)
<1> DEFINE down == Below(b)
           one == <<c>>
           nl == <<NewLine>>
           more == <<q>> \o b
<1>1. down \in Seq(Chars) /\ nl \in Seq(Chars)
  BY TextType
<1>2. q \in Seq(Chars) /\ one \in Seq(Chars)
  <2>1. one \in Seq(Cells)
    OBVIOUS
  <2> HIDE DEF one
  <2> QED BY <2>1, CharsType
<1>3. (one \o q) \o down = one \o (q \o down)
  <2> HIDE DEF one, down
  <2> QED BY <1>1, <1>2, Associative
<1>4. ConcatLines(more) = q \o down
  <2> DEFINE two == <<q>>
             none == <<>>
  <2>1. two \in Seq(Seq(Cells)) /\ none \in Seq(Seq(Cells)) /\ 0 = Len(none) /\ b \in Seq(Seq(Cells))
    BY DEF Texts
  <2>2. none \o two = two
    <3> HIDE DEF two
    <3> QED BY <2>1, Nothing
  <2>3. Surrounds(Seq(Cells), more, 0, none, q, b)
    BY <2>1, <2>2 DEF Surrounds
  <2> HIDE DEF more
  <2>4. ConcatLines(more) = (Above(none) \o q) \o Below(b)
    <3> HIDE DEF none
    <3> QED BY <2>3, TextAround
  <2>5. Above(none) \o q = q
    BY Nothing DEF Above
  <2> QED BY <2>4, <2>5
<1>5. more # <<>> /\ more \in Texts
  <2> DEFINE two == <<q>>
  <2>1. two \in Seq(Seq(Cells)) /\ Len(two) = 1 /\ b \in Seq(Seq(Cells))
    BY DEF Texts
  <2> HIDE DEF two
  <2>2. two \o b \in Seq(Seq(Cells)) /\ Len(two \o b) = Len(two) + Len(b) /\ Len(b) \in Nat
    <3>1. two \o b \in Seq(Seq(Cells)) /\ Len(two \o b) = Len(two) + Len(b)
      BY <2>1, OthersAfter
    <3> QED BY <2>1, <3>1
  <2>3. two \o b # <<>>
    BY <2>1, <2>2
  <2> QED BY <2>2, <2>3 DEF two, Texts
<1>6. Below(more) = nl \o (q \o down)
  BY <1>4, <1>5 DEF Below
<1>7. <<>> \o Below(more) = Below(more)
  <2>1. Below(more) \in Seq(Chars)
    <3> HIDE DEF more
    <3> QED BY <1>5, TextType
  <2> HIDE DEF more
  <2> QED BY <2>1, Nothing
<1> HIDE DEF more
<1> QED BY <1>3, <1>6, <1>7 DEF Right, more

-----------------------------------------------------------------------------
(* The text field.                                                         *)

\* The text is cut at the cursor into l and r, before and after a step.
Cut(l, r) == TextOf = l \o r /\ PosOf = Len(l) /\ l \in Seq(Chars) /\ r \in Seq(Chars)
CutNext(l, r) == TextOf' = l \o r /\ PosOf' = Len(l) /\ l \in Seq(Chars) /\ r \in Seq(Chars)

\* What the text field sees of the two parts.
LEMMA FieldSees ==
  ASSUME NEW l, NEW r, Cut(l, r)
  PROVE  Field!Before = l /\ Field!After = r
<1>1. l \in Seq(Chars) /\ r \in Seq(Chars) /\ TextOf = l \o r /\ PosOf = Len(l)
  BY DEF Cut
<1>2. SubSeq(l \o r, 1, PosOf) = l /\ Drop(l \o r, PosOf) = r
  BY <1>1, Halves
<1> QED BY <1>1, <1>2 DEF Field!Before, Field!After, Drop

\* A character typed at the cursor.
LEMMA FieldInsert ==
  ASSUME NEW l, NEW r, Cut(l, r), NEW c, CutNext(l \o <<c>>, r), c \in Chars
  PROVE  Field!Insert(c)
<1>1. l \in Seq(Chars) /\ PosOf = Len(l) /\ TextOf' = l \o <<c>> \o r /\ PosOf' = Len(l \o <<c>>)
  BY DEF Cut, CutNext
<1>2. Len(l \o <<c>>) = Len(l) + 1
  BY <1>1, OneAfter
<1>3. Field!Before = l /\ Field!After = r
  BY FieldSees
<1> QED BY <1>1, <1>2, <1>3 DEF Field!Insert

\* A character typed over another.
LEMMA FieldReplace ==
  ASSUME NEW l, NEW r, NEW d, Cut(l, <<d>> \o r), NEW c, CutNext(l \o <<c>>, r),
         c \in Chars, d \in Chars, r \in Seq(Chars), d # NewLine
  PROVE  Field!Replace(c)
<1> DEFINE one == <<d>>
<1>1. /\ l \in Seq(Chars) /\ PosOf = Len(l) /\ TextOf = l \o (one \o r)
      /\ TextOf' = l \o <<c>> \o r /\ PosOf' = Len(l \o <<c>>)
  BY DEF Cut, CutNext
<1>2. Len(l \o <<c>>) = Len(l) + 1
  BY <1>1, OneAfter
<1>3. (l \o one) \o r = l \o (one \o r)
  <2>1. l \in Seq(Chars) /\ one \in Seq(Chars) /\ r \in Seq(Chars)
    BY <1>1
  <2> HIDE DEF one
  <2> QED BY <2>1, Associative
<1>4. Surrounds(Chars, TextOf, PosOf, l, d, r)
  BY <1>1, <1>3 DEF Surrounds
<1>5. Len(TextOf) = PosOf + 1 + Len(r) /\ TextOf[PosOf + 1] = d /\ PosOf \in Nat /\ Len(r) \in Nat
  BY <1>4, Around
<1>6. Surrounds(Chars, [TextOf EXCEPT ![PosOf + 1] = c], PosOf, l, c, r)
  BY <1>4, Put
<1>7. [TextOf EXCEPT ![PosOf + 1] = c] = l \o <<c>> \o r
  BY <1>6 DEF Surrounds
<1>8. PosOf < Len(TextOf)
  BY <1>5
<1> QED BY <1>1, <1>2, <1>5, <1>7, <1>8 DEF Field!Replace

\* The character before the cursor, deleted.
LEMMA FieldDeleteBefore ==
  ASSUME NEW l, NEW r, NEW c, Cut(l \o <<c>>, r), CutNext(l, r), c \in Chars
  PROVE  Field!DeleteBefore
<1> DEFINE lc == l \o <<c>>
<1>1. /\ l \in Seq(Chars) /\ r \in Seq(Chars) /\ TextOf = lc \o r /\ PosOf = Len(lc)
      /\ TextOf' = l \o r /\ PosOf' = Len(l)
  BY DEF Cut, CutNext
<1>2. Len(lc) = Len(l) + 1 /\ Len(l) \in Nat
  BY <1>1, OneAfter
<1>3. Field!After = r
  <2>1. Cut(lc, r)
    OBVIOUS
  <2> HIDE DEF lc
  <2> QED BY <2>1, FieldSees
<1>4. PosOf - 1 = Len(l) /\ PosOf > 0
  BY <1>1, <1>2
<1>5. Surrounds(Chars, TextOf, Len(l), l, c, r)
  BY <1>1 DEF Surrounds
<1>6. SubSeq(TextOf, 1, Len(l)) = l
  BY <1>5, Around
<1>7. SubSeq(TextOf, 1, PosOf - 1) = l
  BY <1>4, <1>6
<1>8. PosOf' = PosOf - 1
  BY <1>1, <1>4
<1> QED BY <1>1, <1>3, <1>4, <1>7, <1>8 DEF Field!DeleteBefore

\* The character after it.
LEMMA FieldDeleteAfter ==
  ASSUME NEW l, NEW r, NEW c, Cut(l, <<c>> \o r), CutNext(l, r), c \in Chars
  PROVE  Field!DeleteAfter
<1> DEFINE cr == <<c>> \o r
<1>1. /\ l \in Seq(Chars) /\ r \in Seq(Chars) /\ cr \in Seq(Chars) /\ TextOf = l \o cr /\ PosOf = Len(l)
      /\ TextOf' = l \o r /\ PosOf' = Len(l)
  BY DEF Cut, CutNext
<1>2. Field!Before = l /\ Field!After = cr
  <2>1. Cut(l, cr)
    OBVIOUS
  <2> HIDE DEF cr
  <2> QED BY <2>1, FieldSees
<1>3. Tail(cr) = r /\ Len(cr) > 0 /\ Len(cr) \in Nat
  <2>1. <<c>> \in Seq(Chars) /\ Len(<<c>>) = 1 /\ Len(r) \in Nat
    BY <1>1
  <2>2. Drop(cr, 1) = r
    <3> DEFINE one == <<c>>
    <3>1. one \in Seq(Chars) /\ 1 = Len(one)
      BY <2>1
    <3> HIDE DEF one
    <3>2. Drop(one \o r, 1) = r
      BY <1>1, <3>1, Halves
    <3> QED BY <3>2 DEF one
  <2>3. Len(cr) = 1 + Len(r)
    BY <1>1, <2>1
  <2> HIDE DEF cr
  <2>4. cr # <<>> /\ Tail(cr) = Drop(cr, 1)
    BY <1>1, <2>1, <2>3 DEF Drop
  <2> QED BY <2>1, <2>2, <2>3, <2>4
<1> HIDE DEF cr
<1>4. Len(TextOf) = Len(l) + Len(cr) /\ Len(l) \in Nat
  BY <1>1, OthersAfter
<1>5. PosOf < Len(TextOf)
  BY <1>1, <1>3, <1>4
<1> QED BY <1>1, <1>2, <1>3, <1>5 DEF Field!DeleteAfter

\* The first element and the others.
LEMMA FirstAndRest ==
  ASSUME NEW S, NEW s \in Seq(S), s # <<>>
  PROVE  \E e \in S : \E t \in Seq(S) : s = <<e>> \o t
<1> DEFINE t == Drop(s, 1)
<1>1. 1 \in 0 .. Len(s) /\ Len(s) > 0 /\ s[1] \in S
  OBVIOUS
<1>2. s = SubSeq(s, 1, 1) \o t /\ t \in Seq(S)
  BY <1>1, BothParts
<1>3. SubSeq(s, 1, 1) = <<s[1]>>
  BY <1>1, FirstOnly
<1> HIDE DEF t
<1> QED BY <1>1, <1>2, <1>3

\* A place before a rune.
LEMMA RuneAt ==
  ASSUME NEW ls \in Texts, NEW x \in Nat, NEW y \in Nat, y < Len(ls), x < Len(Line(ls, y))
  PROVE  \E a \in Texts, p \in Seq(Cells), c \in Cells, q \in Seq(Cells), b \in Texts :
           At(ls, x, y, a, p, <<c>> \o q, b)
<1>1. Len(Line(ls, y)) \in Nat /\ Line(ls, y) \in Seq(Cells)
  BY LineType
<1>2. PICK a, p, q, b : At(ls, x, y, a, p, q, b) /\ q = Drop(Line(ls, y), x)
  <2>1. x <= Len(Line(ls, y))
    BY <1>1
  <2> QED BY <2>1, AtExists
<1>3. a \in Texts /\ p \in Seq(Cells) /\ q \in Seq(Cells) /\ b \in Texts
  BY <1>2 DEF At, Surrounds, Texts
<1>4. q # <<>>
  <2> DEFINE l == Line(ls, y)
  <2>1. l \in Seq(Cells) /\ x <= Len(l) /\ x < Len(l)
    BY <1>1
  <2> HIDE DEF l
  <2>2. Len(Drop(l, x)) = Len(l) - x /\ Len(l) \in Nat
    BY <2>1, DropSome
  <2>3. Len(Drop(l, x)) > 0
    BY <2>1, <2>2
  <2>4. Len(q) > 0
    BY <1>2, <2>3 DEF l
  <2> QED BY <2>4
<1>5. PICK c \in Cells : \E r \in Seq(Cells) : q = <<c>> \o r
  BY <1>3, <1>4, FirstAndRest
<1>6. PICK r \in Seq(Cells) : q = <<c>> \o r
  BY <1>5
<1>7. At(ls, x, y, a, p, <<c>> \o r, b)
  BY <1>2, <1>6
<1> QED BY <1>3, <1>5, <1>7

\* The place behind it.
LEMMA BehindRune ==
  ASSUME NEW ls, NEW x, NEW y, NEW a, NEW p, NEW c \in Cells, NEW q \in Seq(Cells), NEW b,
         At(ls, x, y, a, p, <<c>> \o q, b)
  PROVE  At(ls, x + 1, y, a, p \o <<c>>, q, b)
<1> DEFINE one == <<c>>
           pc == p \o one
           l == p \o (one \o q)
<1>1. Surrounds(Seq(Cells), ls, y, a, l, b) /\ p \in Seq(Cells) /\ x = Len(p) /\ one \in Seq(Cells)
  BY DEF At
<1>2. pc \in Seq(Cells) /\ Len(pc) = x + 1
  BY <1>1, OneAfter
<1> HIDE DEF one
<1>3. pc \o q = l
  BY <1>1, Associative
<1> HIDE DEF pc, l
<1>4. At(ls, x + 1, y, a, pc, q, b)
  BY <1>1, <1>2, <1>3 DEF At
<1> QED BY <1>4 DEF pc, one

\* The end of a line that is not the last.
LEMMA EndAt ==
  ASSUME NEW ls \in Texts, NEW y \in Nat, y + 1 < Len(ls)
  PROVE  \E a \in Texts, p \in Seq(Cells), m \in Seq(Cells), b \in Texts :
           At(ls, Len(Line(ls, y)), y, a, p, <<>>, <<m>> \o b)
<1> DEFINE l == Line(ls, y)
           x == Len(l)
<1>1. y < Len(ls) /\ Len(ls) \in Nat
  BY DEF Texts
<1>2. l \in Seq(Cells) /\ x \in Nat
  BY <1>1, LineType
<1>3. PICK a, p, q, b : At(ls, x, y, a, p, q, b) /\ q = Drop(l, x)
  <2>1. x <= x
    BY <1>2
  <2> QED BY <1>1, <1>2, <2>1, AtExists
<1>4. a \in Texts /\ p \in Seq(Cells) /\ q \in Seq(Cells) /\ b \in Texts
  BY <1>3 DEF At, Surrounds, Texts
<1>5. q = <<>>
  <2>1. x \in 0 .. Len(l)
    BY <1>2
  <2>2. Len(Drop(l, x)) = Len(l) - x
    <3>1. l \in Seq(Cells) /\ x \in 0 .. Len(l)
      BY <1>2, <2>1
    <3> HIDE DEF l, x
    <3> QED BY <3>1, BothParts
  <2>3. Len(q) = 0
    BY <1>2, <1>3, <2>2
  <2> QED BY <1>4, <2>3
<1>6. b # <<>>
  <2>1. Surrounds(Seq(Cells), ls, y, a, p \o q, b)
    BY <1>3 DEF At
  <2> DEFINE pq == p \o q
  <2>2. Surrounds(Seq(Cells), ls, y, a, pq, b)
    BY <2>1
  <2> HIDE DEF pq
  <2>3. Len(ls) = y + 1 + Len(b) /\ Len(b) \in Nat
    BY <2>2, Around
  <2>4. Len(b) > 0
    BY <1>1, <2>3
  <2> QED BY <2>4
<1>7. PICK m \in Seq(Cells) : \E r \in Seq(Seq(Cells)) : b = <<m>> \o r
  BY <1>4, <1>6, FirstAndRest DEF Texts
<1>8. PICK r \in Texts : b = <<m>> \o r
  BY <1>7 DEF Texts
<1>9. At(ls, x, y, a, p, <<>>, <<m>> \o r)
  BY <1>3, <1>5, <1>8
<1> QED BY <1>4, <1>8, <1>9

\* The start of the line below.
LEMMA BelowAt ==
  ASSUME NEW ls, NEW x, NEW y, NEW a, NEW p, NEW m \in Seq(Cells), NEW b \in Texts,
         At(ls, x, y, a, p, <<>>, <<m>> \o b)
  PROVE  At(ls, 0, y + 1, a \o <<p>>, <<>>, m, b)
<1> DEFINE S == Seq(Cells)
           one == <<p>>
           two == <<m>>
           down == two \o b
           ap == a \o one
<1>1. /\ Surrounds(S, ls, y, a, p \o <<>>, down) /\ p \in S /\ x = Len(p)
      /\ a \in Seq(S) /\ b \in Seq(S) /\ y = Len(a)
  BY DEF At, Surrounds, Texts
<1>2. p \o <<>> = p
  BY <1>1, Nothing
<1>3. ls = ap \o down
  BY <1>1, <1>2 DEF Surrounds
<1>4. one \in Seq(S) /\ two \in Seq(S) /\ ap \in Seq(S) /\ Len(ap) = y + 1
  <2>1. one \in Seq(S) /\ two \in Seq(S)
    BY <1>1
  <2> HIDE DEF S
  <2> QED BY <1>1, <2>1, OneAfter
<1>5. Surrounds(S, ls, y + 1, ap, m, b)
  <2> HIDE DEF S, ap
  <2>1. (ap \o two) \o b = ap \o (two \o b)
    <3>1. ap \in Seq(S) /\ two \in Seq(S) /\ b \in Seq(S)
      BY <1>1, <1>4
    <3> HIDE DEF two
    <3> QED BY <3>1, Associative
  <2> QED BY <1>1, <1>3, <1>4, <2>1 DEF Surrounds, S
<1>6. <<>> \o m = m /\ <<>> \in S /\ Len(<<>>) = 0
  BY Nothing
<1> QED BY <1>5, <1>6 DEF At

\* The lines of an empty view, as many as the cursor has passed.
Empties(n) == [i \in 1 .. n |-> <<>>]

\* They are a text, and a line end typed there adds one.
LEMMA OneMoreEmpty ==
  ASSUME NEW n \in Nat
  PROVE  /\ Empties(n) \in Texts /\ Len(Empties(n)) = n
         /\ Empties(n + 1) = Empties(n) \o <<(<<>>)>>
<1> DEFINE S == Seq(Cells)
           e == <<>>
           s == Empties(n)
           t == Empties(n + 1)
           u == s \o <<e>>
<1>1. e \in S
  OBVIOUS
<1>2. PICK k : k = n + 1
  OBVIOUS
<1>3. /\ s \in Seq(S) /\ Len(s) = n /\ \A i \in 1 .. n : s[i] = e
      /\ t \in Seq(S) /\ Len(t) = k /\ \A i \in 1 .. k : t[i] = e
  <2> HIDE DEF S, e
  <2> QED BY <1>1, <1>2 DEF Empties, e
<1> HIDE DEF S, e, s, t
<1>4. u \in Seq(S) /\ Len(u) = k /\ u[k] = e
  BY <1>1, <1>2, <1>3, OneAfter
<1>5. \A i \in 1 .. n : u[i] = s[i]
  <2> DEFINE v == <<e>>
  <2>1. v \in Seq(S) /\ u = s \o v
    BY <1>1
  <2> HIDE DEF u, v
  <2>2. \A i \in 1 .. Len(s) : (s \o v)[i] = s[i]
    BY <1>3, <2>1, OthersAfter
  <2> QED BY <1>3, <2>1, <2>2
<1> HIDE DEF u
<1>6. \A i \in 1 .. Len(t) : t[i] = u[i]
  <2>1. \A i \in 1 .. k : i \in 1 .. n \/ i = k
    BY <1>2
  <2> QED BY <1>3, <1>4, <1>5, <2>1
<1>7. t = u
  BY <1>3, <1>4, <1>6, SameSequence
<1> QED BY <1>3, <1>7 DEF s, t, u, e, S, Texts

\* Their text is line ends only.
LEMMA OnlyLineEnds ==
  ASSUME NEW n \in Nat
  PROVE  \A i \in DOMAIN ConcatLines(Empties(n)) : ConcatLines(Empties(n))[i] = NewLine
<1> DEFINE Ends(c) == \A i \in DOMAIN c : c[i] = NewLine
           T == {k \in Nat : ~Ends(ConcatLines(Empties(k)))}
<1> SUFFICES ASSUME T # {} PROVE FALSE
  OBVIOUS
<1>1. PICK m \in T : \A k \in T : m <= k
  <2>1. T \subseteq Nat
    OBVIOUS
  <2> HIDE DEF T
  <2> QED BY <2>1, Least
<1>2. m \in Nat /\ ~Ends(ConcatLines(Empties(m)))
  OBVIOUS
<1>3. CASE m = 0
  <2>1. Empties(0) = <<>>
    BY DEF Empties
  <2>2. ConcatLines(Empties(0)) = <<>>
    BY <2>1 DEF ConcatLines
  <2> QED BY <1>2, <1>3, <2>2
<1>4. CASE m # 0
  <2>1. PICK k : k = m - 1
    OBVIOUS
  <2>2. k \in Nat /\ m = k + 1 /\ ~(m <= k)
    BY <1>2, <1>4, <2>1
  <2>3. Ends(ConcatLines(Empties(k)))
    BY <1>1, <2>2
  <2> DEFINE e == Empties(k)
             c == ConcatLines(e)
             none == <<>>
  <2>4. e \in Texts /\ Len(e) = k /\ Empties(m) = e \o <<none>> /\ none \in Seq(Cells)
    <3>1. e \in Texts /\ Len(e) = k /\ Empties(k + 1) = e \o <<(<<>>)>>
      BY <2>2, OneMoreEmpty
    <3>2. Empties(m) = Empties(k + 1)
      BY <2>2
    <3> HIDE DEF e
    <3> QED BY <3>1, <3>2
  <2> HIDE DEF e
  <2>5. CASE e = <<>>
    <3>1. e \o <<none>> = <<none>>
      BY <2>5
    <3>2. ConcatLines(<<none>>) = none
      <4> HIDE DEF none
      <4> QED BY <2>4, TextOfOne
    <3> QED BY <1>2, <2>4, <3>1, <3>2
  <2>6. CASE e # <<>>
    <3>1. c \in Seq(Chars) /\ ConcatLines(e \o <<none>>) = c \o <<NewLine>> \o none
      <4> HIDE DEF none
      <4> QED BY <2>4, <2>6, TextOfMore
    <3> HIDE DEF c
    <3> DEFINE d == c \o <<NewLine>>
    <3>2. NewLine \in Chars
      BY DEF Chars
    <3>3. /\ d \in Seq(Chars) /\ Len(d) = Len(c) + 1 /\ d[Len(c) + 1] = NewLine
          /\ \A i \in 1 .. Len(c) : d[i] = c[i]
      <4>1. d \in Seq(Chars) /\ Len(d) = Len(c) + 1 /\ d[Len(c) + 1] = NewLine
        BY <3>1, <3>2, OneAfter
      <4> DEFINE nl == <<NewLine>>
      <4>2. nl \in Seq(Chars)
        BY <3>2
      <4> HIDE DEF nl
      <4>3. \A i \in 1 .. Len(c) : (c \o nl)[i] = c[i]
        BY <3>1, <4>2, OthersAfter
      <4> QED BY <4>1, <4>3 DEF nl
    <3> HIDE DEF d
    <3>4. d \o none = d
      BY <3>3, Nothing
    <3>5. \A i \in 1 .. Len(c) : c[i] = NewLine
      BY <2>3, <3>1 DEF c, e
    <3>6. \A i \in 1 .. Len(c) + 1 : i \in 1 .. Len(c) \/ i = Len(c) + 1
      BY <3>1
    <3>7. Ends(d)
      BY <3>3, <3>5, <3>6
    <3>8. ConcatLines(Empties(m)) = d
      BY <2>4, <3>1, <3>4 DEF d
    <3> QED BY <1>2, <3>7, <3>8
  <2> QED BY <2>5, <2>6
<1> QED BY <1>3, <1>4

-----------------------------------------------------------------------------
(* The steps, as the text field sees them.                                 *)

\* The lines of the view, empty ones included.
LEMMA AllLinesAre ==
  AllLines = IF lines = <<>> THEN Empties(cy + 1) ELSE lines
BY DEF AllLines, Empties

\* The cursor is in them.
LEMMA Placed ==
  EditorInv => /\ AllLines \in Texts /\ cx \in Nat /\ cy \in Nat
               /\ cy < Len(AllLines) /\ cx <= Len(Line(AllLines, cy))
               /\ (lines = <<>> => cx = 0 /\ Len(AllLines) = cy + 1)
<1> SUFFICES ASSUME EditorInv
             PROVE  /\ AllLines \in Texts /\ cx \in Nat /\ cy \in Nat
                    /\ cy < Len(AllLines) /\ cx <= Len(Line(AllLines, cy))
                    /\ (lines = <<>> => cx = 0 /\ Len(AllLines) = cy + 1)
  OBVIOUS
<1>1. lines \in Texts /\ cx \in Nat /\ cy \in Nat /\ InText(lines, cx, cy)
  BY Types
<1>2. CASE lines = <<>>
  <2>1. AllLines = Empties(cy + 1) /\ cx = 0
    BY <1>1, <1>2, AllLinesAre DEF InText
  <2>2. PICK k : k = cy + 1
    OBVIOUS
  <2>3. k \in Nat /\ cy < k
    BY <1>1, <2>2
  <2>4. AllLines \in Texts /\ Len(AllLines) = k
    BY <2>1, <2>2, <2>3, OneMoreEmpty
  <2>5. Len(Line(AllLines, cy)) \in Nat
    BY <1>1, <2>3, <2>4, LineType
  <2> QED BY <1>1, <2>1, <2>2, <2>3, <2>4, <2>5
<1>3. CASE lines # <<>>
  BY <1>1, <1>3, AllLinesAre DEF InText
<1> QED BY <1>2, <1>3

\* The text is cut at it.
LEMMA CutAt ==
  ASSUME NEW a, NEW p, NEW q, NEW b, At(AllLines, cx, cy, a, p, q, b)
  PROVE  Cut(Left(a, p), Right(q, b))
<1>1. /\ ConcatLines(AllLines) = Left(a, p) \o Right(q, b)
      /\ Left(a, p) \in Seq(Chars) /\ Right(q, b) \in Seq(Chars)
      /\ Len(Left(a, p)) = Len(ConcatLines(SubSeq(AllLines, 1, cy))) + (IF cy > 0 THEN 1 ELSE 0) + cx
  BY TextAt
<1> QED BY <1>1 DEF Cut, TextOf, PosOf

\* The same after a step, with x, y and ls what cursor and lines are then.
LEMMA CutAtNext ==
  ASSUME NEW x, NEW y, NEW a, NEW p, NEW q, NEW b, x = cx', y = cy', NEW ls, ls = AllLines',
         At(ls, x, y, a, p, q, b)
  PROVE  CutNext(Left(a, p), Right(q, b))
<1>1. /\ ConcatLines(ls) = Left(a, p) \o Right(q, b)
      /\ Left(a, p) \in Seq(Chars) /\ Right(q, b) \in Seq(Chars)
      /\ Len(Left(a, p)) = Len(ConcatLines(SubSeq(ls, 1, y))) + (IF y > 0 THEN 1 ELSE 0) + x
  BY TextAt
<1>2. TextOf' = ConcatLines(ls)
  BY DEF TextOf
<1>3. PosOf' = Len(ConcatLines(SubSeq(ls, 1, y))) + (IF y > 0 THEN 1 ELSE 0) + x
  BY DEF PosOf
<1> QED BY <1>1, <1>2, <1>3 DEF CutNext

\* The position is in the text.
LEMMA PosInText == EditorInv => PosOf \in 0 .. Len(TextOf)
<1> SUFFICES ASSUME EditorInv PROVE PosOf \in 0 .. Len(TextOf)
  OBVIOUS
<1>1. PICK a, p, q, b : At(AllLines, cx, cy, a, p, q, b)
  BY Placed, AtExists
<1>2. PICK l, r : Cut(l, r)
  BY <1>1, CutAt
<1>3. l \in Seq(Chars) /\ r \in Seq(Chars) /\ PosOf = Len(l) /\ TextOf = l \o r
  BY <1>2 DEF Cut
<1>4. Len(TextOf) = Len(l) + Len(r) /\ Len(l) \in Nat /\ Len(r) \in Nat
  BY <1>3
<1> QED BY <1>3, <1>4

\* So it is after a step.
LEMMA PosInTextNext == (EditorInv => PosOf \in 0 .. Len(TextOf))'
<1>1. EditorInv => PosOf \in 0 .. Len(TextOf)
  BY PosInText
<1> QED BY <1>1, PTL

\* What a step may be for the text field.
FieldStep == Field!Next \/ UNCHANGED <<TextOf, PosOf>>

\* The lines stay and the cursor does, or moves within the text, or goes to
\* the start of an empty view.
LEMMA MovedField ==
  ASSUME EditorInv, EditorInv', lines' = lines,
         \/ cx' = cx /\ cy' = cy
         \/ lines # <<>>
         \/ cx' = 0 /\ cy' = 0
  PROVE  FieldStep
<1>1. CASE cx' = cx /\ cy' = cy
  BY <1>1 DEF FieldStep, TextOf, PosOf, AllLines
<1>2. CASE lines # <<>>
  <2>1. AllLines = lines /\ AllLines' = lines'
    BY <1>2 DEF AllLines
  <2>2. TextOf' = TextOf
    BY <2>1 DEF TextOf
  <2>3. PosOf' \in 0 .. Len(TextOf)
    BY <2>2, PosInTextNext
  <2> QED BY <2>2, <2>3 DEF FieldStep, Field!Next, Field!Goto
<1>3. CASE lines = <<>> /\ cx' = 0 /\ cy' = 0
  <2>1. TextOf = ConcatLines(Empties(cy + 1)) /\ cy + 1 \in Nat
    BY <1>3, Types, AllLinesAre DEF TextOf
  <2>2. \A i \in DOMAIN TextOf : TextOf[i] = NewLine
    BY <2>1, OnlyLineEnds
  <2> DEFINE one == <<(<<>>)>>
  <2>3. AllLines' = one
    <3>1. AllLines' = [i \in 1 .. 0 + 1 |-> <<>>]
      BY <1>3 DEF AllLines
    <3>2. Empties(0 + 1) = Empties(0) \o <<(<<>>)>>
      BY OneMoreEmpty
    <3>3. Empties(0) = <<>>
      BY DEF Empties
    <3>4. <<>> \o one = one
      OBVIOUS
    <3> QED BY <3>1, <3>2, <3>3, <3>4 DEF Empties
  <2>4. ConcatLines(one) = <<>>
    <3> DEFINE none == <<>>
    <3>1. none \in Seq(Cells)
      OBVIOUS
    <3> HIDE DEF none
    <3>2. ConcatLines(<<none>>) = none
      BY <3>1, TextOfOne
    <3> QED BY <3>2 DEF none
  <2>5. TextOf' = <<>>
    BY <2>3, <2>4 DEF TextOf
  <2>6. PosOf' = Len(ConcatLines(SubSeq(AllLines', 1, 0))) + (IF 0 > 0 THEN 1 ELSE 0) + 0
    BY <1>3 DEF PosOf
  <2>7. SubSeq(AllLines', 1, 0) = <<>>
    BY <2>3
  <2>8. Len(ConcatLines(<<>>)) = 0
    BY DEF ConcatLines
  <2>9. PosOf' = 0
    <3>1. Len(ConcatLines(SubSeq(AllLines', 1, 0))) = 0
      BY <2>7, <2>8
    <3> DEFINE n == Len(ConcatLines(SubSeq(AllLines', 1, 0)))
    <3>2. n = 0 /\ PosOf' = n + (IF 0 > 0 THEN 1 ELSE 0) + 0
      BY <2>6, <3>1
    <3> HIDE DEF n
    <3> QED BY <3>2
  <2> QED BY <2>2, <2>5, <2>9 DEF FieldStep, Field!Next, Field!Forget
<1> QED BY <1>1, <1>2, <1>3

\* MoveCursor goes to the start of an empty view.
LEMMA MoveField ==
  ASSUME EditorInv, EditorInv', NEW dx, NEW dy, Move(dx, dy)
  PROVE  FieldStep
<1>1. lines' = lines /\ cx' = Target(lines, dx, dy)[1] /\ cy' = Target(lines, dx, dy)[2]
  BY DEF Move, MoveOver
<1>2. lines = <<>> => cx' = 0 /\ cy' = 0
  BY <1>1 DEF Target
<1> QED BY <1>1, <1>2, MovedField

\* The cursor after a rune that was written.
LEMMA TargetOn ==
  ASSUME cx \in Nat, cy \in Nat, NEW ls \in Texts, cy < Len(ls), cx + 1 <= Len(Line(ls, cy))
  PROVE  Target(ls, 1, 0) = <<cx + 1, cy>>
<1>1. Len(Line(ls, cy)) \in Nat /\ Len(ls) \in Nat /\ ls # <<>>
  BY LineType DEF Texts
<1>2. Clamp(cy + 0, 0, Len(ls) - 1) = cy
  BY <1>1 DEF Clamp
<1> DEFINE len == Len(Line(ls, cy))
<1>3. Target(ls, 1, 0) = IF cx + 1 > len
          THEN IF 0 = 0 /\ cy + 1 < Len(ls) THEN <<0, cy + 1>> ELSE <<len, cy>>
          ELSE IF cx + 1 >= 0 THEN <<cx + 1, cy>>
          ELSE IF cy > 0 THEN <<Len(Line(ls, cy - 1)), cy - 1>> ELSE <<0, 0>>
  BY <1>1, <1>2 DEF Target
<1> HIDE DEF len
<1>4. ~(cx + 1 > len) /\ cx + 1 >= 0
  BY <1>1 DEF len
<1> QED BY <1>3, <1>4

\* writeRune in an empty view pads it with the lines above the cursor.
LEMMA WriteAllLines ==
  ASSUME EditorInv, NEW ch, NEW over
  PROVE  WriteRune(lines, cx, cy, ch, over) = WriteRune(AllLines, cx, cy, ch, over)
<1>1. CASE lines # <<>>
  BY <1>1, AllLinesAre
<1>2. CASE lines = <<>>
  <2>1. PICK k : k = cy + 1
    OBVIOUS
  <2>2. /\ AllLines = Empties(k) /\ AllLines \in Seq(Seq(Cells)) /\ Len(AllLines) = k /\ k \in Nat
        /\ k > 0
    BY <1>2, <2>1, Placed, AllLinesAre DEF Texts
  <2>3. Pad(lines, k, <<>>) = AllLines
    <3>1. (IF k > Len(lines) THEN k - Len(lines) ELSE 0) = k
      BY <1>2, <2>2
    <3>2. Pad(lines, k, <<>>) = <<>> \o Empties(k)
      BY <1>2, <3>1 DEF Pad, Empties
    <3>3. <<>> \o AllLines = AllLines
      BY <2>2, Nothing
    <3> QED BY <2>2, <3>2, <3>3
  <2>4. Pad(AllLines, k, <<>>) = AllLines
    <3> DEFINE e == <<>>
               all == AllLines
    <3>1. all \in Seq(Seq(Cells)) /\ e \in Seq(Cells) /\ k \in Int /\ k <= Len(all)
      BY <2>2
    <3> HIDE DEF e, all
    <3>2. Pad(all, k, e) = all
      BY <3>1, PadEnough
    <3> QED BY <3>2 DEF e, all
  <2> QED BY <2>1, <2>3, <2>4 DEF WriteRune
<1> QED BY <1>1, <1>2

\* A place is in the text.
LEMMA AtInside ==
  ASSUME NEW ls, NEW x, NEW y, NEW a, NEW p, NEW q, NEW b, At(ls, x, y, a, p, q, b)
  PROVE  /\ ls \in Texts /\ ls # <<>> /\ x \in Nat /\ y \in Nat
         /\ y < Len(ls) /\ x <= Len(Line(ls, y))
         /\ a \in Texts /\ b \in Texts /\ p \in Seq(Cells) /\ q \in Seq(Cells)
<1> DEFINE S == Seq(Cells)
           l == p \o q
<1>1. /\ Surrounds(S, ls, y, a, l, b) /\ p \in S /\ q \in S /\ x = Len(p) /\ x \in Nat
      /\ a \in Seq(S) /\ b \in Seq(S)
  BY DEF At, Surrounds
<1>2. Len(l) = x + Len(q) /\ Len(q) \in Nat
  BY <1>1, OthersAfter
<1>3. /\ ls \in Seq(S) /\ Len(ls) = y + 1 + Len(b) /\ ls[y + 1] = l /\ y \in Nat /\ Len(b) \in Nat
  <2> HIDE DEF S, l
  <2> QED BY <1>1, Around
<1>4. x <= Len(l) /\ y < Len(ls) /\ Len(ls) > 0
  BY <1>1, <1>2, <1>3
<1> HIDE DEF l
<1> QED BY <1>1, <1>3, <1>4 DEF Line, Texts

\* A rune that is typed.
LEMMA EditWriteField ==
  ASSUME EditorInv, NEW ch \in Cells, EditWrite(ch)
  PROVE  FieldStep
<1> DEFINE written == WriteRune(AllLines, cx, cy, ch, overwrite)
<1>1. cx \in Nat /\ cy \in Nat /\ overwrite \in BOOLEAN
  BY Types DEF EditorInv, TypeOK
<1>2. PICK a, p, q, b : At(AllLines, cx, cy, a, p, q, b)
  BY Placed, AtExists
<1>3. a \in Texts /\ b \in Texts /\ p \in Seq(Cells) /\ q \in Seq(Cells)
  BY <1>2, AtInside
<1>4. PICK r \in Seq(Cells) : \/ ~overwrite /\ r = q
                              \/ overwrite /\ q = <<>> /\ r = <<>>
                              \/ overwrite /\ \E d \in Cells : q = <<d>> \o r
  <2>1. CASE ~overwrite
    BY <1>3, <2>1
  <2>2. CASE overwrite /\ q = <<>>
    BY <1>3, <2>2
  <2>3. CASE overwrite /\ q # <<>>
    <3>1. PICK d \in Cells : \E t \in Seq(Cells) : q = <<d>> \o t
      BY <1>3, <2>3, FirstAndRest
    <3> QED BY <2>3, <3>1
  <2> QED BY <2>1, <2>2, <2>3
<1>5. At(written, cx + 1, cy, a, p \o <<ch>>, r, b)
  BY <1>1, <1>2, <1>4, WriteAt
<1>6. lines' = written /\ MoveOver(written, 1, 0)
  BY WriteAllLines, <1>1 DEF EditWrite
<1>7. written \in Texts /\ written # <<>> /\ cy < Len(written) /\ cx + 1 <= Len(Line(written, cy))
  <2> HIDE DEF written
  <2> QED BY <1>5, AtInside
<1> HIDE DEF written
<1>8. Target(written, 1, 0) = <<cx + 1, cy>>
  BY <1>1, <1>7, TargetOn
<1>9. cx' = cx + 1 /\ cy' = cy
  BY <1>6, <1>8 DEF MoveOver
<1>10. AllLines' = written
  BY <1>6, <1>7 DEF AllLines
<1> DEFINE l == Left(a, p)
           pc == p \o <<ch>>
<1>11. CutNext(l \o <<ch>>, Right(r, b))
  <2>1. PICK x, y : x = cx + 1 /\ y = cy
    OBVIOUS
  <2>2. At(written, x, y, a, pc, r, b) /\ x = cx' /\ y = cy'
    BY <1>5, <1>9, <2>1
  <2> HIDE DEF pc
  <2>3. CutNext(Left(a, pc), Right(r, b))
    BY <1>10, <2>2, CutAtNext
  <2>4. Left(a, p \o <<ch>>) = Left(a, p) \o <<ch>>
    BY <1>3, LeftMore
  <2> QED BY <2>3, <2>4 DEF pc, l
<1>12. ch \in Chars
  BY DEF Chars
<1>13. Cut(l, Right(q, b))
  BY <1>2, CutAt
<1> HIDE DEF l
<1>14. CASE r = q
  <2>1. Field!Insert(ch)
    BY <1>11, <1>12, <1>13, <1>14, FieldInsert
  <2> QED BY <2>1 DEF FieldStep, Field!Next, Chars
<1>15. CASE \E d \in Cells : q = <<d>> \o r
  <2>1. PICK d \in Cells : q = <<d>> \o r
    BY <1>15
  <2> DEFINE rr == Right(r, b)
  <2>2. Right(q, b) = <<d>> \o rr
    BY <1>3, <2>1, RightMore
  <2>3. rr \in Seq(Chars)
    BY <1>11 DEF CutNext
  <2>4. d \in Chars /\ d # NewLine
    BY TextAssumption DEF Chars
  <2> HIDE DEF rr
  <2>5. Cut(l, <<d>> \o rr) /\ CutNext(l \o <<ch>>, rr)
    BY <1>11, <1>13, <2>2 DEF rr
  <2>6. Field!Replace(ch)
    BY <1>12, <2>3, <2>4, <2>5, FieldReplace
  <2> QED BY <2>6 DEF FieldStep, Field!Next
<1> QED BY <1>4, <1>14, <1>15

\* The last of the lines of an empty view.
LEMMA EmptyAt ==
  ASSUME NEW n \in Nat
  PROVE  At(Empties(n + 1), 0, n, Empties(n), <<>>, <<>>, <<>>)
<1> DEFINE S == Seq(Cells)
           e == <<>>
           none == <<>>
           a == Empties(n)
           ls == Empties(n + 1)
           ae == a \o <<e>>
<1>1. a \in Seq(S) /\ Len(a) = n /\ ls = ae /\ e \in S /\ none \in Seq(S)
  <2>1. a \in Texts /\ Len(a) = n /\ ls = a \o <<(<<>>)>>
    BY OneMoreEmpty
  <2> HIDE DEF a, ls
  <2> QED BY <2>1 DEF Texts
<1>2. ae \in Seq(S)
  <2> HIDE DEF S, e, a
  <2> QED BY <1>1, OneAfter
<1>3. ae \o none = ae
  <2> HIDE DEF ae
  <2> QED BY <1>2, Nothing
<1>4. e \o none = e
  OBVIOUS
<1>5. Surrounds(S, ls, n, a, e \o none, none)
  <2>1. ls = a \o <<e>> \o none /\ n = Len(a)
    BY <1>1, <1>3
  <2> HIDE DEF S, a, ls, none, e
  <2> QED BY <1>1, <1>4, <2>1 DEF Surrounds
<1>6. 0 = Len(e)
  OBVIOUS
<1> HIDE DEF a, ls
<1>7. At(ls, 0, n, a, e, none, none)
  BY <1>1, <1>5, <1>6 DEF At
<1> QED BY <1>7 DEF ls, a, e, none

\* A line end that is typed.
LEMMA EditNewLineField ==
  ASSUME EditorInv, EditNewLine
  PROVE  FieldStep
<1>1. cx \in Nat /\ cy \in Nat /\ (lines = <<>> => cx = 0)
  BY Types, Placed
<1>2. lines' = BreakLine(lines, cx, cy) /\ cx' = 0 /\ cy' = cy + 1
  BY DEF EditNewLine
<1>3. \E a \in Texts, p \in Seq(Cells), q \in Seq(Cells), b \in Texts :
        At(AllLines, cx, cy, a, p, q, b) /\ At(AllLines', 0, cy + 1, a \o <<p>>, <<>>, q, b)
  <2>1. CASE lines # <<>>
    <3>1. PICK a, p, q, b : At(AllLines, cx, cy, a, p, q, b)
      BY Placed, AtExists
    <3>2. a \in Texts /\ p \in Seq(Cells) /\ q \in Seq(Cells) /\ b \in Texts
      BY <3>1, AtInside
    <3>3. AllLines = lines
      BY <2>1 DEF AllLines
    <3>4. At(lines', 0, cy + 1, a \o <<p>>, <<>>, q, b)
      <4> DEFINE new == BreakLine(lines, cx, cy)
      <4>1. At(new, 0, cy + 1, a \o <<p>>, <<>>, q, b)
        BY <3>1, <3>3, BreakAt
      <4> HIDE DEF new
      <4> QED BY <1>2, <4>1 DEF new
    <3>5. lines' # <<>>
      <4> DEFINE new == BreakLine(lines, cx, cy)
                 ap == a \o <<p>>
                 e == <<>>
      <4>1. PICK y : y = cy + 1
        OBVIOUS
      <4>2. At(new, 0, y, ap, e, q, b)
        BY <1>2, <3>4, <4>1
      <4> HIDE DEF new, ap, e
      <4>3. new # <<>>
        BY <4>2, AtInside
      <4> QED BY <1>2, <4>3 DEF new
    <3>6. AllLines' = lines'
      BY <3>5 DEF AllLines
    <3> QED BY <3>1, <3>2, <3>4, <3>6
  <2>2. CASE lines = <<>>
    <3> DEFINE e == <<>>
               a == Empties(cy)
    <3>1. cx = 0 /\ AllLines = Empties(cy + 1)
      BY <1>1, <2>2, AllLinesAre
    <3>2. lines' = <<>>
      BY <1>1, <1>2, <2>2 DEF BreakLine
    <3>3. PICK k : k = cy + 1
      OBVIOUS
    <3>4. AllLines' = Empties(k + 1)
      BY <1>2, <3>2, <3>3 DEF AllLines, Empties
    <3>5. At(AllLines, cx, cy, a, e, e, e)
      BY <1>1, <3>1, EmptyAt
    <3>6. k \in Nat /\ a \in Texts /\ Empties(k) = a \o <<e>>
      <4>1. Empties(cy) \in Texts /\ Empties(cy + 1) = Empties(cy) \o <<(<<>>)>>
        BY <1>1, OneMoreEmpty
      <4>2. k \in Nat
        BY <1>1, <3>3
      <4> QED BY <3>3, <4>1, <4>2
    <3>7. At(Empties(k + 1), 0, k, Empties(k), <<>>, <<>>, <<>>)
      BY <3>6, EmptyAt
    <3>8. At(AllLines', 0, cy + 1, a \o <<e>>, <<>>, e, e)
      BY <3>3, <3>4, <3>6, <3>7
    <3>9. e \in Seq(Cells) /\ e \in Texts
      BY DEF Texts
    <3> HIDE DEF a, e
    <3> QED BY <3>5, <3>6, <3>8, <3>9
  <2> QED BY <2>1, <2>2
<1>4. PICK a \in Texts, p \in Seq(Cells), q \in Seq(Cells), b \in Texts :
        At(AllLines, cx, cy, a, p, q, b) /\ At(AllLines', 0, cy + 1, a \o <<p>>, <<>>, q, b)
  BY <1>3
<1> DEFINE l == Left(a, p)
           r == Right(q, b)
<1>5. Cut(l, r)
  BY <1>4, CutAt
<1>6. CutNext(Left(a \o <<p>>, <<>>), r)
  <2> DEFINE ap == a \o <<p>>
             e == <<>>
  <2>1. PICK x, y, ls : x = 0 /\ y = cy + 1 /\ ls = AllLines'
    OBVIOUS
  <2>2. At(ls, x, y, ap, e, q, b) /\ x = cx' /\ y = cy'
    BY <1>2, <1>4, <2>1
  <2> HIDE DEF ap, e
  <2>3. CutNext(Left(ap, e), Right(q, b))
    BY <2>1, <2>2, CutAtNext
  <2> QED BY <2>3 DEF ap, e
<1>7. Left(a \o <<p>>, <<>>) = l \o <<NewLine>>
  <2>1. NUL \in Cells
    BY DEF Cells
  <2> QED BY <2>1, LeftMore
<1>8. NewLine \in Chars
  BY DEF Chars
<1> HIDE DEF l, r
<1>9. CutNext(l \o <<NewLine>>, r)
  BY <1>6, <1>7
<1>10. Field!Insert(NewLine)
  BY <1>5, <1>8, <1>9, FieldInsert
<1> QED BY <1>10 DEF FieldStep, Field!Next

\* The text is cut at the cursor of a view that has lines.
LEMMA CutHere ==
  ASSUME NEW a, NEW p, NEW q, NEW b, At(lines, cx, cy, a, p, q, b)
  PROVE  Cut(Left(a, p), Right(q, b))
<1>1. lines # <<>>
  BY AtInside
<1>2. AllLines = lines
  BY <1>1 DEF AllLines
<1> QED BY <1>2, CutAt

\* And where the step has put the cursor.
LEMMA CutThere ==
  ASSUME NEW ls, ls = lines', NEW x, NEW y, x = cx', y = cy',
         NEW a, NEW p, NEW q, NEW b, At(ls, x, y, a, p, q, b)
  PROVE  CutNext(Left(a, p), Right(q, b))
<1>1. ls # <<>>
  BY AtInside
<1>2. AllLines' = ls
  BY <1>1 DEF AllLines
<1> QED BY <1>2, CutAtNext

\* The cursor goes to the end of the line above, which takes up its line.
LEMMA MergeBackField ==
  ASSUME EditorInv, cy < Len(lines), cx = 0, cy > 0,
         MoveOver(lines, -1, 0), lines' = MergeLines(lines, cy - 1)
  PROVE  FieldStep
<1>1. lines \in Texts /\ cx \in Nat /\ cy \in Nat /\ Len(lines) \in Nat
  BY Types DEF Texts
<1>2. PICK y : y = cy - 1
  OBVIOUS
<1>3. y \in Nat /\ y + 1 < Len(lines) /\ y + 1 = cy
  BY <1>1, <1>2
<1>4. Target(lines, -1, 0) = <<Len(Line(lines, cy - 1)), cy - 1>>
  BY <1>1, TargetUp
<1>5. PICK x : x = Len(Line(lines, y))
  OBVIOUS
<1>6. cx' = x /\ cy' = y
  BY <1>2, <1>4, <1>5 DEF MoveOver
<1>7. PICK a \in Texts, p \in Seq(Cells), m \in Seq(Cells), b \in Texts :
        At(lines, x, y, a, p, <<>>, <<m>> \o b)
  BY <1>1, <1>3, <1>5, EndAt
<1>8. At(lines, cx, cy, a \o <<p>>, <<>>, m, b)
  <2>1. At(lines, 0, y + 1, a \o <<p>>, <<>>, m, b)
    BY <1>7, BelowAt
  <2> QED BY <1>3, <2>1
<1> DEFINE new == MergeLines(lines, y)
           l == Left(a, p)
           r == Right(m, b)
<1>9. At(new, x, y, a, p, m, b) /\ new = lines'
  BY <1>2, <1>7, MergeAt
<1>10. Cut(Left(a \o <<p>>, <<>>), r)
  <2> DEFINE ap == a \o <<p>>
             e == <<>>
  <2>1. At(lines, cx, cy, ap, e, m, b)
    BY <1>8
  <2> HIDE DEF ap, e
  <2>2. Cut(Left(ap, e), Right(m, b))
    BY <2>1, CutHere
  <2> QED BY <2>2 DEF ap, e
<1>11. Left(a \o <<p>>, <<>>) = l \o <<NewLine>>
  <2>1. NUL \in Cells
    BY DEF Cells
  <2> QED BY <2>1, LeftMore
<1>12. CutNext(l, r)
  <2>1. x = cx' /\ y = cy'
    BY <1>6
  <2> HIDE DEF new
  <2> QED BY <1>9, <2>1, CutThere
<1>13. NewLine \in Chars
  BY DEF Chars
<1> HIDE DEF l, r
<1>14. Cut(l \o <<NewLine>>, r)
  BY <1>10, <1>11
<1>15. Field!DeleteBefore
  BY <1>12, <1>13, <1>14, FieldDeleteBefore
<1> QED BY <1>15 DEF FieldStep, Field!Next

\* The rune to the left of the cursor goes.
LEMMA RuneBackField ==
  ASSUME EditorInv, cy < Len(lines), cx > 0, lines' = DeleteRune(lines, cx - 1, cy),
         MoveOver(DeleteRune(lines, cx - 1, cy), -1, 0)
  PROVE  FieldStep
<1>1. lines \in Texts /\ cx \in Nat /\ cy \in Nat /\ InText(lines, cx, cy)
  BY Types
<1>2. PICK x : x = cx - 1
  OBVIOUS
<1>3. Len(Line(lines, cy)) \in Nat /\ cx <= Len(Line(lines, cy))
  BY <1>1, LineType DEF InText
<1>4. x \in Nat /\ x + 1 = cx /\ x < Len(Line(lines, cy))
  BY <1>1, <1>2, <1>3
<1>5. PICK a \in Texts, p \in Seq(Cells), c \in Cells, q \in Seq(Cells), b \in Texts :
        At(lines, x, cy, a, p, <<c>> \o q, b)
  BY <1>1, <1>4, RuneAt
<1> DEFINE new == DeleteRune(lines, x, cy)
           l == Left(a, p)
           r == Right(q, b)
<1>6. At(new, x, cy, a, p, q, b)
  BY <1>5, DeleteAt
<1>7. new = lines' /\ MoveOver(new, -1, 0)
  BY <1>2
<1>8. At(lines, cx, cy, a, p \o <<c>>, q, b)
  BY <1>4, <1>5, BehindRune
<1> HIDE DEF new
<1>9. new \in Texts /\ cy < Len(new) /\ x <= Len(Line(new, cy))
  BY <1>6, AtInside
<1>10. Target(new, -1, 0) = <<cx - 1, cy>>
  BY <1>1, <1>2, <1>9, TargetLeft
<1>11. x = cx' /\ cy = cy'
  BY <1>2, <1>7, <1>10 DEF MoveOver
<1>12. CutNext(l, r)
  BY <1>6, <1>7, <1>11, CutThere
<1>13. Cut(l \o <<c>>, r)
  <2> DEFINE pc == p \o <<c>>
  <2>1. At(lines, cx, cy, a, pc, q, b)
    BY <1>8
  <2> HIDE DEF pc
  <2>2. Cut(Left(a, pc), Right(q, b))
    BY <2>1, CutHere
  <2>3. Left(a, p \o <<c>>) = Left(a, p) \o <<c>>
    BY LeftMore
  <2> QED BY <2>2, <2>3 DEF pc
<1>14. c \in Chars
  BY DEF Chars
<1> HIDE DEF l, r
<1>15. Field!DeleteBefore
  BY <1>12, <1>13, <1>14, FieldDeleteBefore
<1> QED BY <1>15 DEF FieldStep, Field!Next

\* The line below the cursor comes up to it.
LEMMA MergeOnField ==
  ASSUME EditorInv, cy + 1 < Len(lines), cx = Len(Line(lines, cy)), cx' = cx, cy' = cy,
         lines' = MergeLines(lines, cy)
  PROVE  FieldStep
<1>1. lines \in Texts /\ cx \in Nat /\ cy \in Nat
  BY Types
<1>2. PICK a \in Texts, p \in Seq(Cells), m \in Seq(Cells), b \in Texts :
        At(lines, cx, cy, a, p, <<>>, <<m>> \o b)
  BY <1>1, EndAt
<1> DEFINE new == MergeLines(lines, cy)
           l == Left(a, p)
           r == Right(m, b)
<1>3. At(new, cx, cy, a, p, m, b) /\ new = lines'
  BY <1>2, MergeAt
<1>4. Cut(l, Right(<<>>, <<m>> \o b))
  <2> DEFINE mb == <<m>> \o b
             e == <<>>
  <2>1. At(lines, cx, cy, a, p, e, mb)
    BY <1>2
  <2> HIDE DEF mb, e
  <2>2. Cut(Left(a, p), Right(e, mb))
    BY <2>1, CutHere
  <2> QED BY <2>2 DEF mb, e
<1>5. Right(<<>>, <<m>> \o b) = <<NewLine>> \o r
  <2>1. NUL \in Cells
    BY DEF Cells
  <2> QED BY <2>1, RightMore
<1>6. CutNext(l, r)
  <2>1. cx = cx' /\ cy = cy'
    OBVIOUS
  <2> HIDE DEF new
  <2> QED BY <1>3, <2>1, CutThere
<1>7. NewLine \in Chars
  BY DEF Chars
<1> HIDE DEF l, r
<1>8. Cut(l, <<NewLine>> \o r)
  BY <1>4, <1>5
<1>9. Field!DeleteAfter
  BY <1>6, <1>7, <1>8, FieldDeleteAfter
<1> QED BY <1>9 DEF FieldStep, Field!Next

\* The rune to the right of the cursor goes.
LEMMA RuneOnField ==
  ASSUME EditorInv, cy < Len(lines), cx < Len(Line(lines, cy)), cx' = cx, cy' = cy,
         lines' = DeleteRune(lines, cx, cy)
  PROVE  FieldStep
<1>1. lines \in Texts /\ cx \in Nat /\ cy \in Nat
  BY Types
<1>2. PICK a \in Texts, p \in Seq(Cells), c \in Cells, q \in Seq(Cells), b \in Texts :
        At(lines, cx, cy, a, p, <<c>> \o q, b)
  BY <1>1, RuneAt
<1> DEFINE new == DeleteRune(lines, cx, cy)
           l == Left(a, p)
           r == Right(q, b)
<1>3. At(new, cx, cy, a, p, q, b) /\ new = lines'
  BY <1>2, DeleteAt
<1>4. Cut(l, <<c>> \o r)
  <2> DEFINE cq == <<c>> \o q
  <2>1. At(lines, cx, cy, a, p, cq, b)
    BY <1>2
  <2> HIDE DEF cq
  <2>2. Cut(Left(a, p), Right(cq, b))
    BY <2>1, CutHere
  <2>3. Right(<<c>> \o q, b) = <<c>> \o Right(q, b)
    BY RightMore
  <2> QED BY <2>2, <2>3 DEF cq
<1>5. CutNext(l, r)
  <2>1. cx = cx' /\ cy = cy'
    OBVIOUS
  <2> HIDE DEF new
  <2> QED BY <1>3, <2>1, CutThere
<1>6. c \in Chars
  BY DEF Chars
<1> HIDE DEF l, r
<1>7. Field!DeleteAfter
  BY <1>4, <1>5, <1>6, FieldDeleteAfter
<1> QED BY <1>7 DEF FieldStep, Field!Next

\* A deletion takes out the character before or after the cursor.
LEMMA DeleteField ==
  ASSUME EditorInv, EditorInv', NEW back \in BOOLEAN, Delete(back)
  PROVE  FieldStep
<1>1. /\ lines \in Texts /\ cx \in Nat /\ cy \in Nat /\ Len(lines) \in Nat
      /\ InText(lines, cx, cy)
  BY Types DEF Texts
<1>2. CASE cy >= Len(lines) /\ Move(-1, 0)
  BY <1>2, MoveField
<1>3. CASE Still
  <2>1. lines' = lines /\ cx' = cx /\ cy' = cy
    BY <1>3 DEF Still, Stay, place
  <2> QED BY <2>1, MovedField
<1>4. CASE /\ cy < Len(lines) /\ cx = 0 /\ cy > 0
           /\ MoveOver(lines, -1, 0) /\ lines' = MergeLines(lines, cy - 1)
  BY <1>4, MergeBackField
<1>5. CASE /\ cy < Len(lines) /\ cx > 0 /\ lines' = DeleteRune(lines, cx - 1, cy)
           /\ IF CanDelete(lines, cx - 1, cy)
              THEN MoveOver(DeleteRune(lines, cx - 1, cy), -1, 0) /\ Shows
              ELSE Stay
  <2>1. Len(Line(lines, cy)) \in Nat /\ cx <= Len(Line(lines, cy))
    BY <1>1, <1>5, LineType DEF InText
  <2>2. CanDelete(lines, cx - 1, cy)
    BY <1>1, <1>5, <2>1 DEF CanDelete
  <2> QED BY <1>5, <2>2, RuneBackField
<1>6. CASE /\ cy < Len(lines) /\ Stay
           /\ lines' = IF cx = Len(Line(lines, cy)) THEN MergeLines(lines, cy)
                       ELSE DeleteRune(lines, cx, cy)
  <2>1. Len(Line(lines, cy)) \in Nat /\ cx <= Len(Line(lines, cy))
    BY <1>1, <1>6, LineType DEF InText
  <2>2. cx' = cx /\ cy' = cy
    BY <1>6 DEF Stay, place
  <2>3. CASE cx # Len(Line(lines, cy))
    <3>1. cx < Len(Line(lines, cy))
      BY <1>1, <2>1, <2>3
    <3> QED BY <1>6, <2>2, <2>3, <3>1, RuneOnField
  <2>4. CASE cx = Len(Line(lines, cy)) /\ cy + 1 < Len(lines)
    BY <1>6, <2>2, <2>4, MergeOnField
  <2>5. CASE cx = Len(Line(lines, cy)) /\ ~(cy + 1 < Len(lines))
    <3>1. lines' = lines
      BY <1>6, <2>5 DEF MergeLines
    <3> QED BY <2>2, <3>1, MovedField
  <2> QED BY <2>3, <2>4, <2>5
<1> QED BY <1>2, <1>3, <1>4, <1>5, <1>6 DEF Delete

\* Each action, as the text field sees it.
LEMMA NextField == EditorInv /\ EditorInv' /\ Next => FieldStep
<1> SUFFICES ASSUME EditorInv, EditorInv', Next PROVE FieldStep
  OBVIOUS
<1>1. Still => FieldStep
  <2> SUFFICES ASSUME Still PROVE FieldStep
    OBVIOUS
  <2>1. lines' = lines /\ cx' = cx /\ cy' = cy
    BY DEF Still, Stay, place
  <2> QED BY <2>1, MovedField
<1>2. ASSUME NEW ch \in Cells, EditWrite(ch) PROVE FieldStep
  BY <1>2, EditWriteField
<1>3. ASSUME NEW back \in BOOLEAN, EditDelete(back) PROVE FieldStep
  BY <1>3, DeleteField DEF EditDelete
<1>4. CASE EditNewLine
  BY <1>4, EditNewLineField
<1>5. CASE ToggleOverwrite
  BY <1>1, <1>5 DEF ToggleOverwrite
<1>6. ASSUME NEW d \in Deltas, MoveCursor(d[1], d[2]) PROVE FieldStep
  BY <1>6, MoveField DEF MoveCursor
<1>7. CASE EditDeleteToStartOfLine
  <2>1. Delete(TRUE) => FieldStep
    BY DeleteField
  <2> QED BY <1>1, <1>7, <2>1 DEF EditDeleteToStartOfLine
<1>8. CASE EditGotoToStartOfLine
  BY <1>1, <1>8 DEF EditGotoToStartOfLine
<1>9. CASE EditGotoToEndOfLine
  <2>1. lines' = lines /\ cx' = 0 /\ cy' = Nearest(0, cy + 1)[2]
    BY <1>9 DEF EditGotoToEndOfLine
  <2>2. lines = <<>> => cy' = 0
    BY <2>1 DEF Nearest
  <2> QED BY <2>1, <2>2, MovedField
<1>10. CASE DeleteToStartTurn
  <2>1. Delete(TRUE) => FieldStep
    BY DeleteField
  <2> QED BY <1>1, <1>10, <2>1 DEF DeleteToStartTurn
<1>11. CASE GotoStartTurn
  <2>1. Move(-1, 0) => FieldStep
    BY MoveField
  <2> QED BY <1>1, <1>11, <2>1 DEF GotoStartTurn
<1>12. CASE GotoEndTurn
  <2>1. (Move(-1, 0) => FieldStep) /\ (Move(1, 0) => FieldStep)
    BY MoveField
  <2> QED BY <1>1, <1>12, <2>1 DEF GotoEndTurn
<1>13. ASSUME NEW x, NEW y, SetCursor(x, y) PROVE FieldStep
  <2>1. lines' = lines /\ cx' = Nearest(x, y)[1] /\ cy' = Nearest(x, y)[2]
    BY <1>13 DEF SetCursor
  <2>2. lines = <<>> => cx' = 0 /\ cy' = 0
    <3> SUFFICES ASSUME lines = <<>> PROVE cx' = 0 /\ cy' = 0
      OBVIOUS
    <3>1. cy' = 0 /\ InText(lines', cx', cy')
      BY <2>1 DEF Nearest, EditorInv, CursorInText, InText
    <3> QED BY <2>1, <3>1 DEF InText
  <2> QED BY <2>1, <2>2, MovedField
<1>14. ASSUME NEW x, NEW y, SetOrigin(x, y) PROVE FieldStep
  BY <1>14, MovedField DEF SetOrigin
<1>15. CASE Draw
  BY <1>15, MovedField DEF Draw
<1> QED
  BY <1>2, <1>3, <1>4, <1>5, <1>6, <1>7, <1>8, <1>9, <1>10, <1>11, <1>12, <1>13, <1>14, <1>15
     DEF Next, LoopTurn

\* An empty text with the cursor at its start.
LEMMA FieldStarts == Init => Field!Init
<1> SUFFICES ASSUME Init PROVE Field!Init
  OBVIOUS
<1> DEFINE none == <<>>
<1>1. AllLines = Empties(0 + 1) /\ cx = 0 /\ cy = 0
  BY AllLinesAre DEF Init
<1>2. Empties(0) = <<>> /\ none \in Seq(Cells)
  BY DEF Empties
<1>3. AllLines = <<none>>
  <2>1. Empties(0 + 1) = Empties(0) \o <<(<<>>)>>
    BY OneMoreEmpty
  <2> QED BY <1>1, <1>2, <2>1
<1> HIDE DEF none
<1>4. TextOf = none
  BY <1>2, <1>3, TextOfOne DEF TextOf
<1>5. SubSeq(AllLines, 1, 0) = <<>>
  BY <1>3
<1>6. Len(ConcatLines(<<>>)) = 0
  BY DEF ConcatLines
<1>7. PosOf = Len(ConcatLines(SubSeq(AllLines, 1, 0))) + 0 + 0
  BY <1>1 DEF PosOf
<1>8. PosOf = 0
  <2> DEFINE n == Len(ConcatLines(SubSeq(AllLines, 1, 0)))
  <2>1. n = 0 /\ PosOf = n + 0 + 0
    BY <1>5, <1>6, <1>7
  <2> HIDE DEF n
  <2> QED BY <2>1
<1> QED BY <1>4, <1>8 DEF Field!Init, none

\* ImplementsTextField: what the functions of edit.go do to v.lines, v.cx,
\* v.cy and v.Overwrite is, for the text that the lines make and the place
\* of the cursor in it, what a text field promises for each key, whatever
\* the text, the moves and the size of the view.
THEOREM TextFieldImplemented == Spec => ImplementsTextField
<1>1. EditorInv /\ EditorInv' /\ [Next]_vars => [Field!Next]_Field!vars
  <2> SUFFICES ASSUME EditorInv, EditorInv', [Next]_vars PROVE [Field!Next]_Field!vars
    OBVIOUS
  <2>1. CASE Next
    BY <2>1, NextField DEF FieldStep, Field!vars
  <2>2. CASE UNCHANGED vars
    BY <2>2 DEF vars, place, Field!vars, TextOf, PosOf, AllLines
  <2> QED BY <2>1, <2>2
<1> QED BY <1>1, FieldStarts, EditorAlways, PTL DEF Spec, ImplementsTextField, Field!Spec

=============================================================================
