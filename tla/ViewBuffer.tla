----------------------------- MODULE ViewBuffer -----------------------------
(***************************************************************************)
(* The text of a view as the Go slices it is: each line is a header over   *)
(* an array of cells, and v.lines itself has headers past its length, up   *)
(* to its capacity.  A slice that gets shorter leaves what it held in its  *)
(* array; append writes there or into a larger array, and makeWriteable    *)
(* takes what is there.  Everything is the whole of a call: none of these  *)
(* waits for anything.                                                     *)
(***************************************************************************)
EXTENDS TextLines, SequencesExt

CONSTANTS
  Space, Newline, Return, Tab, TabWidth, Inputs, MaxX, MaxY,  \* see TextBuffer
  MaxSlack,  \* the room append makes beyond what it needs
  MaxHeap    \* bound on the cells of all arrays together

VARIABLES
  heap,    \* the arrays: as many cells as their capacity
  lines,   \* v.lines
  spare,   \* the headers between the length of v.lines and its capacity
  wx, wy,  \* where the next Write goes
  shrunk   \* history: a cell or a line was taken out since Clear

vars == <<heap, lines, spare, wx, wy, shrunk>>

\* The text the slices stand for.
TextOf == [i \in DOMAIN lines |-> IF lines[i].arr = 0 THEN <<>> ELSE SubSeq(heap[lines[i].arr], 1, lines[i].len)]
TB == INSTANCE TextBuffer WITH text <- TextOf

ASSUME ViewBufferAssumption ==
  /\ TB!Constants /\ MaxSlack \in Nat /\ MaxHeap \in Nat

\* A slice from the start of an array; nil has no array.
Slices == [arr : Nat, len : Nat]
Nil == [arr |-> 0, len |-> 0]
Nils(n) == [i \in 1 .. n |-> Nil]
\* The room left by append: no capacity beyond the bounds of the lines.
Room(b, n, slack) == Nils(Min({MaxY + 1, Len(b.lines) + n + slack}) - (Len(b.lines) + n))
Zeros(n) == [i \in 1 .. n |-> NUL]

\* The operations work on the state of the buffer as a record.
Buffer == [heap |-> heap, lines |-> lines, spare |-> spare, wx |-> wx, wy |-> wy]

Whole(b, l) == IF l.arr = 0 THEN <<>> ELSE b.heap[l.arr]
Capacity(b, l) == Len(Whole(b, l))
Content(b, l) == SubSeq(Whole(b, l), 1, l.len)

\* The line y becomes a slice of a new array.
Fresh(b, y, cells, slack) ==
  IF cells = <<>> THEN [b EXCEPT !.lines[y + 1] = Nil]
  ELSE [b EXCEPT !.heap = Append(@, Pad(cells, Min({MaxX, Len(cells) + slack}), NUL)),
                 !.lines[y + 1] = [arr |-> Len(b.heap) + 1, len |-> Len(cells)]]

\* The cells from x on of the array of the line y are overwritten, as far as
\* the array goes.
Poke(b, y, x, cells) ==
  LET array == Line(b.lines, y).arr
  IN [b EXCEPT !.heap = [a \in DOMAIN @ |-> [i \in DOMAIN @[a] |->
        IF a = array /\ i - x \in DOMAIN cells THEN cells[i - x] ELSE @[a][i]]]]

\* v.lines[y] = append(l, cells...) for a slice l of the line's own array.
AppendCells(b, y, l, cells, slack) ==
  IF l.len + Len(cells) <= Capacity(b, l)
  THEN [Poke(b, y, l.len, cells) EXCEPT !.lines[y + 1].len = l.len + Len(cells)]
  ELSE Fresh(b, y, Content(b, l) \o cells, slack)

\* v.lines = append(v.lines, n nil slices).
AppendLines(b, n, slack) ==
  [b EXCEPT !.lines = @ \o Nils(n),
            !.spare = IF n <= Len(@) THEN Drop(@, n) ELSE Room(b, n, slack)]

-----------------------------------------------------------------------------
(* view.go: Write.                                                         *)

\* The first loop of makeWriteable: headers that are there are taken.
WriteableLines(b, y, slack) ==
  LET n == y + 1 - Len(b.lines)
      m == IF n <= Len(b.spare) THEN n ELSE Len(b.spare)
  IN IF n <= 0 THEN b
     ELSE [b EXCEPT !.lines = @ \o SubSeq(b.spare, 1, m) \o Nils(n - m),
                    !.spare = IF n = m THEN Drop(@, m) ELSE Room(b, n, slack)]

\* The second loop: cells that are there are taken.
WriteableCells(b, x, y, slack) ==
  LET l == Line(b.lines, y)
  IN IF l.len >= x THEN b
     ELSE IF x <= Capacity(b, l) THEN [b EXCEPT !.lines[y + 1].len = x]
     ELSE Fresh(b, y, Pad(Whole(b, l), x, NUL), slack)

MakeWriteable(b, x, y, slack) == WriteableCells(WriteableLines(b, y, slack), x, y, slack)

\* Mutant: the line ends where the new cells do.
WriteCellsCut(b, cells, slack) ==
  LET l == [Line(b.lines, b.wy) EXCEPT !.len = b.wx]
  IN AppendCells(b, b.wy, l, cells, slack)

\* writeCells: over what the array has, and by append for the rest.
WriteCells(b, cells, slack) ==
  LET l    == Line(b.lines, b.wy)
      room == Capacity(b, l) - b.wx
      full == Poke(b, b.wy, b.wx, cells)
  IN IF room < Len(cells)
     THEN AppendCells(full, b.wy, [l EXCEPT !.len = b.wx + room], Drop(cells, room), slack)
     ELSE [full EXCEPT !.lines[b.wy + 1].len = Max({@, b.wx + Len(cells)})]

\* Mutant: a new line is made writeable in the place of being appended.
WriteOneTaking(b, r, slack) ==
  CASE r = Newline -> [MakeWriteable(b, 0, b.wy + 1, slack) EXCEPT !.wy = @ + 1, !.wx = 0]
    [] r = Return -> [b EXCEPT !.wx = 0]
    [] OTHER -> [WriteCells(b, TB!CellsOf(r), slack) EXCEPT !.wx = @ + Len(TB!CellsOf(r))]

\* writeRunes for one rune.
NewLine(b, slack) ==
  [(IF b.wy + 1 < Len(b.lines) THEN b ELSE AppendLines(b, 1, slack)) EXCEPT !.wy = @ + 1, !.wx = 0]
WriteOne(b, r, slack) ==
  CASE r = Newline -> NewLine(b, slack)
    [] r = Return -> [b EXCEPT !.wx = 0]
    [] OTHER -> [WriteCells(b, TB!CellsOf(r), slack) EXCEPT !.wx = @ + Len(TB!CellsOf(r))]

WriteAll(b, p, slack) ==
  LET f[i \in 0 .. Len(p)] == IF i = 0 THEN b ELSE WriteOne(f[i - 1], p[i], slack)
  IN f[Len(p)]

-----------------------------------------------------------------------------
(* edit.go, SetLine and SetHighlight.                                      *)

\* writeRune: what append adds is zero, whatever the array held.
InsertRune(b, x, y, ch, overwrite, slack) ==
  LET all  == IF y < Len(b.lines) THEN b ELSE AppendLines(b, y + 1 - Len(b.lines), slack)
      l    == Line(all.lines, y)
      new  == IF x >= l.len THEN x - l.len + 1 ELSE IF overwrite THEN 0 ELSE 1
      long == AppendCells(all, y, l, Zeros(new), slack)
      text == Content(long, Line(long.lines, y))
      rest == IF overwrite THEN Drop(text, x + 1) ELSE SubSeq(text, x + 1, Len(text) - 1)
  IN Poke(long, y, x, <<ch>> \o rest)

\* Mutant: the place after the last rune passes the check.
TakeRuneEdge(b, x, y) ==
  LET l == Line(b.lines, y)
  IN IF y >= Len(b.lines) \/ x > l.len THEN b
     ELSE [Poke(b, y, x, Drop(Content(b, l), x + 1)) EXCEPT !.lines[y + 1].len = l.len - 1]

\* deleteRune: the cell after the new end stays in the array.
TakeRune(b, x, y) ==
  LET l == Line(b.lines, y)
  IN IF y >= Len(b.lines) \/ x >= l.len THEN b
     ELSE [Poke(b, y, x, Drop(Content(b, l), x + 1)) EXCEPT !.lines[y + 1].len = l.len - 1]

\* mergeLines: the last header stays where it was, now a second slice of an
\* array that a line has.
JoinLines(b, y, slack) ==
  IF y + 1 >= Len(b.lines) THEN b
  ELSE LET j == AppendCells(b, y, Line(b.lines, y), Content(b, Line(b.lines, y + 1)), slack)
       IN [j EXCEPT !.lines = SubSeq(@, 1, y + 1) \o Drop(@, y + 2),
                    !.spare = <<Last(j.lines)>> \o @]

\* breakLine: both parts are copied, and so is v.lines.
SplitLine(b, x, y) ==
  IF y >= Len(b.lines) THEN b
  ELSE LET l    == Line(b.lines, y)
           text == Content(b, l)
           two  == [b EXCEPT !.lines = SubSeq(@, 1, y + 1) \o <<Nil>> \o Drop(@, y + 1),
                             !.spare = <<>>]
       IN IF x >= l.len THEN two
          ELSE Fresh(Fresh(two, y, SubSeq(text, 1, x), 0), y + 1, Drop(text, x), 0)

-----------------------------------------------------------------------------
(* The calls.                                                              *)

Init ==
  /\ heap = <<>> /\ lines = <<>> /\ spare = <<>> /\ wx = 0 /\ wy = 0 /\ shrunk = FALSE

\* The buffer becomes b.  Arrays that no slice refers to are gone, each other
\* has the number of the first slice of it: no address shows anywhere.
Set(b) ==
  LET all == b.lines \o b.spare
      first(l) == Min({i \in DOMAIN all : all[i].arr = l.arr})
      Number(slices) == [i \in DOMAIN slices |->
        IF slices[i].arr = 0 THEN Nil ELSE [arr |-> first(slices[i]), len |-> slices[i].len]]
      arrays == [k \in DOMAIN all |-> IF first(all[k]) = k THEN Whole(b, all[k]) ELSE <<>>]
  IN
  /\ Len(b.lines) <= MaxY + 1
  /\ \A i \in DOMAIN b.lines : b.lines[i].len <= MaxX
  /\ Len(FlattenSeq(arrays)) <= MaxHeap
  /\ b.wx <= MaxX /\ b.wy <= MaxY
  /\ heap' = arrays
  /\ lines' = Number(b.lines) /\ spare' = Number(b.spare) /\ wx' = b.wx /\ wy' = b.wy

SetWritePos(x, y) == wx' = x /\ wy' = y /\ UNCHANGED <<heap, lines, spare, shrunk>>

Write(p, slack) ==
  Set(WriteAll(MakeWriteable(Buffer, wx, wy, slack), p, slack)) /\ UNCHANGED shrunk

EditRune(x, y, ch, overwrite, slack) ==
  Set(InsertRune(Buffer, x, y, ch, overwrite, slack)) /\ UNCHANGED shrunk
DeleteRuneAt(x, y) == Set(TakeRune(Buffer, x, y)) /\ shrunk' = (shrunk \/ lines' # lines)
MergeLinesAt(y, slack) == Set(JoinLines(Buffer, y, slack)) /\ shrunk' = (shrunk \/ lines' # lines)
BreakLineAt(x, y) == Set(SplitLine(Buffer, x, y)) /\ UNCHANGED shrunk

\* SetLine gathers the cells of the text in a slice of its own.
SetLine(y, p, slack) ==
  LET new == TB!WriteAll([text |-> <<(<<>>)>>, wx |-> 0, wy |-> 0], p).text[1]
  IN /\ y < Len(lines) /\ {Newline, Return} \cap Range(p) = {}
     /\ Set(Fresh(Buffer, y, new, slack)) /\ UNCHANGED shrunk

\* SetHighlight copies the line with other colours.
SetHighlight(y, slack) ==
  /\ y < Len(lines)
  /\ Set(Fresh(Buffer, y, Content(Buffer, Line(lines, y)), slack)) /\ UNCHANGED shrunk

Clear == Set([Buffer EXCEPT !.lines = <<>>, !.spare = <<>>, !.wx = 0, !.wy = 0]) /\ shrunk' = FALSE

\* The next Write begins where there is text, or right after.
WithinText == wy < Len(lines) /\ wx <= Line(lines, wy).len

Other ==
  \/ \E x \in 0 .. MaxX, y \in 0 .. MaxY :
       \/ SetWritePos(x, y) \/ DeleteRuneAt(x, y) \/ BreakLineAt(x, y)
       \/ \E ch \in Runes, o \in BOOLEAN, slack \in 0 .. MaxSlack : EditRune(x, y, ch, o, slack)
  \/ \E y \in 0 .. MaxY, slack \in 0 .. MaxSlack :
       \/ MergeLinesAt(y, slack) \/ SetHighlight(y, slack)
       \/ \E p \in Inputs : SetLine(y, p, slack)
  \/ Clear

\* An application that after taking text out does not write past its end.
CarefulNext ==
  \/ Other
  \/ \E p \in Inputs, slack \in 0 .. MaxSlack : (shrunk => WithinText) /\ Write(p, slack)
CarefulSpec == Init /\ [][CarefulNext]_vars

\* Any application.
Next == Other \/ \E p \in Inputs, slack \in 0 .. MaxSlack : Write(p, slack)
Spec == Init /\ [][Next]_vars

-----------------------------------------------------------------------------
(* Properties.                                                             *)

\* The types of the variables; a slice ends where its array does.
TypeOK ==
  /\ heap \in Seq(Seq(Cells))
  /\ lines \in Seq(Slices) /\ spare \in Seq(Slices) /\ Len(lines) <= MaxY + 1
  /\ \A l \in Range(lines \o spare) :
       l = Nil \/ (l.arr \in DOMAIN heap /\ l.len <= Len(heap[l.arr]))
  /\ wx \in 0 .. MaxX /\ wy \in 0 .. MaxY /\ shrunk \in BOOLEAN

\* No two lines share an array, though mergeLines leaves a second slice of
\* one behind: a change of one line never shows in another.
LinesApart ==
  \A i, j \in DOMAIN lines : i # j /\ lines[i].arr = lines[j].arr => lines[i] = Nil

\* In every sequence of calls of a careful application the slices behave as
\* lines of values: append in place, cells left in arrays, headers left past
\* the end of v.lines and capacities never show in the text.
ImplementsTextBuffer == TB!Spec

\* makeWriteable: creates empty cells if required to make position (x, y)
\* writeable.  The cells it adds are empty and the others stay.
NewCellsEmpty ==
  \A x \in 0 .. MaxX, y \in 0 .. MaxY :
    LET b == MakeWriteable(Buffer, x, y, 0)
    IN [i \in DOMAIN b.lines |-> Content(b, b.lines[i])] = TB!Writeable(TextOf, x, y)
=============================================================================
