----------------------------- MODULE TextLines -----------------------------
(***************************************************************************)
(* The operations of edit.go on v.lines, and the folding of long lines     *)
(* that view.go does when Wrap is set (takeLine, viewLines).  Coordinates  *)
(* count from 0 as in the code; sequences count from 1.  A cell is its     *)
(* rune; colours are left out.                                             *)
(***************************************************************************)
EXTENDS Integers, Sequences, FiniteSets, FiniteSetsExt

CONSTANTS
  Runes,    \* the runes that can be typed
  Wide,     \* those that take two columns of the screen
  Zero,     \* those that take none: a tab, a combining rune
  NUL       \* the zero cell that fills a gap, and the rune of any other key

ASSUME RunesAssumption ==
  /\ Wide \subseteq Runes /\ Zero \subseteq Runes /\ Wide \cap Zero = {}
  /\ NUL \notin Runes

Cells == Runes \cup {NUL}
Text  == Seq(Seq(Cells))

Line(lines, y) == lines[y + 1]
Drop(s, n) == SubSeq(s, n + 1, Len(s))
Pad(s, n, e) == s \o [i \in 1 .. (IF n > Len(s) THEN n - Len(s) ELSE 0) |-> e]

\* Mutant: the end of the line is not kept after the new rune.
WriteRuneCut(lines, x, y, ch, overwrite) ==
  LET all  == Pad(lines, y + 1, <<>>)
      line == Pad(Line(all, y), x, NUL)
  IN [all EXCEPT ![y + 1] = SubSeq(line, 1, x) \o <<ch>>]

\* writeRune: lines and cells that are missing before (x, y) are added.
WriteRune(lines, x, y, ch, overwrite) ==
  LET all  == Pad(lines, y + 1, <<>>)
      line == Pad(Line(all, y), x, NUL)
      rest == Drop(line, IF overwrite THEN x + 1 ELSE x)
  IN [all EXCEPT ![y + 1] = SubSeq(line, 1, x) \o <<ch>> \o rest]

\* deleteRune; an invalid point leaves the lines alone.
CanDelete(lines, x, y) ==
  x >= 0 /\ y >= 0 /\ y < Len(lines) /\ x < Len(Line(lines, y))
DeleteRune(lines, x, y) ==
  IF CanDelete(lines, x, y)
  THEN [lines EXCEPT ![y + 1] = SubSeq(@, 1, x) \o Drop(@, x + 1)]
  ELSE lines

\* mergeLines.
MergeLines(lines, y) ==
  IF y >= 0 /\ y + 1 < Len(lines)
  THEN SubSeq(lines, 1, y) \o <<Line(lines, y) \o Line(lines, y + 1)>> \o Drop(lines, y + 2)
  ELSE lines

\* breakLine.
BreakLine(lines, x, y) ==
  IF y >= 0 /\ y < Len(lines)
  THEN LET line == Line(lines, y)
           at   == IF x < Len(line) THEN x ELSE Len(line)
       IN SubSeq(lines, 1, y) \o <<SubSeq(line, 1, at), Drop(line, at)>> \o Drop(lines, y + 1)
  ELSE lines

-----------------------------------------------------------------------------
(* Columns and rows.                                                       *)

\* lineWidth.
LineWidth(line) ==
  Len(line) + Cardinality({i \in DOMAIN line : line[i] \in Wide})
            - Cardinality({i \in DOMAIN line : line[i] \in Zero})

\* takeLine: the cells that fit into one row of maxX columns.  A row that is
\* full takes no more, not even a cell without a column.
RowLen(line, maxX) ==
  LET taken == {n \in 0 .. Len(line) : LineWidth(SubSeq(line, 1, n)) <= maxX}
      full  == {n \in taken : LineWidth(SubSeq(line, 1, n)) = maxX}
  IN IF full = {} THEN Max(taken) ELSE Min(full)

\* The numbers of cells before each row of a line, in order: a line has one
\* row at least, and no empty row after a full one.
RowStarts(line, maxX) ==
  LET f[s \in 0 .. Len(line)] ==
        LET n == RowLen(Drop(line, s), maxX)
        IN <<s>> \o (IF s + n < Len(line) THEN f[s + n] ELSE <<>>)
  IN f[0]

\* Mutant: a rune counts for one column.
PosInLineNarrow(line, x, maxX) == [x |-> x % maxX, y |-> x \div maxX]

\* linesPosOnScreen for a position in a line, row by row: the row among the
\* rows of the line, and the column.  Past the end it counts columns of one
\* cell.
PosInLine(line, x, maxX) ==
  LET f[s \in 0 .. Len(line)] ==
        LET n == RowLen(Drop(line, s), maxX)
        IN IF x < s + n THEN [x |-> LineWidth(SubSeq(line, s + 1, x)), y |-> 0]
           ELSE IF s + n = Len(line)
           THEN [x |-> x - (s + n) + LineWidth(Drop(line, s)), y |-> 0]
           ELSE [f[s + n] EXCEPT !.y = @ + 1]
      p == f[0]
  IN [x |-> p.x % maxX, y |-> p.y + p.x \div maxX]

\* The number of rows of the first n lines.
RowsAbove(lines, n, maxX) ==
  LET f[i \in 0 .. n] == IF i = 0 THEN 0 ELSE f[i - 1] + Len(RowStarts(lines[i], maxX))
  IN f[n]

\* linesPosOnScreen.
PosOnScreen(lines, x, y, maxX, wrap) ==
  LET known == IF y < Len(lines) THEN y ELSE Len(lines)
      above == RowsAbove(lines, known, maxX)
      inLine == IF y < Len(lines)
                THEN PosInLine(Line(lines, y), x, maxX)
                ELSE [x |-> x % maxX, y |-> y - Len(lines) + x \div maxX]
  IN IF wrap THEN [x |-> inLine.x, y |-> above + inLine.y] ELSE [x |-> x, y |-> y]
=============================================================================
