------------------------------- MODULE Editor -------------------------------
(***************************************************************************)
(* A view that is being edited: its lines, the cursor, the origin of the   *)
(* part that is shown, and the functions that a key or the application     *)
(* calls on it (edit.go; SetCursor, SetOrigin and SetLine of view.go).     *)
(* The functions that loop take a step of the model for each turn of the   *)
(* loop; between two of them nothing else runs on the main goroutine.      *)
(***************************************************************************)
EXTENDS TextLines

CONSTANTS
  NewLine,   \* a line end, as a character of the text (TextField)
  ViewX,     \* columns and rows of the view (Size)
  ViewY,
  Wraps,     \* the values of View.Wrap to consider
  Deltas,    \* the arguments of MoveCursor: the arrow keys, and others
  Points,    \* the arguments of SetCursor and of SetOrigin
  SetLines,  \* the lines an application may put in place with SetLine
  MaxText    \* bound on the length of the text, line ends included

\* A view that wraps a rune wider than itself never finishes takeLine.
ASSUME SizeAssumption ==
  /\ ViewX \in Nat \ {0} /\ ViewY \in Nat \ {0}
  /\ TRUE \in Wraps /\ Wide # {} => ViewX > 1
ASSUME TextAssumption ==
  NewLine \notin Cells /\ MaxText \in Nat /\ Wraps \subseteq BOOLEAN
    /\ Deltas \subseteq Int \X Int /\ Points \subseteq Int \X Int /\ SetLines \subseteq Seq(Cells)

VARIABLES
  lines,      \* v.lines
  cx, cy,     \* v.cx, v.cy
  ox, oy,     \* v.ox, v.oy
  overwrite,  \* v.Overwrite
  wrap,       \* v.Wrap
  mode,       \* the loop the main goroutine is in
  prevX,      \* prevX of EditGotoToEndOfLine
  moved       \* the last step was a MoveCursor in a view with text

place == <<cx, cy, ox, oy>>
vars == <<lines, place, overwrite, wrap, mode, prevX, moved>>

Init ==
  /\ lines = <<>>
  /\ cx = 0 /\ cy = 0 /\ ox = 0 /\ oy = 0
  /\ overwrite = FALSE /\ wrap \in Wraps
  /\ mode = "ready" /\ prevX = 0 /\ moved = FALSE

\* The text of the view: the cursor of an empty view may be lines below.
ConcatLines(ls) ==
  LET f[n \in 1 .. Len(ls)] ==
        IF n = 1 THEN ls[1] ELSE f[n - 1] \o <<NewLine>> \o ls[n]
  IN IF ls = <<>> THEN <<>> ELSE f[Len(ls)]

AllLines == IF lines = <<>> THEN [i \in 1 .. cy + 1 |-> <<>>] ELSE lines
TextOf == ConcatLines(AllLines)
PosOf == Len(ConcatLines(SubSeq(AllLines, 1, cy))) + (IF cy > 0 THEN 1 ELSE 0) + cx

HasRoom == Len(TextOf) < MaxText

-----------------------------------------------------------------------------
(* MoveCursor.                                                             *)

Clamp(n, low, high) == IF n > high THEN high ELSE IF n < low THEN low ELSE n

\* Mutant: the line the cursor moves to is not looked at again.
TargetOldLine(ls, dx, dy) ==
  IF ls = <<>> THEN <<0, 0>>
  ELSE LET y == Clamp(cy + dy, 0, Len(ls) - 1)
           x == cx + dx
       IN IF x < 0 THEN IF y > 0 THEN <<Len(Line(ls, y)), y - 1>> ELSE <<0, 0>>
          ELSE <<IF x > Len(Line(ls, y)) THEN Len(Line(ls, y)) ELSE x, y>>

\* Mutant: nothing stops the cursor at the start of the first line.
TargetNoLeft(ls, dx, dy) ==
  IF ls = <<>> THEN <<0, 0>>
  ELSE LET y == Clamp(cy + dy, 0, Len(ls) - 1)
       IN <<IF cx + dx > Len(Line(ls, y)) THEN Len(Line(ls, y)) ELSE cx + dx, y>>

\* Where MoveCursor(dx, dy) puts the cursor: past the end of a line a move
\* to the right goes on at the next one, before its start one to the left
\* at the end of the line above.
Target(ls, dx, dy) ==
  IF ls = <<>> THEN <<0, 0>>
  ELSE LET y == Clamp(cy + dy, 0, Len(ls) - 1)
           x == cx + dx
       IN IF x > Len(Line(ls, y))
          THEN IF dy = 0 /\ y + 1 < Len(ls) THEN <<0, y + 1>> ELSE <<Len(Line(ls, y)), y>>
          ELSE IF x >= 0 THEN <<x, y>>
          ELSE IF y > 0 THEN <<Len(Line(ls, y - 1)), y - 1>> ELSE <<0, 0>>

\* The part of a line kept in sight to the left of the cursor.
Preview(x) == IF ViewX > 2 /\ x >= 2 THEN 2 ELSE IF ViewX > 1 /\ x >= 1 THEN 1 ELSE 0

\* Mutant: the last row of the view is left out of the sum.
ScrolledShort(o, p, size) == IF p > o + size THEN p - size + 1 ELSE IF p < o THEN p ELSE o

\* An offset, moved as little as shows position p.
Scrolled(o, p, size) == IF p > o + size - 1 THEN p - size + 1 ELSE IF p < o THEN p ELSE o

ScrolledX(o, x) ==
  LET right == IF x > o + ViewX - 1 THEN x - ViewX + 1 ELSE o
  IN IF x - Preview(x) < right THEN x - Preview(x) ELSE right

\* MoveCursor over the lines as the operation left them.  An empty view
\* keeps its origin.
MoveOver(ls, dx, dy) ==
  LET t == Target(ls, dx, dy)
      p == PosOnScreen(ls, t[1], t[2], ViewX, wrap)
  IN /\ cx' = t[1] /\ cy' = t[2]
     /\ IF ls = <<>>
        THEN UNCHANGED <<ox, oy>>
        ELSE /\ oy' = Scrolled(oy, p.y, ViewY)
             /\ ox' = IF wrap THEN ox ELSE ScrolledX(ox, p.x)

-----------------------------------------------------------------------------
(* The operations of a key.  Write, Delete and Move are the parts that the *)
(* loops below use too.                                                    *)

Ready == mode = "ready"

\* The cursor and the origin, and the lines too, stay as they are.
Stay  == moved' = FALSE /\ UNCHANGED place
Still == UNCHANGED lines /\ Stay

Shows == moved' = (lines' # <<>>)
Move(dx, dy) == UNCHANGED lines /\ MoveOver(lines, dx, dy) /\ Shows

\* EditDelete.  A merge that follows a move does not move the cursor again.
Delete(back) ==
  \/ /\ cy >= Len(lines)
     /\ Move(-1, 0)
  \/ /\ cy < Len(lines) /\ back /\ cx = 0 /\ cy = 0
     /\ Still
  \/ /\ cy < Len(lines) /\ back /\ cx = 0 /\ cy > 0
     /\ MoveOver(lines, -1, 0)
     /\ lines' = MergeLines(lines, cy - 1)
     /\ moved' = FALSE
  \/ /\ cy < Len(lines) /\ back /\ cx > 0
     /\ lines' = DeleteRune(lines, cx - 1, cy)
     /\ IF CanDelete(lines, cx - 1, cy)
        THEN MoveOver(DeleteRune(lines, cx - 1, cy), -1, 0) /\ Shows
        ELSE Stay
  \/ /\ cy < Len(lines) /\ ~back
     /\ lines' = IF cx = Len(Line(lines, cy))
                 THEN MergeLines(lines, cy)
                 ELSE DeleteRune(lines, cx, cy)
     /\ Stay

\* A rune, space or tab; a key without a function of its own writes rune 0.
EditWrite(ch) ==
  /\ Ready /\ HasRoom
  /\ LET written == WriteRune(lines, cx, cy, ch, overwrite)
     IN lines' = written /\ MoveOver(written, 1, 0) /\ Shows
  /\ UNCHANGED <<overwrite, wrap, mode, prevX>>

EditDelete(back) ==
  /\ Ready
  /\ Delete(back)
  /\ UNCHANGED <<overwrite, wrap, mode, prevX>>

\* EditNewLine moves the cursor without MoveCursor: oy is not adjusted.
EditNewLine ==
  /\ Ready /\ HasRoom
  /\ lines' = BreakLine(lines, cx, cy)
  /\ ox' = 0 /\ cx' = 0 /\ cy' = cy + 1
  /\ moved' = FALSE
  /\ UNCHANGED <<oy, overwrite, wrap, mode, prevX>>

\* The arrow keys and an application's MoveCursor.
MoveCursor(dx, dy) ==
  /\ Ready
  /\ Move(dx, dy)
  /\ UNCHANGED <<overwrite, wrap, mode, prevX>>

\* KeyInsert.
ToggleOverwrite ==
  /\ Ready
  /\ overwrite' = ~overwrite
  /\ Still /\ UNCHANGED <<wrap, mode, prevX>>

-----------------------------------------------------------------------------
(* The functions that loop until the cursor is where they want it.         *)

\* At the start of a line EditDeleteToStartOfLine deletes the line end.
EditDeleteToStartOfLine ==
  /\ Ready
  /\ \/ cx = 0 /\ Delete(TRUE) /\ UNCHANGED mode
     \/ cx > 0 /\ mode' = "delete" /\ Still
  /\ UNCHANGED <<overwrite, wrap, prevX>>

\* Mutant: the loop stops one rune early.
DeleteToStartTurnShort ==
  /\ mode = "delete"
  /\ \/ cx > 1 /\ Delete(TRUE) /\ UNCHANGED mode
     \/ cx = 1 /\ Delete(FALSE) /\ UNCHANGED mode
     \/ cx = 0 /\ mode' = "ready" /\ Still
  /\ UNCHANGED <<overwrite, wrap, prevX>>

DeleteToStartTurn ==
  /\ mode = "delete"
  /\ \/ cx > 0 /\ Delete(TRUE) /\ UNCHANGED mode
     \/ cx = 0 /\ mode' = "ready" /\ Still
  /\ UNCHANGED <<overwrite, wrap, prevX>>

EditGotoToStartOfLine ==
  /\ Ready
  /\ mode' = "home"
  /\ Still /\ UNCHANGED <<overwrite, wrap, prevX>>

GotoStartTurn ==
  /\ mode = "home"
  /\ \/ cx > 0 /\ Move(-1, 0) /\ UNCHANGED mode
     \/ cx = 0 /\ mode' = "ready" /\ Still
  /\ UNCHANGED <<overwrite, wrap, prevX>>

\* Where SetCursor puts the cursor; SetCursorUnrestricted refuses what is
\* still negative.  A negative y with a positive x is out of v.lines.
Nearest(x, y) ==
  LET yy == IF lines = <<>> THEN 0 ELSE IF y >= Len(lines) THEN Len(lines) - 1 ELSE y
      len == IF lines = <<>> THEN 0 ELSE Len(Line(lines, yy))
  IN <<IF x > 0 /\ x > len THEN len ELSE x, yy>>

\* The cursor goes to the line below to see whether there is one; on the
\* last line it is now at the start, and goes right until it stops.
EditGotoToEndOfLine ==
  /\ Ready
  /\ mode' = IF Nearest(0, cy + 1)[2] = cy THEN "end" ELSE "back"
  /\ cx' = 0 /\ cy' = Nearest(0, cy + 1)[2]
  /\ prevX' = -1
  /\ moved' = FALSE
  /\ UNCHANGED <<lines, ox, oy, overwrite, wrap>>

GotoEndTurn ==
  /\ \/ /\ mode = "back"
        /\ Move(-1, 0) /\ mode' = "ready" /\ UNCHANGED prevX
     \/ /\ mode = "end" /\ prevX # cx
        /\ prevX' = cx /\ Move(1, 0) /\ UNCHANGED mode
     \/ /\ mode = "end" /\ prevX = cx
        /\ mode' = "ready" /\ Still /\ UNCHANGED prevX
  /\ UNCHANGED <<overwrite, wrap>>

-----------------------------------------------------------------------------
(* What an application may do to the view between two keys.                *)

SetCursor(x, y) ==
  /\ Ready
  /\ ~(lines # <<>> /\ x > 0 /\ y < 0)
  /\ LET n == Nearest(x, y)
     IN /\ n[1] >= 0 /\ n[2] >= 0
        /\ cx' = n[1] /\ cy' = n[2]
  /\ moved' = FALSE
  /\ UNCHANGED <<lines, ox, oy, overwrite, wrap, mode, prevX>>

SetOrigin(x, y) ==
  /\ Ready
  /\ x >= 0 /\ y >= 0
  /\ ox' = x /\ oy' = y
  /\ moved' = FALSE
  /\ UNCHANGED <<lines, cx, cy, overwrite, wrap, mode, prevX>>

\* The part of draw that changes the view (Autoscroll is not set).
Draw ==
  /\ Ready
  /\ wrap
  /\ ox' = 0
  /\ moved' = FALSE
  /\ UNCHANGED <<lines, cx, cy, oy, overwrite, wrap, mode, prevX>>

\* SetLine leaves the cursor where it is.
SetLine(y, line) ==
  /\ Ready
  /\ y >= 0 /\ y < Len(lines)
  /\ Len(TextOf) - Len(Line(lines, y)) + Len(line) <= MaxText
  /\ lines' = [lines EXCEPT ![y + 1] = line]
  /\ Stay /\ UNCHANGED <<overwrite, wrap, mode, prevX>>

-----------------------------------------------------------------------------
LoopTurn == DeleteToStartTurn \/ GotoStartTurn \/ GotoEndTurn

Next ==
  \/ \E ch \in Cells : EditWrite(ch)
  \/ \E back \in BOOLEAN : EditDelete(back)
  \/ EditNewLine \/ ToggleOverwrite
  \/ \E d \in Deltas : MoveCursor(d[1], d[2])
  \/ EditDeleteToStartOfLine \/ EditGotoToStartOfLine \/ EditGotoToEndOfLine
  \/ LoopTurn
  \/ \E p \in Points : SetCursor(p[1], p[2]) \/ SetOrigin(p[1], p[2])
  \/ Draw

Spec == Init /\ [][Next]_vars

\* An application that replaces lines under the cursor too; the main
\* goroutine does not stop inside a loop.
SetLineNext == Next \/ \E y \in 0 .. Len(lines), line \in SetLines : SetLine(y, line)
SetLineSpec == Init /\ [][SetLineNext]_vars /\ WF_vars(LoopTurn)

-----------------------------------------------------------------------------
(* Properties.                                                             *)

\* The coordinates are never negative.
TypeOK ==
  /\ lines \in Seq(Seq(Cells))
  /\ cx \in Nat /\ cy \in Nat /\ ox \in Nat /\ oy \in Nat
  /\ overwrite \in BOOLEAN /\ wrap \in BOOLEAN
  /\ moved \in BOOLEAN
  /\ mode \in {"ready", "delete", "home", "end", "back"}
  /\ prevX \in Int

\* The cursor of a view that is edited with the keys, MoveCursor and
\* SetCursor is in the text: no later write pads a line with NUL cells, and
\* no loop that counts on deleteRune and MoveCursor runs forever.
CursorInText ==
  IF lines = <<>> THEN cx = 0
  ELSE cy < Len(lines) /\ cx <= Len(Line(lines, cy))

\* MoveCursor, and with it every rune typed or deleted backwards, leaves the
\* cursor in the part of the view that is shown, wherever the origin was.
\* (Not a line end deleted backwards: the lines are merged after the move,
\* and a wide rune that now shares its row can push the cursor one row on.)
MovesIntoView ==
  moved => LET p == PosOnScreen(lines, cx, cy, ViewX, wrap)
           IN p.y \in oy .. oy + ViewY - 1 /\ (wrap \/ p.x \in ox .. ox + ViewX - 1)

\* Where viewLines and draw put the cell that x cells of its line precede.
DrawnAt(x, y) ==
  LET starts == RowStarts(Line(lines, y), ViewX)
      k == Max({i \in DOMAIN starts : starts[i] <= x})
  IN [x |-> LineWidth(SubSeq(Line(lines, y), starts[k] + 1, x)),
      y |-> RowsAbove(lines, y, ViewX) + k - 1]

\* With Wrap set, the cursor is shown on the rune it is on: linesPosOnScreen,
\* which takes the rows of a line apart again, finds the row and the column
\* at which viewLines and draw have put that rune, wide runes included.
CursorOnItsRune ==
  wrap /\ CanDelete(lines, cx, cy) => PosOnScreen(lines, cx, cy, ViewX, wrap) = DrawnAt(cx, cy)

Field == INSTANCE TextField WITH Runes <- Cells, text <- TextOf, pos <- PosOf

\* Lines, cursor and overwrite mode implement a text field: each key changes
\* the text at the cursor as that key should, across line ends too.
ImplementsTextField == Field!Spec

\* Each turn of a loop brings it nearer to its end: the deletion and the way
\* home leave fewer runes to the left of the cursor, the way to the end of
\* the line goes on to the right or sees that it has not moved.
LoopsProgress ==
  [][mode' = mode =>
       \/ Ready
       \/ mode \in {"delete", "home"} /\ cx' < cx
       \/ mode = "end" /\ (cx' > cx \/ prevX' = cx')]_vars

\* EditDeleteToStartOfLine deletes characters until the cursor is at the
\* start of the line, and comes back; so do the other functions that loop.
EditReturns == mode # "ready" ~> mode = "ready"
=============================================================================
