CONSTANTS
  w = w  tab = tab
  Runes = {w, tab}  Wide = {w}  Zero = {tab}  NUL = NUL  NewLine = NewLine
  ViewX = 3  ViewY = 2
  Wraps = {TRUE, FALSE}
  Deltas <- SomeDeltas
  Points <- SomePoints
  SetLines <- NoLines
  MaxText = 4
SPECIFICATION Spec
INVARIANTS TypeOK CursorInText MovesIntoView CursorOnItsRune
PROPERTIES ImplementsTextField LoopsProgress
CHECK_DEADLOCK FALSE
