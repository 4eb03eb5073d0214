CONSTANTS
  list = list  form = form  page = page
  narrow = narrow  wide = wide  zero = zero
  Runes = {narrow, wide, zero}  Wide = {wide}  Zero = {zero}  NUL = NUL
  Names = {list, form, page}
  NoView = NoView  Gone = Gone
  Looks <- MCLooks
  Rects <- MCRects
  Positions <- MCPositions
  Sizes <- MCSizes
  CursorOn = TRUE
  Hidden = Hidden  Stale = Stale
SPECIFICATION Spec
CONSTRAINT PageAlone
INVARIANTS TypeOK ClickReachesSeen FlushFailsWhenNarrow CursorInFocus
CHECK_DEADLOCK FALSE
