CONSTANTS
  w1 = w1  w2 = w2  x = x  e = e
  ESC = ESC  Bracket = Bracket  Semi = Semi  EndM = EndM
  Numbers <- SomeNumbers
  MaxParams = 10
  Writers = {w1, w2}  Free = Free
  Inputs <- Streams
  Letters = {x, e}  Newline = Newline  Tab = Tab
  Multi = {e}
  Lens = {2}
  MaxCalls = 2
SPECIFICATION Spec
SYMMETRY WriterSymmetry
INVARIANTS TypeOK WritesContiguous HeldBounded ClearForgets WholeRunesInOrder
PROPERTIES RequestsApply NothingLost
CHECK_DEADLOCK FALSE
