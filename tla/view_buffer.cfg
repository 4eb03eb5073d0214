CONSTANTS
  a = a  NUL = NUL
  Runes <- OneRune  Wide <- None  Zero <- None
  Space = a  Newline = Newline  Return = Return  Tab = Tab
  TabWidth = 2
  Inputs <- ShortInputs
  MaxX = 2  MaxY = 2
  MaxSlack = 1  MaxHeap = 3
SPECIFICATION CarefulSpec
INVARIANTS TypeOK LinesApart
PROPERTIES ImplementsTextBuffer
