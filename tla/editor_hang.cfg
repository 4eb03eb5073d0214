CONSTANTS
  w = w  tab = tab
  Runes = {w}  Wide = {w}  Zero = {}  NUL = NUL  NewLine = NewLine
  ViewX = 3  ViewY = 2
  Wraps = {FALSE}
  Deltas = {}
  Points = {}
  SetLines <- ShortLines
  MaxText = 2
SPECIFICATION SetLineSpec
PROPERTIES EditReturns
CHECK_DEADLOCK FALSE
