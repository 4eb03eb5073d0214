CONSTANTS
  left = left  right = right  v1 = v1  v2 = v2  v3 = v3
  zero = zero  f1 = f1  a = a
  Names = {left, right}
  Objects = {v1, v2, v3}
  NoView = NoView  Anywhere = Anywhere  NoChar = NoChar
  Keys = {zero, f1}  ZeroKey = zero  Chars = {a}
  Points = {1, 2, 3}
  Inside <- TwoInside
  MaxBindings = 2
SPECIFICATION Spec
SYMMETRY ObjectSymmetry
INVARIANTS TypeOK NamesUnique TypedRunesReachEditor ViewBindingsWin
CHECK_DEADLOCK FALSE
