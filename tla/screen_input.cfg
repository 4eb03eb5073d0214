CONSTANTS
  a = a  sp = sp  f1 = f1  up = up  right = right  back = back
  Chars = {a, sp}  SpaceChar = sp  NoChar = NoChar
  Keys = {zero, f1}  ZeroKey = zero  KeySpace = KeySpace
  Primary = Primary  Secondary = Secondary  Middle = Middle
  OtherButtons = {back}
  Wheels <- MCWheels
  MouseRelease = MouseRelease
  ModSets <- MCModSets
  ButtonSets <- MCButtonSets
  Nothing = Nothing
SPECIFICATION Spec
PROPERTIES ImplementsInput
