---------------------------- MODULE MCViewBuffer ----------------------------
(* Instances of ViewBuffer for TLC.                                          *)
EXTENDS ViewBuffer

CONSTANTS a

None == {}
OneRune == {a}
ShortInputs == {<<a>>, <<a, Newline>>, <<Return, Tab>>}
=============================================================================
