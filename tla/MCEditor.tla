------------------------------ MODULE MCEditor ------------------------------
(* Instances of Editor for TLC.                                             *)
EXTENDS Editor

CONSTANTS w, tab

SomeDeltas == {<<1, 0>>, <<-1, 0>>, <<0, 1>>, <<0, -1>>, <<2, -1>>}
SomePoints == {<<2, 5>>}
NoLines == {}
ShortLines == {<<>>}
=============================================================================
