----------------------------- MODULE MCDispatch -----------------------------
(* Instances of Dispatch for TLC: two views that overlap.                   *)
EXTENDS Dispatch, TLC

CONSTANTS left, right, v1, v2, v3, zero, f1, a

TwoInside(n) == IF n = left THEN {1, 2} ELSE {2, 3}
ObjectSymmetry == Permutations({v1, v2, v3})
=============================================================================
