---------------------------- MODULE MCEventLoop ----------------------------
(* Instances of EventLoop for TLC: the calls of the application are model    *)
(* values.  No symmetry is declared: the runs check temporal properties too. *)
EXTENDS EventLoop

CONSTANTS u1, u2, c1
=============================================================================
