--------------------------- MODULE MCTestingLoop ---------------------------
(* Instances of TestingLoop for TLC.                                        *)
EXTENDS TestingLoop

CONSTANTS t1, t2, u1, u2, w1, w2
=============================================================================
