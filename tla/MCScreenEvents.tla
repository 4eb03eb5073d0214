--------------------------- MODULE MCScreenEvents ---------------------------
(* Instances of ScreenEvents for TLC: any buttons, two wheels.              *)
EXTENDS ScreenEvents, TLC

CONSTANTS a, sp, f1, up, right, back

MCWheels == <<up, right>>
MCButtonSets == SUBSET {Primary, Secondary, back, up, right}
MCModSets == {{}, {"shift"}, {"ctrl"}, {"shift", "alt"}}
=============================================================================
