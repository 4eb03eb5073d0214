---------------------------- MODULE InputService ----------------------------
(***************************************************************************)
(* What MainLoop promises to the person at the keyboard, with every queue  *)
(* and goroutine forgotten: the keys the screen has accepted are numbered  *)
(* 1, 2, ... in the order of acceptance; each is handled exactly once, in  *)
(* that order; a redraw shows the effect of the keys handled so far; and   *)
(* nothing is handled or drawn once the loop has returned.                 *)
(***************************************************************************)
EXTENDS Integers

VARIABLES
  sent,     \* number of keys accepted by the screen
  handled,  \* number of the last key handled
  drawn,    \* number of the last key whose effect is on the screen
  running   \* the loop has not returned

vars == <<sent, handled, drawn, running>>

Init ==
  /\ sent = 0 /\ handled = 0 /\ drawn = 0
  /\ running = TRUE

Accept ==
  /\ sent' = sent + 1
  /\ UNCHANGED <<handled, drawn, running>>

\* The handler of a key may end the loop: the key still counts as handled.
Handle ==
  /\ running
  /\ handled < sent
  /\ handled' = handled + 1
  /\ running' \in BOOLEAN
  /\ UNCHANGED <<sent, drawn>>

Redraw ==
  /\ running
  /\ drawn' = handled
  /\ UNCHANGED <<sent, handled, running>>

Halt ==
  /\ running
  /\ running' = FALSE
  /\ UNCHANGED <<sent, handled, drawn>>

Next == Accept \/ Handle \/ Redraw \/ Halt

Spec == Init /\ [][Next]_vars
=============================================================================
