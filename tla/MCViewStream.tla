---------------------------- MODULE MCViewStream ----------------------------
(* Instances of ViewStream for TLC: the Writes are complete requests with a  *)
(* letter after them, and the pieces of sequences that two Writes join.      *)
EXTENDS ViewStream, TLC

CONSTANTS w1, w2, x, e

WriterSymmetry == Permutations(Writers)

Request(ps) ==
  <<ESC, Bracket>>
    \o [i \in 1 .. 2 * Len(ps) - 1 |-> IF i % 2 = 1 THEN ps[(i + 1) \div 2] ELSE Semi]
    \o <<EndM, x>>

SomeNumbers == {0, 1, 2, 3, 4, 5, 31, 38, 39, 44, 48, 49, 200, 255}

Requests ==
  {<<0>>, <<1, 31>>, <<31, 1>>, <<39, 49, 4>>, <<44, 2, 1>>,
   <<38, 5, 48>>, <<48, 5, 200, 48, 5, 38>>, <<38, 5, 38, 48, 5, 48, 38, 5, 31, 1, 4>>,
   <<38, 2, 0, 38, 48, 3>>, <<48, 2, 38, 5, 1, 38, 2, 48, 48, 255>>,
   <<38, 5, 1, 48>>, <<1, 5, 31>>, <<38, 5, 1, 4, 48, 5, 2>>}

Pieces ==
  {<<x, Tab, Newline>>, <<e, x, e, Newline>>, <<ESC>>, <<ESC, x>>, <<ESC, Bracket, x>>, <<Bracket, 1>>,
   <<ESC, Bracket, EndM, x>>, <<Semi, 31, EndM, x>>, <<ESC, Bracket, 1, Newline, Semi>>,
   <<ESC, Bracket, 1, Semi, 1, Semi, 1, Semi, 1, Semi, 1, Semi, 1, Semi>>,
   <<1, Semi, 1, Semi, 1, Semi, 1, Semi, 1, Semi, 1, Semi, 1, x>>, <<1, 1, x>>}

Streams == Pieces \cup {Request(ps) : ps \in Requests}
=============================================================================
