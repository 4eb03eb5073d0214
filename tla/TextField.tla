----------------------------- MODULE TextField -----------------------------
(***************************************************************************)
(* What an editable view promises to the person who types into it, with    *)
(* lines, cursor coordinates and scrolling forgotten: a text, in which a   *)
(* line end is one more character, and a position between two characters.  *)
(***************************************************************************)
EXTENDS Integers, Sequences

CONSTANTS Runes, NewLine

VARIABLES text, pos

vars == <<text, pos>>

Before == SubSeq(text, 1, pos)
After  == SubSeq(text, pos + 1, Len(text))

Init == text = <<>> /\ pos = 0

Insert(c) == pos' = pos + 1 /\ text' = Before \o <<c>> \o After

\* Overwrite mode replaces a character, never a line end.
Replace(c) ==
  /\ pos < Len(text) /\ text[pos + 1] # NewLine
  /\ pos' = pos + 1
  /\ text' = [text EXCEPT ![pos + 1] = c]

DeleteBefore ==
  /\ pos > 0
  /\ pos' = pos - 1
  /\ text' = SubSeq(text, 1, pos - 1) \o After

DeleteAfter ==
  /\ pos < Len(text)
  /\ UNCHANGED pos
  /\ text' = Before \o Tail(After)

Goto == pos' \in 0 .. Len(text) /\ UNCHANGED text

\* Line ends typed into an empty field count from the first rune on; until
\* then moving the cursor forgets them.
Forget ==
  /\ \A i \in DOMAIN text : text[i] = NewLine
  /\ text' = <<>> /\ pos' = 0

Next ==
  \/ \E c \in Runes \cup {NewLine} : Insert(c)
  \/ \E c \in Runes : Replace(c)
  \/ DeleteBefore \/ DeleteAfter \/ Goto \/ Forget

Spec == Init /\ [][Next]_vars
=============================================================================
