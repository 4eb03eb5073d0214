----------------------------- MODULE TextBuffer -----------------------------
(***************************************************************************)
(* What the text of a view promises to those that change it: lines of      *)
(* cells, each with a value of its own, and the place the next Write goes  *)
(* to.  ViewBuffer keeps the same text in Go slices.                       *)
(***************************************************************************)
EXTENDS TextLines

CONSTANTS
  Space,     \* the rune a tab is written as
  Newline, Return, Tab,
  TabWidth,  \* 4 in the code
  Inputs,    \* what is given to Write, as sequences
  MaxX, MaxY \* bounds on the lines: MaxY + 1 lines of at most MaxX cells

\* Assumed by the module that keeps the text.
Constants ==
  /\ Space \in Runes
  /\ {Newline, Return, Tab} \cap Cells = {} /\ Newline # Return /\ Tab \notin {Newline, Return}
  /\ Inputs \subseteq Seq(Runes \cup {Newline, Return, Tab})
  /\ TabWidth \in Nat \ {0} /\ MaxX \in Nat /\ MaxY \in Nat

VARIABLES text, wx, wy

\* What parseInput makes of a rune outside of an escape sequence.
CellsOf(r) == IF r = Tab THEN [i \in 1 .. TabWidth |-> Space] ELSE <<r>>

\* makeWriteable, as its comment has it.
Writeable(lines, x, y) ==
  LET all == Pad(lines, y + 1, <<>>)
  IN [all EXCEPT ![y + 1] = Pad(@, x, NUL)]

Over(line, x, cells) == SubSeq(line, 1, x) \o cells \o Drop(line, x + Len(cells))

\* writeRunes, one rune at a time: [text, wx, wy] to [text, wx, wy].
WriteOne(b, r) ==
  CASE r = Newline -> [text |-> Pad(b.text, b.wy + 2, <<>>), wx |-> 0, wy |-> b.wy + 1]
    [] r = Return  -> [b EXCEPT !.wx = 0]
    [] OTHER -> [b EXCEPT !.text[b.wy + 1] = Over(@, b.wx, CellsOf(r)),
                          !.wx = @ + Len(CellsOf(r))]
WriteAll(b, p) ==
  LET f[i \in 0 .. Len(p)] == IF i = 0 THEN b ELSE WriteOne(f[i - 1], p[i])
  IN f[Len(p)]

Init == text = <<>> /\ wx = 0 /\ wy = 0

SetWritePos == \E x \in 0 .. MaxX, y \in 0 .. MaxY : wx' = x /\ wy' = y /\ UNCHANGED text

Write(p) ==
  LET b == WriteAll([text |-> Writeable(text, wx, wy), wx |-> wx, wy |-> wy], p)
  IN text' = b.text /\ wx' = b.wx /\ wy' = b.wy

\* The other changes leave the place of the next Write alone, even when the
\* text gets too short for it.
Changed(lines) == text' = lines /\ UNCHANGED <<wx, wy>>

Edit ==
  \/ \E x \in 0 .. MaxX, y \in 0 .. MaxY, ch \in Runes, o \in BOOLEAN :
       Changed(WriteRune(text, x, y, ch, o))
  \/ \E x \in 0 .. MaxX, y \in 0 .. MaxY :
       Changed(DeleteRune(text, x, y)) \/ Changed(BreakLine(text, x, y))
  \/ \E y \in 0 .. MaxY : Changed(MergeLines(text, y))

SetLine ==
  \E y \in 0 .. Len(text) - 1, p \in Inputs :
    /\ {Newline, Return} \cap {p[i] : i \in DOMAIN p} = {}
    /\ Changed([text EXCEPT ![y + 1] =
                  WriteAll([text |-> <<(<<>>)>>, wx |-> 0, wy |-> 0], p).text[1]])

Clear == text' = <<>> /\ wx' = 0 /\ wy' = 0

Next == SetWritePos \/ (\E p \in Inputs : Write(p)) \/ Edit \/ SetLine \/ Clear
Spec == Init /\ [][Next]_<<text, wx, wy>>
=============================================================================
