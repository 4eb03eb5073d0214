----------------------------- MODULE ViewStream -----------------------------
(***************************************************************************)
(* A view as a stream: goroutines that Write to it, rune by rune through   *)
(* the escape interpreter and one at a time thanks to writeMutex, Clear,   *)
(* and an application that Reads between the Writes.  Here the text only   *)
(* grows at its end, and its cells have colours; ViewBuffer has the other  *)
(* ways to change it.                                                      *)
(***************************************************************************)
EXTENDS Escape

CONSTANTS
  Writers,
  Free,       \* writeMutex is not held
  Inputs,     \* what is given to Write
  Letters,    \* runes with no part in a sequence
  Newline, Tab,
  Multi,      \* letters of two bytes
  Lens,       \* lengths of the slices given to Read
  MaxCalls    \* bound on the number of Writes

ASSUME ViewStreamAssumption ==
  /\ Free \notin Writers /\ Multi \subseteq Letters
  /\ Inputs \subseteq Seq(Letters \cup Numbers \cup {ESC, Bracket, Semi, EndM, Newline, Tab})
  /\ Lens \subseteq Nat \ {0} /\ MaxCalls \in Nat

VARIABLES
  mode,     \* v.outMode
  ei,       \* v.ei
  lines,    \* v.lines; wx, wy are at the end
  lock,     \* writeMutex
  job,      \* what is left of the Write of each goroutine
  calls,    \* number of Writes so far
  crashed,  \* a panic in Write ended the program
  reader,   \* rx, ry and readBuffer
  got,      \* history: the bytes Read returned since the start of the text
  split,    \* history: a rune of two bytes was divided between two slices
  missed,   \* history: text was added to a line that Read had left at io.EOF
  held,     \* history: the runes of the open sequence
  asked     \* history: a request was taken since Clear

vars == <<mode, ei, lines, lock, job, calls, crashed, reader, got, missed, split, held, asked>>

Idle == [call |-> 0, runes |-> <<>>]
Chars == Letters \cup Numbers \cup {ESC, Bracket, Semi, EndM, Tab}
FromStart == [rx |-> 0, ry |-> 0, buffer |-> <<>>]
NotReading == UNCHANGED <<reader, got, split>>

Init ==
  /\ mode \in Modes
  /\ ei = Start /\ lines = <<>> /\ lock = Free
  /\ job = [w \in Writers |-> Idle] /\ calls = 0 /\ crashed = FALSE
  /\ reader = FromStart /\ got = <<>> /\ missed = FALSE /\ split = FALSE
  /\ held = <<>> /\ asked = FALSE

-----------------------------------------------------------------------------
(* Write.                                                                  *)

\* Mutant: no look at the mutex.
WriteUnlocked(w, p) ==
  /\ ~crashed /\ calls < MaxCalls /\ job[w] = Idle
  /\ calls' = calls + 1 /\ job' = [job EXCEPT ![w] = [call |-> calls + 1, runes |-> p]]
  /\ lines' = IF lines = <<>> THEN <<(<<>>)>> ELSE lines
  /\ missed' = (missed \/ (lines # <<>> /\ reader.ry >= Len(lines)))
  /\ NotReading /\ UNCHANGED <<mode, ei, lock, crashed, held, asked>>

\* Write up to makeWriteable, which makes the first line.
Write(w, p) ==
  /\ ~crashed /\ calls < MaxCalls /\ job[w] = Idle
  /\ lock = Free /\ lock' = w
  /\ calls' = calls + 1 /\ job' = [job EXCEPT ![w] = [call |-> calls + 1, runes |-> p]]
  /\ lines' = IF lines = <<>> THEN <<(<<>>)>> ELSE lines
  /\ missed' = (missed \/ (lines # <<>> /\ reader.ry >= Len(lines)))
  /\ NotReading /\ UNCHANGED <<mode, ei, crashed, held, asked>>

AddCells(call, style, runes) ==
  lines' = [lines EXCEPT ![Len(lines)] =
              @ \o [i \in DOMAIN runes |-> [chr |-> runes[i], style |-> style, call |-> call]]]

\* Mutant: the interpreter is reset before it is asked for the runes.
RejectReset(r, call) ==
  AddCells(call, Style, Runes(Start)) /\ ei' = Start /\ held' = <<>> /\ UNCHANGED asked

\* parseInput, for a sequence that is not one: its runes become text in the
\* colours of the view, and the interpreter loses its own.
Reject(r, call) ==
  AddCells(call, Style, Runes(r.ei)) /\ ei' = Start /\ held' = <<>> /\ UNCHANGED asked

\* writeRunes and parseInput for one rune.  A line end does not go through the
\* interpreter, not even in a sequence.
PutRune(w) ==
  /\ ~crashed /\ job[w] # Idle /\ job[w].runes # <<>>
  /\ LET ch   == Head(job[w].runes)
         call == job[w].call
         r    == ParseOne(mode, ei, ch)
     IN /\ job' = [job EXCEPT ![w].runes = Tail(@)]
        /\ crashed' = (ch # Newline /\ r.is = "panic")
        /\ \/ /\ ch = Newline /\ lines' = Append(lines, <<>>) /\ UNCHANGED <<ei, held, asked>>
           \/ /\ ch # Newline /\ r.is = "text"
              /\ AddCells(call, ei.style, IF ch = Tab THEN [i \in 1 .. 4 |-> ch] ELSE <<ch>>)
              /\ UNCHANGED <<ei, held, asked>>
           \/ /\ ch # Newline /\ r.is = "escape"
              /\ ei' = r.ei /\ held' = Append(held, ch) /\ UNCHANGED <<lines, asked>>
           \/ /\ ch # Newline /\ r.is = "request"
              /\ ei' = r.ei /\ held' = <<>> /\ asked' = TRUE /\ UNCHANGED lines
           \/ ch # Newline /\ r.is \in {"parse", "overlong"} /\ Reject(r, call)
           \/ ch # Newline /\ r.is = "panic" /\ UNCHANGED <<lines, ei, held, asked>>
  /\ NotReading /\ UNCHANGED <<mode, lock, calls, missed>>

\* Write returns.
EndWrite(w) ==
  /\ ~crashed /\ job[w] # Idle /\ job[w].runes = <<>>
  /\ job' = [job EXCEPT ![w] = Idle] /\ lock' = Free
  /\ NotReading /\ UNCHANGED <<mode, ei, lines, calls, crashed, missed, held, asked>>

\* Mutant: the interpreter is forgotten.
ClearText ==
  /\ ~crashed /\ lock = Free
  /\ lines' = <<>> /\ reader' = FromStart /\ got' = <<>> /\ missed' = FALSE /\ split' = FALSE
  /\ held' = <<>> /\ asked' = FALSE
  /\ UNCHANGED <<mode, ei, lock, job, calls, crashed>>

\* Mutant: the read position stays.
ClearUnread ==
  /\ ~crashed /\ lock = Free
  /\ lines' = <<>> /\ got' = <<>> /\ missed' = FALSE /\ split' = FALSE
  /\ ei' = Start /\ held' = <<>> /\ asked' = FALSE
  /\ UNCHANGED <<mode, lock, job, calls, crashed, reader>>

\* Clear, as far as this state goes.
Clear ==
  /\ ~crashed /\ lock = Free
  /\ lines' = <<>> /\ reader' = FromStart /\ got' = <<>> /\ missed' = FALSE /\ split' = FALSE
  /\ ei' = Start /\ held' = <<>> /\ asked' = FALSE
  /\ UNCHANGED <<mode, lock, job, calls, crashed>>

-----------------------------------------------------------------------------
(* Read.                                                                   *)

\* utf8.EncodeRune into a buffer of utf8.UTFMax bytes.
Bytes(chr) == IF chr \in Multi THEN <<<<chr, 1>>, <<chr, 2>>>> ELSE <<<<chr, 1>>>>
Encoded(cells) == FlattenSeq([i \in DOMAIN cells |-> Bytes(cells[i].chr)])
Over(p, bytes) == bytes \o SubSeq(p, Len(bytes) + 1, Len(p))
NoBytes == [i \in 1 .. 4 |-> <<>>]

\* The cells ahead of the reader, with the places where they are.
Ahead ==
  FlattenSeq([y \in 1 .. Len(lines) |->
    LET from == IF y - 1 < reader.ry THEN Len(lines[y])
                ELSE IF y - 1 = reader.ry THEN reader.rx ELSE 0
    IN [i \in 1 .. Len(lines[y]) - from |->
          [chr |-> lines[y][from + i].chr, rx |-> from + i, ry |-> y - 1]]])

\* Mutant: the rune that fills the slice is left for the next Read.
ReadAgain(n) ==
  /\ ~crashed /\ lock = Free
  /\ LET full == {k \in DOMAIN Ahead : Len(Encoded(SubSeq(Ahead, 1, k))) >= n}
     IN IF full = {}
        THEN reader' = [rx |-> 0, ry |-> Max({reader.ry, Len(lines)}), buffer |-> <<>>]
             /\ got' = got \o Encoded(Ahead)
        ELSE reader' = [rx |-> Ahead[Min(full)].rx - 1, ry |-> Ahead[Min(full)].ry, buffer |-> <<>>]
             /\ got' = got \o SubSeq(Encoded(Ahead), 1, n)
  /\ UNCHANGED <<mode, ei, lines, lock, job, calls, crashed, missed, split, held, asked>>

\* Read into a slice of n bytes.  What is left in readBuffer goes to the start
\* of the slice, and the runes after it go there too: offset is still 0.  A
\* slice as long as readBuffer does not empty it.
Read(n) ==
  /\ ~crashed /\ lock = Free
  /\ LET left == reader.buffer
         runes(k) == Encoded(SubSeq(Ahead, 1, k))
         full == {k \in DOMAIN Ahead : Len(runes(k)) >= n}
         k    == Min(full)
         over == Len(runes(k)) - n
         \* Each rune is encoded over the one before.
         buffer == FoldLeft(LAMBDA b, c : Over(b, Bytes(c.chr)), NoBytes, SubSeq(Ahead, 1, k))
     IN \/ /\ Len(left) >= n
           /\ reader' = [reader EXCEPT !.buffer = IF Len(@) > n THEN SubSeq(@, n + 1, Len(@)) ELSE @]
           /\ got' = got \o SubSeq(left, 1, n) /\ UNCHANGED split
        \/ /\ Len(left) < n /\ full # {}
           /\ reader' = [rx |-> Ahead[k].rx, ry |-> Ahead[k].ry,
                         buffer |-> IF over > 0 THEN SubSeq(buffer, over + 1, 4) ELSE <<>>]
           /\ got' = got \o SubSeq(runes(k), 1, n) /\ split' = (split \/ over > 0)
        \* io.EOF
        \/ /\ Len(left) < n /\ full = {}
           /\ reader' = [rx |-> IF reader.ry < Len(lines) THEN 0 ELSE reader.rx,
                         ry |-> Max({reader.ry, Len(lines)}), buffer |-> <<>>]
           /\ got' = got \o Encoded(Ahead) /\ UNCHANGED split
  /\ UNCHANGED <<mode, ei, lines, lock, job, calls, crashed, missed, held, asked>>

-----------------------------------------------------------------------------
Next ==
  \/ \E w \in Writers : PutRune(w) \/ EndWrite(w) \/ \E p \in Inputs : Write(w, p)
  \/ Clear
  \/ \E n \in Lens : Read(n)

Spec == Init /\ [][Next]_vars

-----------------------------------------------------------------------------
(* Properties.                                                             *)

Text == FlattenSeq(lines)

\* The types of the variables.
TypeOK ==
  /\ mode \in Modes /\ lock \in Writers \cup {Free} /\ calls \in 0 .. MaxCalls
  /\ ei.state \in {"none", "escape", "csi", "params"} /\ ei.params \in Seq(Seq(Numbers))
  /\ \A i \in DOMAIN Text : Text[i].chr \in Chars /\ Text[i].call \in 1 .. calls
  /\ \A w \in Writers : job[w] # Idle => job[w].call \in 1 .. calls
  /\ reader.ry \in 0 .. Len(lines)
  /\ reader.ry < Len(lines) => reader.rx \in 0 .. Len(lines[reader.ry + 1])
  /\ crashed \in BOOLEAN /\ missed \in BOOLEAN /\ split \in BOOLEAN /\ asked \in BOOLEAN

\* The text of one Write is in one piece, whatever other goroutines write.
WritesContiguous ==
  \A i, k \in DOMAIN Text : i < k /\ Text[i].call = Text[k].call =>
    \A j \in i .. k : Text[j].call = Text[i].call

\* A request read from left to right, as what it makes of the style that
\* shows on the terminal.
AskedFor(style, params) ==
  LET p(i) == params[i][1]
      turn(a, i) ==
        IF a.skip > 0 THEN [a EXCEPT !.skip = @ - 1]
        ELSE IF p(i) \in {38, 48}
        THEN LET n == IF p(i + 1) = 5 THEN 1 ELSE 3
                 color == [j \in 1 .. n |-> p(i + 1 + j)]
             IN [skip |-> n + 1,
                 to |-> IF p(i) = 38 THEN [a.to EXCEPT !.fg = color, !.fx = {}]
                        ELSE [a.to EXCEPT !.bg = color]]
        ELSE [skip |-> 0, to |->
          CASE p(i) \in 30 .. 37 -> [a.to EXCEPT !.fg = <<p(i) - 30>>, !.fx = {}]
            [] p(i) = 39          -> [a.to EXCEPT !.fg = Default, !.fx = {}]
            [] p(i) \in 40 .. 47  -> [a.to EXCEPT !.bg = <<p(i) - 40>>]
            [] p(i) = 49          -> [a.to EXCEPT !.bg = Default]
            [] p(i) = 0           -> [fg |-> Default, bg |-> Default, fx |-> {}]
            [] p(i) \in Effects   -> [a.to EXCEPT !.fx = @ \cup {p(i)}]]
  IN FoldLeft(turn, [skip |-> 0, to |-> style], [i \in DOMAIN params |-> i]).to

\* Colours of the kind k (5: palette, 2: true colour), n parameters each, and
\* after the last one effects if it is a foreground.
ColorGroups(params, k, n) ==
  \E m \in 1 .. Len(params) \div n :
    /\ \A j \in 0 .. m - 1 : params[j * n + 1] \in {<<38>>, <<48>>} /\ params[j * n + 2] = <<k>>
    /\ \A i \in m * n + 1 .. Len(params) :
         params[(m - 1) * n + 1] = <<38>> /\ params[i][1] \in Effects

\* The requests that the code is written for, in each mode.
Supported(m, params) ==
  /\ Known(params)
  /\ \/ /\ \A i \in DOMAIN params : params[i][1] \in Effects \cup {0, 39, 49} \cup 30 .. 37 \cup 40 .. 47
        /\ m = "normal" \/ (m \in {"256", "true"} /\ (Len(params) < 3 \/ params[2] \notin {<<2>>, <<5>>}))
     \/ m \in {"256", "true"} /\ ColorGroups(params, 5, 3)
     \/ m = "true" /\ ColorGroups(params, 2, 5)

Finishes(w, ch) == PutRune(w) /\ Head(job[w].runes) = ch /\ ei.state = "params" /\ ~TooLong(ei)

\* A supported request is taken, without a panic, and text after it has the
\* colours and effects on the terminal that were asked for.
RequestsApply ==
  [][\A w \in Writers : Finishes(w, EndM) /\ Supported(mode, ei.params) =>
       /\ ~crashed' /\ ei'.state = "none"
       /\ TcellStyle(mode, ei'.style) = AskedFor(TcellStyle(mode, ei.style), ei.params)]_vars

\* A sequence that turns out not to be one is written as text, with all its
\* runes in order and the rune that ended it (but that one gets lost when the
\* sequence is too long).
Within(s, t) ==
  FoldLeft(LAMBDA want, c : IF want # <<>> /\ Head(want) = c THEN Tail(want) ELSE want, s, t) = <<>>
NothingLost ==
  [][\A w \in Writers :
       PutRune(w) /\ held # <<>> /\ lines' # lines /\ Head(job[w].runes) # Newline =>
         LET n == Len(Last(lines))
             new == SubSeq(Last(lines'), n + 1, Len(Last(lines')))
         IN Within(IF TooLong(ei) THEN held ELSE Append(held, Head(job[w].runes)),
                   [i \in DOMAIN new |-> new[i].chr])]_vars

\* However a sequence goes on, it is text or done after this many runes: an
\* unfinished one does not swallow all the text after it.
HeldBounded == Len(held) <= 2 + 2 * (MaxParams + 1)

\* What was written before Clear does not show after it: text has the colours
\* of the view until a request is made, and no sequence goes on.
ClearForgets ==
  /\ (ei.state = "none") = (held = <<>>)
  /\ ~asked => \A i \in DOMAIN Text : Text[i].style = Style

\* Read returns the bytes of the text in order, each once, and io.EOF when all
\* are read, as long as the end of a slice is not inside a rune; text that is
\* added to a line it is past it does not see.
WholeRunesInOrder ==
  ~missed /\ ~split =>
    /\ IsPrefix(got, Encoded(Text))
    /\ reader.ry >= Len(lines) => got = Encoded(Text)
=============================================================================
