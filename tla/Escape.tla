------------------------------- MODULE Escape -------------------------------
(***************************************************************************)
(* The interpreter of escape sequences of a view (escape.go) and what      *)
(* becomes of a colour on its way to the terminal (attribute.go,           *)
(* getTcellStyle).  A run of digits is one rune, its number; a second run  *)
(* right after it stands for digits past the 255 a parameter may have.     *)
(* The parameters of a request are sequences of numbers, empty for "".     *)
(***************************************************************************)
EXTENDS Integers, Sequences, FiniteSets, FiniteSetsExt, SequencesExt

CONSTANTS
  ESC, Bracket, Semi, EndM,  \* the runes 0x1b [ ; m
  Numbers,                   \* runs of digits
  MaxParams                  \* 20 in the code

ASSUME EscapeAssumption ==
  /\ Numbers \subseteq Nat /\ 0 \in Numbers
  /\ Cardinality({ESC, Bracket, Semi, EndM}) = 4
  /\ {ESC, Bracket, Semi, EndM} \cap Numbers = {}
  /\ MaxParams \in Nat \ {0}

\* OutputSimulator is left out: it takes every request, like the modes without
\* an output function, and shows no colour.
Modes == {"normal", "256", "true", "216", "grayscale"}

\* An Attribute: <<>> is ColorDefault, <<n>> the palette, <<r, g, b>> true
\* colour; effects are known by the numbers of their requests.
Default  == <<>>
Plain    == [color |-> Default, fx |-> {}]
Style    == [fg |-> Plain, bg |-> Default]
Effects  == {1, 2, 3, 4, 5, 7, 9}
FontEffect(p) == {p} \cap Effects

-----------------------------------------------------------------------------
(* The requests: output functions of the modes, from a style to a style, to  *)
(* "error", or to "panic" where an index is out of range.                    *)

Known(params) == \A i \in DOMAIN params : params[i] # <<>>

\* outputNormal, one parameter.
NormalParam(s, p) ==
  CASE p \in 30 .. 37 -> [s EXCEPT !.fg = [color |-> <<p - 30>>, fx |-> {}]]
    [] p = 39         -> [s EXCEPT !.fg = Plain]
    [] p \in 40 .. 47 -> [s EXCEPT !.bg = <<p - 40>>]
    [] p = 49         -> [s EXCEPT !.bg = Default]
    [] p = 0          -> Style
    [] OTHER          -> [s EXCEPT !.fg.fx = @ \cup FontEffect(p)]

\* outputNormal.  A bad parameter after good ones is an error like any other:
\* the caller resets the colours.
OutputNormal(s, params) ==
  IF Known(params) THEN [to |-> FoldLeft(LAMBDA t, p : NormalParam(t, p[1]), s, params)]
  ELSE [error |-> "parse"]

\* Mutant: every 38 and 48 begins a group.
SplitFgBgEvery(params, num) ==
  LET starts == {1} \cup {i \in DOMAIN params : params[i] \in {<<38>>, <<48>>}}
      next(i) == Min({j \in starts : j > i} \cup {Len(params) + 1})
  IN [k \in 1 .. Cardinality(starts) |->
        LET i == SetToSortSeq(starts, <)[k] IN SubSeq(params, i, next(i) - 1)]

\* splitFgBg: a 38 or 48 begins a group when the one before has exactly the
\* num parameters it needs.
SplitFgBg(params, num) ==
  FoldLeft(LAMBDA out, p :
             IF out = <<>> \/ (Len(Last(out)) = num /\ p \in {<<38>>, <<48>>})
             THEN Append(out, <<p>>)
             ELSE Front(out) \o <<Append(Last(out), p)>>,
           <<>>, params)

\* One group of output256 (num = 3) or outputTrue (num = 5).
Group(r, g, num) ==
  IF "to" \notin DOMAIN r THEN r
  ELSE IF Len(g) < num
       THEN [error |-> IF Known(SubSeq(g, 3, Len(g))) THEN "panic" ELSE "parse"]
  ELSE IF ~Known(SubSeq(g, 3, num)) THEN [error |-> "parse"]
  ELSE LET color == [i \in 1 .. num - 2 |-> IF num = 5 THEN g[i + 2][1] % 256 ELSE g[i + 2][1]]
           rest  == SubSeq(g, num + 1, Len(g))
       IN CASE g[1] = <<38>> /\ Known(rest) ->
                 [to |-> [r.to EXCEPT !.fg = [color |-> color,
                            fx |-> UNION {FontEffect(rest[i][1]) : i \in DOMAIN rest}]]]
            [] g[1] = <<48>> -> [to |-> [r.to EXCEPT !.bg = color]]
            [] OTHER -> [error |-> "parse"]
Groups(s, params, num) ==
  FoldLeft(LAMBDA r, g : Group(r, g, num), [to |-> s], SplitFgBg(params, num))

Output256(s, params) ==
  IF Len(params) < 3 THEN OutputNormal(s, params)
  ELSE IF params[2] = <<>> THEN [error |-> "parse"]
  ELSE IF params[2] # <<5>> THEN OutputNormal(s, params)
  ELSE Groups(s, params, 3)

OutputTrue(s, params) ==
  IF Len(params) < 5 THEN Output256(s, params)
  ELSE IF params[2] = <<>> THEN [error |-> "parse"]
  ELSE IF params[2] # <<2>> THEN Output256(s, params)
  ELSE Groups(s, params, 5)

\* The modes without an output function take every request and do nothing.
Output(mode, s, params) ==
  CASE mode = "normal" -> OutputNormal(s, params)
    [] mode = "256"    -> Output256(s, params)
    [] mode = "true"   -> OutputTrue(s, params)
    [] OTHER           -> [to |-> s]

-----------------------------------------------------------------------------
(* escapeInterpreter: the state, the last rune and the parameters so far.    *)

Start == [state |-> "none", curch |-> 0, params |-> <<>>, style |-> Style]

\* Mutant: parameters are not counted.
LongNumber(ei) == ei.params # <<>> /\ Len(Last(ei.params)) > 1

TooLong(ei) ==
  \/ Len(ei.params) > MaxParams
  \/ ei.params # <<>> /\ Len(Last(ei.params)) > 1

\* What is written back when a sequence turns out not to be one.
Runes(ei) ==
  CASE ei.state = "none"   -> <<ESC>>
    [] ei.state = "escape" -> <<ESC, ei.curch>>
    [] ei.state = "csi"    -> <<ESC, Bracket, ei.curch>>
    [] ei.state = "params" ->
         <<ESC, Bracket>> \o FlattenSeq([i \in DOMAIN ei.params |-> Append(ei.params[i], Semi)])
           \o <<ei.curch>>

\* The rune in a sequence whose parameters have begun.
InParams(mode, ei, ch) ==
  LET n == Len(ei.params)
      r == Output(mode, ei.style, ei.params)
  IN CASE ch \in Numbers ->
            [is |-> "escape", ei |-> [ei EXCEPT !.params = [@ EXCEPT ![n] = Append(ei.params[n], ch)]]]
       [] ch = Semi -> [is |-> "escape", ei |-> [ei EXCEPT !.params = Append(@, <<>>)]]
       [] ch = EndM /\ "to" \in DOMAIN r ->
            [is |-> "request",
             ei |-> [state |-> "none", curch |-> ei.curch, params |-> <<>>, style |-> r.to]]
       [] ch = EndM /\ "to" \notin DOMAIN r ->
            [is |-> IF r.error = "panic" THEN "panic" ELSE "parse", ei |-> ei]
       [] OTHER -> [is |-> "parse", ei |-> ei]

\* parseOne: what the rune is, and the interpreter after it.  The last rune
\* is only looked at while a sequence is open.
ParseOne(mode, before, ch) ==
  LET ei == [before EXCEPT !.curch = ch]
      opened == [state |-> "params", curch |-> ch, style |-> before.style,
                 params |-> <<IF ch = EndM THEN <<0>> ELSE <<>> >>]
  IN IF TooLong(before) THEN [is |-> "overlong", ei |-> before]
     ELSE CASE ei.state = "none" /\ ch # ESC -> [is |-> "text", ei |-> before]
            [] ei.state = "none" /\ ch = ESC ->
                 [is |-> "escape", ei |-> [ei EXCEPT !.state = "escape"]]
            [] ei.state = "escape" /\ ch = Bracket ->
                 [is |-> "escape", ei |-> [ei EXCEPT !.state = "csi"]]
            [] ei.state = "csi" /\ ch \in Numbers \cup {EndM} -> InParams(mode, opened, ch)
            [] ei.state = "params" -> InParams(mode, ei, ch)
            [] OTHER -> [is |-> "parse", ei |-> ei]

-----------------------------------------------------------------------------
(* What a style looks like on the terminal.                                  *)

Grayscale == <<16>> \o [i \in 1 .. 24 |-> 231 + i] \o <<231>>

\* getTcellColor of the colours the interpreter makes.  In the modes of few
\* colours a true colour gives the low bits of its blue.
Shown(mode, color) ==
  LET n == color[Len(color)]
  IN CASE color = Default \/ mode = "true" -> color
       [] color # Default /\ mode = "normal" -> <<n % 16>>
       [] color # Default /\ mode = "256" -> <<n % 256>>
       [] color # Default /\ mode = "216" -> IF n % 256 > 215 THEN Default ELSE <<16 + (n % 256)>>
       [] color # Default /\ mode = "grayscale" ->
            IF n % 32 > 26 THEN Default ELSE <<Grayscale[1 + (n % 32)]>>

\* getTcellStyle.
TcellStyle(mode, s) ==
  [fg |-> Shown(mode, s.fg.color), bg |-> Shown(mode, s.bg), fx |-> s.fg.fx]
=============================================================================
