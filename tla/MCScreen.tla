------------------------------ MODULE MCScreen ------------------------------
(* An instance of Screen for TLC.  Two views that overlap, hang over the     *)
(* edges of the screen, lie flat or one beneath the other: one scrolls by    *)
(* itself, the other may be hidden or padded.  And, alone on a small screen, *)
(* a third that scrolls both ways and folds its text, or is padded and too   *)
(* narrow for a wide rune then.                                              *)
EXTENDS Screen, TLC

CONSTANTS list, form, page, narrow, wide, zero

Look(lines) == [visible |-> TRUE, frame |-> FALSE, title |-> 0, subtitle |-> 0, pad |-> 0,
                lines |-> lines, auto |-> FALSE, wrap |-> FALSE]
Framed(lines) == [Look(lines) EXCEPT !.frame = TRUE, !.title = 3, !.subtitle = 1, !.auto = TRUE]
Folded(lines) == [Look(lines) EXCEPT !.wrap = TRUE]

Word == <<narrow, narrow>>
PageText == <<Word, <<narrow>> >>

MCSizes == {<<4, 4>>, <<3, 3>>}

MCLooks(n) ==
  CASE n = list -> {Framed(<< <<>>, Word, <<>> >>)}
    [] n = form -> {Look(<<Word>>), [Look(<<Word>>) EXCEPT !.visible = FALSE],
                    [Look(<<Word>>) EXCEPT !.pad = 1]}
    [] n = page -> {Look(PageText), Folded(PageText), Folded(<< <<zero, wide, wide>>, <<narrow>> >>),
                    [Folded(PageText) EXCEPT !.pad = 1, !.auto = TRUE]}
MCRects(n) ==
  CASE n = list -> {<<0, 0, 9, 2>>, <<0, 3, 9, 3>>}
    [] n = form -> {<<0, 3, 9, 3>>, <<-1, -1, 3, 3>>}
    [] n = page -> {<<1, 0, 3, 3>>, <<-1, -1, 3, 3>>}
MCPositions(n) == IF n = page THEN {<<1, 1>>} ELSE {}

\* A view with two lines, the page, is alone with what is left of an earlier
\* page, which was not scrolled.
IsPage(v) == Len(v.lines) = 2
PageAlone ==
  (\E n \in DOMAIN view : IsPage(view[n])) =>
    /\ term = <<3, 3>> /\ \A n \in DOMAIN view : IsPage(view[n])
    /\ Gone \in DOMAIN view => view[Gone].ox = 0 /\ view[Gone].oy = 0
=============================================================================
