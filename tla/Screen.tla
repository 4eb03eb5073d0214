------------------------------- MODULE Screen -------------------------------
(***************************************************************************)
(* The views on the screen: what the application does to them, flush,      *)
(* which draws them one over the other with frames, titles, text and the   *)
(* cursor, and a mouse event, which goes to the view at that place and     *)
(* sets its cursor.  A cell of the screen holds what it shows of which     *)
(* view: of its text the place of the rune that was set there, which a     *)
(* wide rune leaves in the first of its two columns.  SupportOverlaps is   *)
(* off.                                                                    *)
(***************************************************************************)
EXTENDS TextLines, Functions

CONSTANTS
  Names,
  NoView,     \* nil
  Gone,       \* stands for the name of the focused view once it is deleted
  Looks(_),   \* what the application may set on the view of a name, its text too
  Rects(_),   \* where it puts it: x0 y0 x1 y1
  Positions(_), \* where it puts its cursor and its origin: x y
  Sizes,      \* of the terminal: x y
  CursorOn,   \* g.Cursor
  Hidden, Stale

ASSUME ScreenAssumption ==
  /\ NoView \notin Names /\ Gone \notin Names /\ Gone # NoView
  /\ \A s \in Sizes : s[1] \in Nat \ {0} /\ s[2] \in Nat \ {0}
  /\ \A n \in Names :
       /\ \A r \in Rects(n) : r[1] \in Int /\ r[2] \in Int /\ r[3] \in Int /\ r[4] \in Int
       /\ \A p \in Positions(n) : p[1] \in Nat /\ p[2] \in Nat
       /\ Looks(n) \subseteq [visible : BOOLEAN, frame : BOOLEAN, title : Nat, subtitle : Nat,
                              pad : Nat, lines : Text, auto : BOOLEAN, wrap : BOOLEAN]

VARIABLES
  term,         \* screen.Size()
  views,        \* g.views, from bottom to top
  view,         \* the views that are listed, and the focused one
  currentView,
  cursor,       \* of the terminal
  shown,        \* what the screen shows, Stale once the views are no more as shown
  failed        \* flush returned an error, panicked or does not return

vars == <<term, views, view, currentView, cursor, shown, failed>>

Blank(n) == [of |-> n, part |-> "blank"]
Fields == {"x0", "y0", "x1", "y1", "cx", "cy", "ox", "oy", "visible",
           "frame", "title", "subtitle", "pad", "lines", "auto", "wrap"}

Init ==
  /\ term \in Sizes /\ views = <<>> /\ view = [n \in {} |-> {}] /\ currentView = NoView
  /\ cursor = Hidden /\ shown = Stale /\ failed = FALSE

-----------------------------------------------------------------------------
(* What the application does between two flushes, Layout included.          *)

Listed(n) == n \in Range(views)
Without(n) ==
  LET k == CHOOSE i \in DOMAIN views : views[i] = n
  IN SubSeq(views, 1, k - 1) \o SubSeq(views, k + 1, Len(views))
Place(v, r) == [v EXCEPT !.x0 = r[1], !.y0 = r[2], !.x1 = r[3], !.y1 = r[4]]
ViewWith(look, r, cursorAt, origin) ==
  [x0 |-> r[1], y0 |-> r[2], x1 |-> r[3], y1 |-> r[4],
   cx |-> cursorAt[1], cy |-> cursorAt[2], ox |-> origin[1], oy |-> origin[2],
   visible |-> look.visible, frame |-> look.frame, title |-> look.title,
   subtitle |-> look.subtitle, pad |-> look.pad, lines |-> look.lines,
   auto |-> look.auto, wrap |-> look.wrap]

Changed == ~failed /\ shown' = Stale /\ UNCHANGED <<term, cursor, failed>>

\* SetView, and what the application sets on a new view.
SetView(n, r) ==
  /\ r[1] < r[3]
  /\ \/ Listed(n) /\ view' = [view EXCEPT ![n] = Place(view[n], r)] /\ UNCHANGED views
     \/ /\ ~Listed(n) /\ views' = Append(views, n)
        /\ \E look \in Looks(n) :
             view' = [m \in DOMAIN view \cup {n} |->
                        IF m = n THEN ViewWith(look, r, <<0, 0>>, <<0, 0>>) ELSE view[m]]
  /\ UNCHANGED currentView /\ Changed

\* SetViewBeneath.
SetViewBeneath(n, above, height) ==
  /\ Listed(above)
  /\ LET a == view[above]
         r == <<a.x0, a.y1 + 1, a.x1, a.y1 + height>>
     IN r \in Rects(n) /\ SetView(n, r)

SetViewOnTop(n) ==
  Listed(n) /\ views' = Append(Without(n), n) /\ UNCHANGED <<view, currentView>> /\ Changed
SetViewOnBottom(n) ==
  Listed(n) /\ views' = <<n>> \o Without(n) /\ UNCHANGED <<view, currentView>> /\ Changed

\* The focus stays on the deleted view, which no name leads to any more.
DeleteView(n) ==
  /\ Listed(n) /\ views' = Without(n) /\ Changed
  /\ currentView' = IF currentView = n THEN Gone ELSE currentView
  /\ view' = [m \in Range(views') \cup ({currentView'} \ {NoView}) |->
                 IF m = Gone /\ currentView = n THEN view[n] ELSE view[m]]

SetCurrentView(n) ==
  /\ Listed(n) /\ currentView' = n /\ UNCHANGED views /\ Changed
  /\ view' = Restrict(view, Range(views) \cup {n})

\* SetManager, as far as this state goes.
SetManager ==
  views' = <<>> /\ view' = [n \in {} |-> {}] /\ currentView' = NoView /\ Changed

\* The application sets the text and the public fields of a view: Visible,
\* Frame, Title, Subtitle, the padding, Autoscroll, Wrap.
SetLook(n, look) ==
  /\ Listed(n)
  /\ LET v == view[n]
     IN view' = [view EXCEPT ![n] = ViewWith(look, <<v.x0, v.y0, v.x1, v.y1>>,
                                             <<v.cx, v.cy>>, <<v.ox, v.oy>>)]
  /\ UNCHANGED <<views, currentView>> /\ Changed

SetOrigin(n, o) ==
  /\ Listed(n) /\ view' = [view EXCEPT ![n].ox = o[1], ![n].oy = o[2]]
  /\ UNCHANGED <<views, currentView>> /\ Changed

\* SetCursorUnrestricted; SetCursor is part of Mouse.
SetCursorUnrestricted(n, c) ==
  /\ Listed(n) /\ view' = [view EXCEPT ![n].cx = c[1], ![n].cy = c[2]]
  /\ UNCHANGED <<views, currentView>> /\ Changed

\* The terminal changes its size; its event does nothing but wake MainLoop.
Resize(s) ==
  /\ ~failed /\ s # term /\ term' = s /\ shown' = Stale
  /\ UNCHANGED <<views, view, currentView, cursor, failed>>

-----------------------------------------------------------------------------
(* Drawing.  A picture is a function from the points of the screen, and has   *)
(* no point at all once a call of SetRune failed.                            *)

\* Gui.SetRune at some points.
SetRunes(picture, points, cell) ==
  IF points \subseteq DOMAIN picture
  THEN [p \in DOMAIN picture |-> IF p \in points THEN cell ELSE picture[p]]
  ELSE [p \in {} |-> cell]

\* Size.
Width(v)  == v.x1 - v.x0 - 1 - 2 * v.pad
Height(v) == v.y1 - v.y0 - 1 - 2 * v.pad

On(k, max) == k > -1 /\ k < max
OnBoth(p, max) == On(p[1], max[1]) /\ On(p[2], max[2])

\* Mutant: the right edge is not checked.
EdgesUnchecked(v, max) ==
  {p \in (v.x0 + 1 .. v.x1 - 1) \X {v.y0, v.y1} : OnBoth(p, max)}
  \cup {p \in {v.x0, v.x1} \X (v.y0 + 1 .. v.y1 - 1) : p[1] > -1 /\ On(p[2], max[2])}

\* drawFrameEdges.
Edges(v, max) ==
  {p \in (v.x0 + 1 .. v.x1 - 1) \X {v.y0, v.y1} : OnBoth(p, max)}
  \cup {p \in {v.x0, v.x1} \X (v.y0 + 1 .. v.y1 - 1) : OnBoth(p, max)}

\* drawFrameCorners.  A flat view has both its ends drawn or none.
Corners(v, max) ==
  IF v.y0 = v.y1
  THEN IF On(v.x0, max[1]) /\ On(v.x1, max[1]) /\ On(v.y0, max[2])
       THEN {v.x0, v.x1} \X {v.y0} ELSE {}
  ELSE {p \in {v.x0, v.x1} \X {v.y0, v.y1} : OnBoth(p, max)}

\* drawTitle, one byte per rune.
Title(v, max) ==
  IF ~On(v.y0, max[2]) THEN {}
  ELSE {x \in v.x0 + 2 .. v.x0 + v.title + 1 : x >= 0 /\ x <= v.x1 - 2 /\ x < max[1]} \X {v.y0}

\* drawSubtitle, which does not look at the width of the screen.
Subtitle(v, max) ==
  LET start == v.x1 - 5 - v.subtitle
  IN IF ~On(v.y0, max[2]) \/ start < v.x0 THEN {}
     ELSE {x \in start .. start + v.subtitle - 1 : x < v.x1} \X {v.y0}

\* The part of flush before draw.
DrawFrame(picture, n, v, max) ==
  LET part(p) == [of |-> n, part |-> p]
      edges == SetRunes(picture, Edges(v, max), part("edge"))
      corners == SetRunes(edges, Corners(v, max), part("corner"))
      title == SetRunes(corners, Title(v, max), part("title"))
  IN IF v.frame THEN SetRunes(title, Subtitle(v, max), part("subtitle")) ELSE picture

\* takeLine: how many cells the row takes that begins behind cell s.
Taken(line, s, width) == IF width < 0 THEN 0 ELSE RowLen(Drop(line, s), width)

\* The cells of a line where its rows begin: the first and, behind each row,
\* the next, unless the line ends there.
RowBegins(line, width) ==
  LET begins[s \in 0 .. Len(line)] ==
        s = 0 \/ \E t \in 0 .. s - 1 : t + Taken(line, t, width) = s /\ begins[t]
  IN {0} \cup {s \in 1 .. Len(line) - 1 : begins[s]}

\* A row that takes nothing although the line goes on is taken for ever.
Endless(line, width, last) ==
  \E s \in RowBegins(line, width) : s <= last /\ s < Len(line) /\ Taken(line, s, width) = 0

\* viewLines: each row by its line and its first cell.
Begins(v, y) == IF v.wrap THEN RowBegins(Line(v.lines, y), Width(v)) ELSE {0}
ViewRows(v)  == UNION {{y} \X Begins(v, y) : y \in 0 .. Len(v.lines) - 1}
BeginOf(v, x, y) == Max({s \in Begins(v, y) : s <= x})
RowOf(v, x, y) ==
  Cardinality({r \in ViewRows(v) : r[1] < y \/ (r[1] = y /\ r[2] <= x)}) - 1

\* What View.draw does to the origin: Wrap resets it to the left, Autoscroll
\* moves it when the text is too long.
Leftmost(v) == IF v.wrap THEN [v EXCEPT !.ox = 0] ELSE v
Scrolled(v) ==
  LET rows == Cardinality(ViewRows(v))
  IN IF ~v.visible \/ (v.wrap /\ Width(v) = 0) THEN v
     ELSE IF v.auto /\ rows > Height(v)
     THEN [Leftmost(v) EXCEPT !.oy = rows - Height(v) - 1] ELSE Leftmost(v)

\* Mutant: the origin counts for nothing in the choice of the row.
PutAtTop(v, x, y) ==
  [x |-> LineWidth(SubSeq(Line(v.lines, y), BeginOf(v, x, y) + v.ox + 1, x)),
   y |-> RowOf(v, x, y)]

\* View.draw: the column and the row of rune x of line y, from the ox-th
\* rune of its row on.
PutAt(v, x, y) ==
  [x |-> LineWidth(SubSeq(Line(v.lines, y), BeginOf(v, x, y) + v.ox + 1, x)),
   y |-> RowOf(v, x, y) - v.oy]

\* The column and the row of each rune that is drawn.
Put(v) ==
  [r \in {r \in UNION {(0 .. Len(Line(v.lines, l)) - 1) \X {l} : l \in 0 .. Len(v.lines) - 1} :
            BeginOf(v, r[1], r[2]) + v.ox <= r[1]} |-> PutAt(v, r[1], r[2])]

\* The rune that shows at a point, if one does: one without a column is
\* covered by the next.
TextAt(put, v, p) ==
  LET at == [x |-> p[1] - v.x0 - 1 - v.pad, y |-> p[2] - v.y0 - 1 - v.pad]
      runes == {r \in DOMAIN put : put[r] = at}
  IN IF at.x \in 0 .. Width(v) - 1 /\ at.y \in 0 .. Height(v) - 1 /\ runes # {}
     THEN CHOOSE r \in runes : \A q \in runes : q[1] <= r[1]
     ELSE <<>>

\* clearRunes, which does not count the padding to the left and above, and
\* View.draw.  Neither fails, and what is off the screen is dropped.
DrawText(picture, n, v) ==
  LET put == Put(v)
      cleared(p) == p[1] \in v.x0 + 1 .. v.x0 + Width(v) /\ p[2] \in v.y0 + 1 .. v.y0 + Height(v)
  IN [p \in DOMAIN picture |->
        LET text == TextAt(put, v, p)
        IN IF v.visible /\ text # <<>> THEN [of |-> n, part |-> "text", at |-> text]
           ELSE IF cleared(p) THEN Blank(n) ELSE picture[p]]

\* linesPosOnScreen of the cursor, which goes on behind the end of a line and
\* of the text.
Behind(v) ==
  IF v.cy < Len(v.lines)
  THEN LET line == Line(v.lines, v.cy)
           end  == Min({v.cx, Len(line)})
       IN [x |-> LineWidth(SubSeq(line, BeginOf(v, v.cx, v.cy) + 1, end)) + v.cx - end,
           y |-> RowOf(v, v.cx, v.cy)]
  ELSE [x |-> v.cx, y |-> Cardinality(ViewRows(v)) + v.cy - Len(v.lines)]
CursorAt(v) ==
  IF ~v.wrap THEN [x |-> v.cx, y |-> v.cy]
  ELSE [x |-> Behind(v).x % Width(v), y |-> Behind(v).y + Behind(v).x \div Width(v)]

\* Where no column is, no place is on the screen.
OnScreen(v) ==
  /\ Width(v) > 0
  /\ CursorAt(v).y >= v.oy /\ CursorAt(v).y < v.oy + Height(v)
  /\ CursorAt(v).x >= v.ox /\ CursorAt(v).x < v.ox + Width(v)
Shown(v) == <<v.x0 + 1 + CursorAt(v).x - v.ox, v.y0 + 1 + CursorAt(v).y - v.oy>>

\* Mutant: a cursor that scrolled off the screen is left where it was.
CursorLeft(now, objects) ==
  IF ~CursorOn THEN Hidden
  ELSE IF currentView = NoView \/ ~OnScreen(objects[currentView]) THEN now
  ELSE Shown(objects[currentView])

\* The cursor part of draw; with no focused view it stays as it is.
Cursor(now, objects) ==
  IF ~CursorOn THEN Hidden
  ELSE IF currentView = NoView THEN now
  ELSE IF OnScreen(objects[currentView]) THEN Shown(objects[currentView]) ELSE Hidden

\* Neither ends: the division by a width of 0 in linesPosOnScreen panics, and
\* takeLine goes on for ever.
CursorStuck(v) ==
  v.wrap /\ \/ Width(v) = 0
            \/ \E y \in 0 .. Min({v.cy, Len(v.lines) - 1}) :
                 LET line == Line(v.lines, y)
                 IN Endless(line, Width(v), IF y = v.cy THEN v.cx ELSE Len(line))
TextStuck(v) ==
  v.wrap /\ Width(v) # 0 /\ \E line \in Range(v.lines) : Endless(line, Width(v), Len(line))
Stuck(objects, n) ==
  \/ CursorOn /\ currentView # NoView /\ CursorStuck(objects[currentView])
  \/ TextStuck(objects[n])

\* One round of the loop over the views in flush.
Drawn(n) == view[n].visible /\ view[n].y1 >= view[n].y0
DrawOne(at, n) ==
  LET framed == DrawFrame(at.picture, n, at.view[n], term)
      v == Scrolled(at.view[n])
  IN IF ~Drawn(n) \/ DOMAIN at.picture = {} THEN at
     ELSE IF DOMAIN framed = {} \/ Stuck(at.view, n)
     THEN [picture |-> [p \in {} |-> Blank(n)], cursor |-> at.cursor, view |-> at.view]
     ELSE [picture |-> DrawText(framed, n, v),
           cursor |-> Cursor(at.cursor, at.view),
           view |-> [at.view EXCEPT ![n] = v]]

\* What has become of picture, cursor and views after k rounds.
Empty == [p \in (0 .. term[1] - 1) \X (0 .. term[2] - 1) |-> Blank(NoView)]
Rounds ==
  LET f[k \in 0 .. Len(views)] ==
        IF k = 0 THEN [picture |-> Empty, cursor |-> cursor, view |-> view]
        ELSE DrawOne(f[k - 1], views[k])
  IN f

\* flush.  The views that were drawn before an error have their origins moved.
Flush ==
  LET after == Rounds[Len(views)]
  IN /\ ~failed
     /\ view' = after.view /\ cursor' = after.cursor
     /\ failed' = (DOMAIN after.picture = {})
     /\ shown' = IF failed' THEN Stale ELSE after.picture
     /\ UNCHANGED <<term, views, currentView>>

-----------------------------------------------------------------------------
(* Input.                                                                   *)

Inside(v, p) == p[1] > v.x0 /\ p[1] < v.x1 /\ p[2] > v.y0 /\ p[2] < v.y1

\* ViewByPosition: a view that is not visible counts.
ViewByPosition(p) ==
  LET is == {i \in DOMAIN views : Inside(view[views[i]], p)}
  IN IF is = {} THEN NoView ELSE views[Max(is)]

\* SetCursor: the nearest place in the text.
WithCursor(v, x, y) ==
  IF v.lines = <<>> THEN [v EXCEPT !.cx = 0, !.cy = 0]
  ELSE LET line == Min({y, Len(v.lines) - 1})
       IN [v EXCEPT !.cx = Min({x, Len(Line(v.lines, line))}), !.cy = line]

\* Mutant: off by one column.
AfterHitLeft(n, p) ==
  LET v == view[n] IN WithCursor(v, p[1] - v.x0 - 2 + v.ox, p[2] - v.y0 - 1 + v.oy)

\* The view after a hit.
AfterHit(n, p) ==
  LET v == view[n] IN WithCursor(v, p[1] - v.x0 - 1 + v.ox, p[2] - v.y0 - 1 + v.oy)

\* onKey for any mouse event, motion included, up to the keybindings, which
\* Dispatch has.
Mouse(p) ==
  /\ ~failed /\ ViewByPosition(p) # NoView
  /\ view' = [view EXCEPT ![ViewByPosition(p)] = AfterHit(ViewByPosition(p), p)]
  /\ UNCHANGED <<term, views, currentView, cursor, shown, failed>>

Next ==
  \/ \E n \in Names :
       \/ \E r \in Rects(n) : SetView(n, r)
       \/ \E m \in Names, h \in 1 .. 3 : SetViewBeneath(n, m, h)
       \/ SetViewOnTop(n) \/ SetViewOnBottom(n) \/ DeleteView(n) \/ SetCurrentView(n)
       \/ \E look \in Looks(n) : SetLook(n, look)
       \/ \E p \in Positions(n) : SetOrigin(n, p) \/ SetCursorUnrestricted(n, p)
  \/ SetManager
  \/ \E s \in Sizes : Resize(s)
  \/ Flush
  \/ \E x \in 0 .. term[1] - 1, y \in 0 .. term[2] - 1 : Mouse(<<x, y>>)

Spec == Init /\ [][Next]_vars

-----------------------------------------------------------------------------
(* Properties.                                                             *)

\* The types of the variables: a view that has the focus is listed or gone.
TypeOK ==
  /\ term \in Sizes /\ views \in Seq(Names)
  /\ DOMAIN view = Range(views) \cup ({currentView} \ {NoView})
  /\ \A n \in DOMAIN view :
       /\ DOMAIN view[n] = Fields /\ view[n].x0 < view[n].x1
       /\ view[n].cx \in Nat /\ view[n].cy \in Nat /\ view[n].ox \in Nat /\ view[n].oy \in Nat
  /\ currentView \in Range(views) \cup {NoView, Gone} /\ cursor \in {Hidden} \cup (Int \X Int)
  /\ shown # Stale => DOMAIN shown = (0 .. term[1] - 1) \X (0 .. term[2] - 1)

\* A mouse event at a place where the screen shows the inside of a view goes
\* to that view, as long as no view there is hidden or padded.  If it shows
\* text, the cursor is put on that very rune, however the view is scrolled, as
\* long as each rune of it takes one column and no line is folded: SetCursor
\* takes the column for the number of the rune and the row for the line.
SeesWhatIsHit(p) ==
  \A n \in Range(views) : Inside(view[n], p) => view[n].visible /\ view[n].pad = 0
Straight(v) ==
  \A line \in Range(v.lines) :
    /\ \A i \in DOMAIN line : line[i] \notin Wide \cup Zero
    /\ v.wrap => Len(line) <= Width(v)
ClickReachesSeen ==
  shown # Stale =>
    \A p \in DOMAIN shown :
      LET seen == shown[p]
      IN seen.of # NoView /\ seen.part \in {"text", "blank"} /\ SeesWhatIsHit(p) =>
           /\ ViewByPosition(p) = seen.of
           /\ seen.part = "text" /\ Straight(view[seen.of]) =>
                <<AfterHit(seen.of, p).cx, AfterHit(seen.of, p).cy>> = seen.at

\* However views lie on the edges of the screen or off it, whatever their
\* text and the cursor, flush fails only if a subtitle does not fit on the
\* screen, or a wrapped view has no column, or one column for a wide rune.
SubtitleOff(v) ==
  LET start == v.x1 - 5 - v.subtitle
  IN /\ v.visible /\ v.frame /\ v.subtitle > 0 /\ On(v.y0, term[2])
     /\ start < 0 \/ start + v.subtitle > term[1]
TooNarrow(v) ==
  v.wrap /\ \/ Width(v) < 1
            \/ Width(v) = 1 /\ \E line \in Range(v.lines) : Range(line) \cap Wide # {}
FlushFailsWhenNarrow ==
  failed => \/ \E n \in Range(views) : SubtitleOff(view[n])
            \/ \E n \in DOMAIN view : TooNarrow(view[n])

\* After a flush that drew a view, the cursor of the terminal is in the
\* focused view, or hidden.
CursorInFocus ==
  shown # Stale /\ currentView # NoView /\ (\E n \in Range(views) : Drawn(n)) =>
    cursor = Hidden \/ Inside(view[currentView], cursor)
=============================================================================
