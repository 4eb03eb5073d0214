# A TLA+ model of gocui

gocui is a library for text user interfaces: an application gives it managers
(Layout functions), keybindings and views, and calls `MainLoop`. These modules
model the parts of it whose behaviour depends on order: goroutines and
channels, the text of a view and its cursor, the stream that is written to it
with its escape sequences, what is drawn where, and the state that decides who
gets an event. File names below are those of the repository;
`file.go:12` is a line of it.

## Inventory

| part | source | state | operations |
|---|---|---|---|
| main loop and goroutines | `gui.go` 128-165, 419-633; `loader.go` | `g.gEvents`, `g.userEvents` (buffered, 20), `g.stop`, `g.testNotify` (unbuffered), `g.testCounter`, the managers, one event in the poller's hand, the screen's queue | `MainLoop`, `consumeevents`, `handleEvent`, `flush`, the poller, `Update`, `UpdateAsync`, `SetManager`, `loaderTick`, `Close` |
| testing harness | `testing.go` | what each test goroutine waits for | `StartGui`, `SendKey`, `SendKeySync`, `SendStringAsKeys`, `WaitSync`, the stop function |
| text editing | `edit.go`, `view.go` 238-295, 816-831 | `v.lines`, `v.cx`, `v.cy`, `v.ox`, `v.oy`, `v.Overwrite`, `v.Wrap` | the `Edit...` functions, `MoveCursor`, `SetCursor`, `SetOrigin`, `SetLine` |
| folding of lines | `view.go` 515-713, 858-912 | none: computed from `v.lines` and the width | `takeLine`, `viewLines`, `linesPosOnScreen`, `lineWidth` |
| views, focus, bindings | `gui.go` 168-417, 876-961; `keybinding.go` | `g.views`, `g.currentView`, `g.keybindings`, `g.blacklist`, name and flags of each view | `SetView`, `SetViewOnTop/Bottom`, `DeleteView`, `SetCurrentView`, `SetKeybinding` ..., `onKey`, `execKeybindings`, `ViewByPosition` |
| write buffer, reader | `view.go` 297-526, 635-646, 816-856; `edit.go` 231-326 | `v.wx`, `v.wy`, `v.lines` and the arrays behind it, `v.rx`, `v.ry`, `v.readBuffer`, `v.writeMutex` | `Write`, `WriteRunes`, `Read`, `Clear`, `Rewind`, `SetWritePos`, `SetLine`, `SetHighlight` |
| escapes, colours | `escape.go`, `attribute.go`, `tcell_driver.go` 54-95 | state, parameters and colours of the interpreter | `parseOne`, `output...`, `splitFgBg`, `runes`, `getTcellStyle` |
| screen events | `tcell_driver.go` 130-236 | `lastMouseKey`, `lastMouseMod` | `pollEvent` |
| drawing | `gui.go` 568-874, `view.go` 552-662, 715-723 | the cells of the screen, its cursor, `g.maxX`, `g.maxY`, place and looks of each view | `flush`, frames, titles, `View.draw`, `clearRunes`; `onKey` for the mouse |
| suspended screen | `tcell_driver.go` 26-33 | the global `screen` | `Suspend`, `Resume` |
| key names | `keybinding.go` 20-92 | none | `Parse`, `MustParse` |
| terminal size | `gui_others.go`, `gui_windows.go` | none | one system call |

How they meet. The *screen* (tcell) keeps a small queue; the *poller* goroutine
takes one event at a time from it and sends it on `g.gEvents`. The *main
goroutine* receives from `g.gEvents`, `g.userEvents` and `g.stop`, calls `onKey`
(*views, focus, bindings*), which calls an application's handler or the
*editor* of the focused view, and redraws in `flush`, which first calls every
manager's `Layout`. All of these are callbacks on the main goroutine, and each
may call back: `Update` starts a goroutine, `UpdateAsync` sends from where it
is, `SetManager` replaces the state of the dispatch and starts a goroutine that
sends a resize event. The *loader* is one more sender on `g.userEvents`. The
*harness* puts keys and time events into the screen's queue and waits for the
main loop to answer on `g.testNotify`. An application writes to a view from any
goroutine (`Write`, under the view's mutex); every rune passes the view's *escape
interpreter*, which turns it into cells, and the *write buffer* puts these into
the slices that the *editor* changes as well. The flush *draws* the slices.

What is hard: events held in three places between terminal and handler; a stop
token with two receivers; a goroutine that sends to itself; a wake-up
(`SetManager`) that may not be consumed early; a batch of events per redraw; a
test barrier that counts anonymous notifications; a cursor that crosses lines,
folded lines and wide runes; loops that end only when an edit moves the cursor;
bindings, blacklist, focus and editors that compete for one key; slices that
share arrays and grow in place; sequences cut in two between writes; a rune cut
in two between reads; frames at the edge of the screen; buttons that go down and
up together. `PROJECT.json`
lists these hazards at their lines, with the properties that cover each.

## Modules

| module | stands for | extends / uses |
|---|---|---|
| `InputService` | abstract: what the loop promises about keys | |
| `EventLoop` | main loop, poller, goroutines, channels | refines `InputService` |
| `TestingLoop` | the harness around it | EXTENDS `EventLoop` |
| `TextField` | abstract: what an editable view promises | |
| `TextLines` | operators on lines; folding | |
| `Editor` | an edited view | EXTENDS `TextLines`, refines `TextField` |
| `Dispatch` | views, focus, bindings, blacklist, `onKey` | |
| `TextBuffer` | abstract: the text of a view as a value, and what each call makes of it | EXTENDS `TextLines` |
| `ViewBuffer` | the text as slices over shared arrays | EXTENDS `TextLines`, refines `TextBuffer` |
| `Escape` | the interpreter, colours: pure operators | |
| `ViewStream` | writers, `Clear` and `Read` of one view | EXTENDS `Escape` |
| `Input` | abstract: what the program is told of keyboard and mouse | |
| `ScreenEvents` | `pollEvent` | refines `Input` |
| `Screen` | views on the screen, `flush`, mouse events | EXTENDS `TextLines` |
| `MCEventLoop` and the other `MC...` | model values and definitions for TLC | |
| `SequenceFacts` | lemmas about sequences and numbers for the proofs | EXTENDS TLAPS and its theorem modules |
| `EventLoopProofs` | theorems about the main loop, the way of a key and the harness | EXTENDS `TestingLoop`, `SequenceFacts` |
| `DispatchProofs` | theorems about views and bindings | EXTENDS `Dispatch`, `SequenceFacts` |
| `EditorProofs` | theorems about the edited view; it implements `TextField` | EXTENDS `Editor`, `SequenceFacts` |
| `ScreenEventsProofs` | `pollEvent` implements `Input` | EXTENDS `ScreenEvents`, `SequenceFacts` |
| `ScreenProofs` | theorems about what is drawn and what is hit | EXTENDS `Screen`, `SequenceFacts` |
| `ViewStreamProofs` | theorems about writers and readers of a view | EXTENDS `ViewStream`, `SequenceFacts` |
| `ViewBufferProofs` | the slices implement `TextBuffer` | EXTENDS `ViewBuffer`, `SequenceFacts` |

Operators whose comment begins with "Mutant:" are not part of the model. Each
is a plausible mistake in the operator that follows it; `PROJECT.json` names,
for every property, a mistake that breaks it.

### EventLoop

`loop` is the program counter of the main goroutine: the two halves of the two
flushes before the loop (`layout1`, `draw1`, `layout2`, `draw2`), the select of
`MainLoop` (`select`), `consumeevents` (`consume`), the flush (`layout`,
`draw`), the notifications (`notify`), an `UpdateAsync` in which a callback
waits (`async`, and `resume` for the way on), `returned`. Between two of these
points the main goroutine does nothing another goroutine could tell apart.
`gEvents` and `userEvents` are the channels, `evch` the screen's queue,
`pollerAt`/`pollerEv` the poller. Keys are numbered when the screen accepts
them; `lastKey` is the last one handled, `drawn` the last one whose effect a
redraw shows. `updates`, `resizing` and `stopper` are the goroutines that
`Update`, `SetManager` and `Close` (or the harness) start.

One action is one step of one goroutine: `RunManagers` and `DrawViews` are the
halves of `flush`, `ReceiveEvent` / `ReceiveUserEvent` / `ReceiveStop` the cases
of the selects with the handler they run, `ConsumeEventsDone` the default case,
`Notify` / `NotifyDone` the notifications; `PollerStops`, `PollerDefault`,
`PollEvent`, `PollerSend` are the poller's turn. `Callback` is what any handler,
user event or Layout may do to the loop: nothing, fail, `Update`, `UpdateAsync`,
`SetManager`. A view that cannot be drawn ends the loop as a failing
callback does (`DrawViews`); in which state of the views that happens is in
`Screen`. A send on the unbuffered `g.stop` is a rendezvous: the sender
waits in `sending` and either select takes the value.

A screen that was finalized answers `PollEvent` with nil at once, which
`pollEvent` turns into `eventNone`; that is what floods `g.gEvents` after
`Close`. `eventError` never reaches the loop: `pollEvent` maps it to `eventNone`
too (`tcell_driver.go:233`), so the case at `gui.go:558` is not in the model.

### TestingLoop

Each tester is `unstarted`, `idle`, injecting the keys of a string one by one,
or waiting for its notification. `PostSync` and `ReceiveNotify` are the two
lines of `WaitSync`; `covered` remembers which keys had been sent when it was
called. A full screen queue refuses a key or a time event, as tcell's does, and
neither function looks at that (`refused`).

### TextLines and Editor

A line is a sequence of cells, a cell is its rune; runes are model values, some
in `Wide` (two columns), some in `Zero` (none: a typed tab or a combining rune).
`NUL` is the zero cell `writeRune` pads with, and what the simple editor writes
for a key that has no function; it is one column wide, so it also serves as the
narrow rune of the runs. `Editor` has one action per editing function; the three
that loop take one step per turn (`mode`), so that a loop that does not end is a
behaviour of the model. `moved` only tells the properties that the last step was
a `MoveCursor`.

`PosInLine` follows `linesPosOnScreen` row by row, apart from how `viewLines`
finds the rows: that the two agree is the property `CursorOnItsRune`.

### Dispatch

Views are objects (pointers) with a name; `views` is their order from bottom to
top, `currentView` may point to one that was deleted. A binding is for a key or
a rune of a view or of all views (`Anywhere`, the empty name). `last` records
what became of the last event. A rune comes with key 0, which is also
`KeyCtrlSpace`: `ZeroKey`. An editable view may have no editor (`HasEditor`),
and then nothing edits it. A binding with a nil handler is skipped by the code
(`gui.go:917`), as if it had not been made, and is not made here; a modifier is part of its key. The cursor a click sets in the clicked view
is in `Screen`.

### TextBuffer and ViewBuffer

`TextBuffer` has the text as a sequence of lines, each a value. `ViewBuffer` has
what Go has: `heap` is the arrays, a line is a header (array and length), and
`spare` are the headers between the length of `v.lines` and its capacity. Slices
of lines begin at the start of their array, as all of the code's do. `append`
writes in place when there is room and otherwise makes a new array with up to
`MaxSlack` cells to spare; `WriteableLines`/`WriteableCells` are the two loops of
`makeWriteable`, which reslice into that room without clearing it; `WriteCells`,
`InsertRune`, `TakeRune`, `JoinLines`, `SplitLine` are `writeCells`, `writeRune`,
`deleteRune`, `mergeLines`, `breakLine`. Arrays that nothing refers to are
dropped and the rest numbered anew by the first slice that has them (`Set`), so
that equal memories are equal states.

`CarefulSpec` is an application that, after text was taken out, does not write
past the end of what is left (`shrunk`, `WithinText`). Under it the slices
implement `TextBuffer` and no two lines share an array; under `Spec` neither is
so: `stale_cells` shows the first, and the second fails after `mergeLines`, which
leaves the header of a line behind `v.lines` where the next `Write` finds it.

### Escape and ViewStream

`ParseOne` is `parseOne` with what `parseInput` asks about its result: text, part
of a sequence, a request that was taken, or an error. A run of digits is one
rune, so parameters are numbers; a second run in one parameter stands for a
parameter that is too long. `Output256`, `OutputTrue` and `OutputNormal` fold
over the parameters as the Go loops do, with an index out of range as the result
"panic". `TcellStyle` is what arrives at the terminal. `OutputSimulator` is left
out: like the two modes without an output function it takes every request, and
it shows no colour at all.

`ViewStream` runs goroutines that `Write` rune by rune while they hold
`writeMutex`, with `Clear` and `Read` in between. `held` are the runes of an open
sequence, `got` the bytes that were read. `missed` and `split` mark what the
properties of reading leave out: text added to a line the reader had left at
`io.EOF`, and a slice that ended inside a rune.

### ScreenEvents

One action per kind of event of tcell. A mouse event says which buttons are down;
`lastMouseKey` and `lastMouseMod` remember what went down first. `Input` promises
presses and releases in turn, a release with the modifiers of its press,
characters as themselves; what is reported when several buttons go down at once
it leaves open. `pollEvent` is a step of its own here; `EventLoop` has when it
runs.

### Screen

The application puts, stacks, deletes and focuses views, sets their text and
public fields (`SetLook`: Visible, Frame, titles, padding, Wrap, Autoscroll), their
origin and their cursor; the terminal changes its size, `Flush` draws everything
and `Mouse` is a mouse event. The state of a view is a record with the fields of
`View`; a deleted view that keeps the focus is kept under `Gone`.

A picture is a function from points to what they show of which view. `DrawFrame`
puts the frame, `DrawText` is `clearRunes` and `View.draw`: `ViewRows` are the rows
into which `takeLine` folds the lines (`Taken`, `RowBegins`), `PutAt` is the column
and the row at which `View.draw` sets a rune, with the width of the runes before it
in its row from the `ox`-th on, and `TextAt` the rune that stays at a point when one
without width is followed by another. A cell of text remembers which rune of which
line it shows, so that a click can be compared with it. `CursorAt` is
`linesPosOnScreen`. `Editor` has the rows of a line as a recursion over cells; here
`RowBegins` says in which cells rows begin, which also has a meaning where the code
does not return (below).

One `SetRune` off the screen makes the picture undefined, as the code then returns
an error, which ends `MainLoop` (`failed`). So does a view that is too narrow for
its folded text: `Stuck` is the division by a width of zero in `linesPosOnScreen`
(a panic) and a `takeLine` that takes no rune and is called for ever. `shown` is
the last picture, or `Stale` when something changed since. Changes of the text are
in `ViewBuffer`. Colours, the runes of the frame, `Mask` and `Highlight` are left
out, and so is `SupportOverlaps`, which changes which rune is in a corner.

## Runs

| run | checks | bounds |
|---|---|---|
| `loop_safety` | `TypeOK`, `IdleIsDrawn`, `Pipeline`, `UpdateOnce`, `NewManagersPending`, `ImplementsInputService` | 2 keys, 2 updates, 1 `SetManager`, 1 `Close`, loader, resizes of the terminal; queues of 1, 1 and 2; every kind of callback |
| `loop_liveness` | `UpdatesRun`, `KeysHandled`, `NewManagersLaidOut` | 1 key, 2 updates, 1 `SetManager`, a loader; every queue has room for one event |
| `harness` | `TestTypeOK`, `SyncBalance`, `JointBarrier`, `SoloBarrier`, `SyncReturns`, `StopsEndLoop` | 2 testers, 2 `WaitSync` each, 1 key, 2 stops, a loader; queues of 1, 1 and 2 |
| `editor` | `TypeOK`, `CursorInText`, `MovesIntoView`, `CursorOnItsRune`, `ImplementsTextField`, `LoopsProgress` | a view of 3 x 2, texts of up to 4 characters over a wide, a zero-width and a narrow rune, wrapped and not |
| `dispatch` | `TypeOK`, `NamesUnique`, `TypedRunesReachEditor`, `ViewBindingsWin` | 2 overlapping views, 3 view objects, 2 keys, 1 rune, 2 bindings |
| `view_buffer` | `TypeOK`, `LinesApart`, `ImplementsTextBuffer` | 3 lines of up to 2 cells, 3 cells in all arrays, `append` exact or with room for one more |
| `view_stream` | `TypeOK`, `WritesContiguous`, `HeldBounded`, `ClearForgets`, `WholeRunesInOrder`, `RequestsApply`, `NothingLost` | 2 writers, 2 writes out of 13 requests and 12 pieces, 5 modes; sequences of up to 10 parameters in the place of 20 |
| `screen` | `TypeOK`, `ClickReachesSeen`, `FlushFailsWhenNarrow`, `CursorInFocus` | 2 views (one with frame, 3 lines and Autoscroll, one plain, hidden or padded) in 3 places on terminals of 4 x 4 and 3 x 3; alone on 3 x 3, a third of 2 lines with wide and zero-width runes, folded or not, or padded, with origin and cursor at (0, 0) or (1, 1) |
| `screen_input` | `ImplementsInput` | every set of 3 buttons and 2 wheels, 4 sets of modifiers |

Why the bounds are enough to be interesting. A queue of one is full after one
event, so every wait for room happens; the screen's queue of two and the
poller's hand make all three places hold a key at once. Two keys show a loss, a
swap or a repetition. Two updates let one sit in the queue while another waits.
Two testers are what an anonymous notification needs to go wrong. In the editor,
four characters make three lines, or a line that folds with a wide rune cut off
at the end of the row, in a view that has to scroll in both directions; three
view objects for two names let a deleted, focused view live on next to a new one
of its name. While the main loop is in `consumeevents` the poller refills
`g.gEvents`, so that a key and the time events of both testers can be handled in
one round.

In `view_buffer` a line of two cells can lose one and keep it behind its end,
three lines leave a header behind when two of them merge, and a heap of three
cells lets a line with room stand next to one without. Its input is a letter,
one with a line end, and a carriage return with a tab (two cells there). In
`view_stream` the requests are those where a number could be taken for the start
of a colour, or the reverse; the pieces are halves of sequences that two writes
join, in every way to break one, and one that is too long. `screen` puts views
that overlap, lie flat, begin left of and above the screen and end right of it,
with a title and a subtitle that do not fit, on terminals of 4 x 4 and 3 x 3; one
of the views can be hidden or padded, the other scrolls by itself. The third view,
the page, is scrolled by a column and a row, folds a line of two runes in one
column, puts a rune without width before a wide one and a wide one where only one
column is left, and is padded until no column is left. It has the screen for
itself (`PageAlone`, a constraint of the run), but for what is left of an earlier
page that still has the focus: how views lie over each other does not depend on
their text.

Three runs show that something the repository says of itself is not so:

| run | statement | what TLC finds |
|---|---|---|
| `stop_swallowed` | `testing.go:59`: the function stops the main loop | the poller receives the only stop token |
| `editor_hang` | `edit.go:76`: deletes until the start of the line | after `SetLine` the loop never ends |
| `stale_cells` | `view.go:335`: creates empty cells | after `deleteRune` the cells that a longer line left behind come back |

What does hold is checked next to them: `StopsEndLoop` (one stop per receiver),
`LoopsProgress` (without `SetLine` under the cursor, every turn of a loop gets
nearer to its end), `ImplementsTextBuffer` (no write past the end of a shortened
text).

Deadlock is checked in `view_buffer` and `screen_input`, where a call is always
possible, and not elsewhere: a program whose user types nothing more and whose
main loop waits, or has returned, has stopped. Where a wait must end, a liveness
property says so.

## Fairness

`Fairness` (EventLoop) and `TestFairness` assume of the code only that each
goroutine that can run goes on, and that a Go select or a channel with several
senders does not favour one of them for ever: strong fairness for the cases of
the selects and for the sends (`select` picks at random among ready cases, a
channel serves its blocked senders in order). Callbacks return. No fairness is
assumed of the user, of calls of the application, of the loader or of stopping.
Strong fairness of `ConsumeEventsDone` says that a loop that finds its queues
empty again and again sometimes gets to redraw: the loader sends every 50 ms
(`loader.go:7`), and handling its empty event takes far less.

The liveness properties of the loop name two ways out: the loop returned, or
it is `SelfBlocked`: a callback called `UpdateAsync` while `g.userEvents` was
full, so that the main goroutine waits for room that only it could make. That is
a real deadlock of the code (two updates and the loader's ticks suffice in the
run), and the properties say that it is the only one. In `EditReturns` the main
goroutine is assumed to take the turns of a loop it is in, and nothing else.
`ViewBuffer`, `ViewStream`, `Screen` and `ScreenEvents` have no fairness: what is
checked of them is safety.

## Proofs

Each theorem holds for every value of the constants that satisfies the named
assumptions of its module. These say no more than the code does: capacities are
positive (`CapsAssumption`), the tick of the loader is not an update, bounds are
naturals, the callback kinds are among the five; a tester exists that calls
`StartGui`; key 0 is a key and the empty name is no view's
(`DispatchAssumption`); the codes of the mouse are not those of the keyboard
(`ScreenEventsAssumption`); the four runes of a sequence are four and none of
them a number (`EscapeAssumption`); a slice for `Read` has room for a byte
(`ViewStreamAssumption`); places and sizes on the screen are integers, the terminal
has a cell, and no view has a name that stands for nil or for a deleted view
(`ScreenAssumption`); wide runes, runes without width and the rest are apart; newline, return and tab are three runes, and the zero
cell is none (`ViewBufferAssumption`, `RunesAssumption`); a line end is no cell
(`TextAssumption`), and a view has a column and a row, two columns if it wraps and
there are wide runes (`SizeAssumption`: narrower, `takeLine` would not return).

| module | theorem | states |
|---|---|---|
| `EventLoopProofs` | `TypeCorrect` | `Spec => []TypeOK` |
| | `IdleDrawn` | `Spec => []IdleIsDrawn` |
| | `ManagersPending` | `Spec => []NewManagersPending` |
| | `UpdatesOnce` | `Spec => []UpdateOnce` |
| | `PipelineKeepsKeys` | `Spec => []Pipeline` |
| | `ServiceImplemented` | `Spec => ImplementsInputService` |
| | `TestTypeCorrect` | `TestSpec => []TestTypeOK` |
| | `SyncsBalanced` | `TestSpec => []SyncBalance` |
| | `JointBarrierHolds` | `TestSpec => []JointBarrier` |
| | `SoloBarrierHolds` | `TestSpec => SoloBarrier` |
| `DispatchProofs` | `TypeCorrect` | `Spec => []TypeOK` |
| | `NamesStayUnique` | `Spec => []NamesUnique` |
| | `TypedRunesAreEdited` | `Spec => []TypedRunesReachEditor` |
| | `ViewBindingsComeFirst` | `Spec => []ViewBindingsWin` |
| `EditorProofs` | `TypeCorrect` | `Spec => []TypeOK` |
| | `CursorStaysInText` | `Spec => []CursorInText` |
| | `MovesAreShown` | `Spec => []MovesIntoView` |
| | `CursorIsOnItsRune` | `Spec => []CursorOnItsRune` |
| | `LoopsGoOn` | `Spec => LoopsProgress` |
| | `TextFieldImplemented` | `Spec => ImplementsTextField` |
| `ScreenEventsProofs` | `InputRefined` | `Spec => ImplementsInput` |
| `ScreenProofs` | `TypeCorrect` | `Spec => []TypeOK` |
| | `ClicksReachTheSeen` | `Spec => []ClickReachesSeen` |
| | `FlushFailsOnlyWhenNarrow` | `Spec => []FlushFailsWhenNarrow` |
| | `CursorStaysInFocus` | `Spec => []CursorInFocus` |
| `ViewStreamProofs` | `TypeCorrect` | `Spec => []TypeOK` |
| | `WritesStayWhole` | `Spec => []WritesContiguous` |
| | `SequencesEnd` | `Spec => []HeldBounded` |
| | `ClearIsClean` | `Spec => []ClearForgets` |
| | `ReadsInOrder` | `Spec => []WholeRunesInOrder` |
| `ViewBufferProofs` | `TypeCorrect` | `CarefulSpec => []TypeOK` |
| | `LinesStayApart` | `CarefulSpec => []LinesApart` |
| | `TextBufferImplemented` | `CarefulSpec => ImplementsTextBuffer` |

### The loop and the harness

The step lemmas are about `LoopStep`, every action `EventLoop` defines, so that
they serve a program with a real screen and the harness alike. `TypeOK` is
inductive. `IdleIsDrawn` is not: it needs to know where a blocked `UpdateAsync`
will resume, that the poller runs only after the first flush, and what is drawn
and counted at each point of the loop (`MainInv`). `NewManagersPending` is not
either: a resize event consumed inside `consumeevents` is no longer there, but
then a flush is still to come, at `loop` or at `resume` (`ManagersInv`).
`UpdateOnce` is inductive; that a send adds one occurrence and a receive takes
one away are lemmas of `SequenceFacts` about the number of places of a sequence.

`Pipeline` says that keys in the three places are ordered and that none between
`lastKey` and `accepted` is missing. Alone it says nothing of the numbers when
no key is on its way, so the next key could get any number: the invariant adds
`lastKey <= accepted` (`PipelineInv`). One lemma per shape of step carries it:
a key is accepted at the end, moves from one place to the next, or is handled at
the head. That the head of `gEvents` is `lastKey + 1` follows from order and
completeness, and that is the step `Handle` of `InputService`; a redraw maps to
`Redraw`, a return to `Halt`, all other steps to a stutter.

`HarnessInv` adds to these what the barriers rest on. `CounterInv` and `Balanced`
count: the time events in the three places and the notifications the loop owes
are together no more than the testers that wait, and as many unless the screen
refused one. `Barriers` says of each tester that its keys are drawn, or that a
time event is on its way behind the last of them, its own or a later one (`Late`),
or that an event was refused and somebody waits for good. Who receives which
notification is open, so a tester may return while its own event is still on its
way: the joint barrier follows because without waiting testers there is no
time event left. When only one tester calls `WaitSync` the event is its own, and
the same invariant gives what `testing.go:92` says.

### The editor

`EditorInv` is `TypeOK`, `CursorInText` and what `EditGotoToEndOfLine` relies on:
the loop that goes right until nothing moves runs on the last line, else it would
go on to the next one (`mode = "end" => cy + 1 >= Len(lines)`); without that,
`LoopsProgress` does not follow. A move ends in the text wherever it begins
(`TargetInText`), and the offsets that `Scrolled` and `ScrolledX` give show any
position at all (`ScrolledShows`), which is `MovesIntoView`: no relation between
the cursor and the origin needs to be invariant, because each move sets it anew.

`CursorOnItsRune` is about two recursions, one over the cells of a line in
`viewLines` (`RowStarts`) and one in `linesPosOnScreen` (`PosInLine`). That
functions with these equations exist is `Recursion` of `SequenceFacts`; a row is
not empty before the end of the line, so both end (`RowLenType`, which needs the
least width of `SizeAssumption`). Then by induction on how far the row is from the
end: what `PosInLine` finds from a row on is the row among `RowStarts` in which
`x` is, and its column is less than the width (`PosShown`).

For the refinement the lines are written as `At(lines, x, y, a, p, q, b)`: lines
`a` above, the line of the place as `p \o q`, lines `b` below. Each operator of
`TextLines` has a lemma that says what it makes of these (`WriteAt`, `DeleteAt`,
`BreakAt`, `MergeAt`), and the text of the lines is `Left(a, p) \o Right(q, b)`,
cut at the position of the cursor (`TextAt`; `ConcatLines` of lines after lines is
`TextOfBoth`, by induction). An operation then changes the end of the left part or
the head of the right one by one character, which is what `Insert`, `Replace`,
`DeleteBefore` and `DeleteAfter` of `TextField` say. An empty view whose cursor is
lines below is a text of line ends (`OnlyLineEnds`), which the first write makes
real and any move forgets (`Forget`).

### Dispatch

`TypeOK` with `Distinct` (two places of `g.views` have different names) is
inductive: `SetView` appends only when no view has the name, and stacking moves
the elements of `g.views` around (lemmas about `Drop`, deletion and insertion at
an index). `NamesUnique` counts names, and `DistinctCounts` translates.
`TypedRunesReachEditor` and `ViewBindingsWin` speak of what became of the last
event, so their steps are about one call of `onKey`: a binding that matches a
typed rune does not exist for a view that does not ask for it
(`NoBindingOfTyped`), and the loop over the bindings that keeps the last global
one only gets to its end when no binding of the view matched (`ChosenOfView`).

### Screen events

`ModInv` (the remembered modifiers are some that the terminal reported) is all
the invariant that is needed; then each case of `pollEvent` maps to one action
of `Input` or to a stutter: a press when no button was down, a release when the
last one goes up, a wheel by itself.

### The screen

`ScreenInv` adds to `TypeOK` what values the fields of a view have (`ViewSet`); the
three properties are then preserved each by itself. Most calls of the application
make the picture `Stale`; a mouse event moves one cursor and nothing that the
properties look at (`MouseKeeps`, `SameHit`). The work is in `Flush`. Its loop over
the views is a recursive function, `Rounds`, and `RoundOK(k, ...)` is what holds of
picture, cursor and views after `k` rounds, by induction on `k` (`RoundNext`):

- the picture is whole, or the reason for a failure is there (`Failing`): a subtitle
  of a view that was drawn is off the screen, or a folded view is too narrow. Edges,
  corners and titles lie on the screen (`FrameOnScreen`, `TitleOnScreen`) whatever
  the place of the view; and a row that takes nothing begins with a rune that is
  wider than the view (`EmptyRowIsNarrow`, `StuckIsNarrow`);
- at a point under which no view is hidden or padded, a cell with text or ground
  shows view `i` only if the point is inside view `i` and inside no later one so
  far (`Top`): a later view covers its whole inside, and its frame leaves either
  the old cell or none of those (`PaintNext`, `DrawFrameOn`);
- the rune of the cell is one that `View.draw` puts at that place of the view after
  its origin was moved (`Shows`, `TextOn`);
- each view is as it was or has its origin moved (`MovedOK`), which changes neither
  its place nor its rows (`MovedView`);
- the cursor is inside the focused view once a view was drawn (`CursorOf`).

`ViewByPosition` takes the last view that has the point inside, which is the same
one (`HitLast`). That the cursor goes to the very rune needs that column and number
of a rune are the same, and row and number of its line: in a view whose lines are
not folded and have runes of one column, each line has one row (`WholeRow`,
`StraightBegins`, `StraightRow`), in which `View.draw` puts rune `x` at column
`x - ox` (`StraightPut`); `SetCursor` leaves a place in the text as it is
(`NearestIs`). `ClickReachesSeen` names the other cases as its exceptions, because
the code does otherwise there (see below).

### The stream of a view

`StreamInv` has one part per piece of state: `LockInv` (who holds the mutex, and
that only this goroutine is inside a `Write`), `HeldInv` (the shape of the
interpreter's state: what is held in each state, with at most `MaxParams + 1`
parameters of at most two runs), `TextInv`, `ReaderInv` (where `v.rx`, `v.ry` may
point) and `FlagsInv`. `HeldBounded`, `WritesContiguous` and `ClearForgets` follow
from it.

`WholeRunesInOrder` needs an equation: the bytes of the text are those that were
read, followed by those of the text ahead of the reader,
`Encoded(Text) = got \o Encoded(ahead)` (`ReadingInv`). It holds as long as no
slice ended in a rune (`split`) and no text was added to a line that was read to
its end (`missed`), which are the two ways out that the property names. Each call
of `Read` cuts the text ahead in two (lemmas about `Encoded` of a concatenation),
each `Write` adds to its end.

### The slices of a text

`BufferInv` says that the buffer is `Good` (slices end where their arrays do, no
two lines share one) and, unless a cell or a line was taken out, `Clean`: zero
cells behind the end of each line, nil headers behind the last. The cleanness is
what makes the refinement go through: `makeWriteable` reslices into the room
behind a line, and what appears there must be the zero cells that `TextBuffer`
pads with.

The argument has two halves. First, for a buffer of any value, each function of
`view.go` and `edit.go` does to the text what its counterpart in `TextBuffer`
does: `WriteAllText`, `InsertRuneText`, `TakeRuneText`, `JoinLinesText`,
`SplitLineText`, `SetLineText`, each with a lemma that the result is good and, if
nothing is taken out, clean. Second, `NumberedSame`: that arrays are numbered
anew after each call (and those nobody refers to dropped) changes nothing that
can be seen through a slice. A step of `CarefulNext` is then a step of
`TextBuffer`. `WriteAll` goes over the runes of an input one by one; that it keeps
the invariant and computes the text of `TextBuffer` is shown by induction on their
number.

### What stays with TLC

Induction is an argument about the least counterexample (`Least` of
`SequenceFacts`); the induction theorems of the library, which take an operator as
a parameter, cannot be used. This reaches a function that is written with its own
recursion (`WriteAll`, `FlattenSeq`, `RowStarts`, `PosInLine`, `ConcatLines`,
`Rounds`). The prover cannot expand `SelectSeq`, `@@`
and `:>`, and knows nothing of the folds.

- All liveness: `UpdatesRun`, `KeysHandled`, `NewManagersLaidOut`, `SyncReturns`,
  `StopsEndLoop`; no rule of the prover handles fairness or ENABLED.
- `RequestsApply` and `NothingLost` of `ViewStream`, which need what the folds of
  `Output256` and `OutputTrue` compute for each request.
- `EditReturns`, which the code does not have, and that a loop of `Editor` does
  end: `LoopsProgress`, which is proved, is what each turn contributes to it.

## What else the code does

Met while modelling, and part of the models where they have the state for it;
no run is spent on them.

Main loop and harness:
- `consumeevents` handles all waiting events before the next flush; `doc.go:30-32`
  has one iteration of the main loop per event.
- with several goroutines on one `TestingScreen` a `WaitSync` may return on the
  notification for another one's earlier event, against `testing.go:92-93`;
  `JointBarrier` is what remains.
- `injectString` sends its chunks of ten without a wait between them
  (`testing.go:149-152` has the wait), and the full queue of the screen drops keys.

Views and keys:
- a rune bound for all views is left to the editor of every editable view;
  `KeybindOnEdit` (`view.go:142`) is asked for bindings of the view only.
- `ViewByPosition` does not look at `Visible` nor at the frame: a hidden view
  takes mouse events, and a click on a frame goes to what lies beneath it. The
  cursor that a mouse event sets, and the one of the terminal, do not count the
  padding.
- `onKey` takes the column of a click for the number of a rune and its row for the
  number of a line (`gui.go:900`). `View.draw` moves on by the width of each rune
  (`view.go:622-626`) and draws folded lines on several rows (`view.go:569-588`):
  behind a wide rune, behind one without width, and below or in the second row of a
  folded line, the cursor goes to another rune than the one that was clicked.
  `ClickReachesSeen` leaves these lines and views out (`Straight`).
- names are normalised word by word before they are looked up
  (`keybinding.go:45`), so that "ArrowUp" or "MousewheelUp" are not found, and
  "Arrow+Up" is.
- with two buttons pressed at once a release is reported, but no press.

Drawing:
- `tainted` is never reset, so that `contentCache` is never used (`view.go:569`).
- `clearRunes` clears as many columns and rows as the text has, but from the frame
  on: next to a padded text, on the right and below, the view beneath shows.
- `Autoscroll` moves the origin after the cursor was computed; its `- 1` assumes
  that the text ends with a line end, and otherwise hides a last line. Where the
  rows fit, it leaves an origin that a longer text or `SetOrigin` left there, which
  hides the first rows; `view.go:121-122` says that the y-origin is ignored.
- in a folded view `takeLine` takes nothing of a rune that is wider than the view,
  and `viewLines` calls it for ever; `linesPosOnScreen` divides by the width, which
  panics where the padding leaves none (`FlushFailsWhenNarrow`).

Text and stream:
- `Read` into slices that end inside a rune: what was left over is overwritten by
  what follows it, or returned with the rest of the buffer behind it. Line ends
  are not returned. Text added to a line that was read to `io.EOF` is never read.
- an error in a sequence writes one `;` more than was there, and loses the colours
  set before; when the sequence was too long, the current rune is lost as well.
- `38;5;1;48m` indexes past the end of a group (a panic); `38;5;1;4;48;5;2` is not
  taken as two colours; `1;5;31m` is an error in the 256 mode. The properties of
  requests speak of those the code is written for (`Supported`).
- the grayscale table has 26 entries and the guard lets 26 through
  (`attribute.go:157`); a request never gives that mode a colour.
- a line end inside a sequence goes to the text and leaves the sequence open.
- `SetLine` sends its text through the same interpreter, without the mutex.

## Not modelled

`Suspend` and `Resume`, which replace the global screen while the poller waits in
the old one; the names of keys; the parts of a view's looks that no property is
about (colours of frames, `Mask`, `Highlight`, runes of corners); `SetReadPos` to
another place than the start; the getters that turn lines into strings; the size
of the terminal, which is one system call. Data races on memory (`SetManager` or
`Views` from another goroutine, `WriteRunes` next to `Write`) are not modelled as
such.

## Plan

Done: all modules above, their runs, and the proofs of the loop, the pipeline, the
harness, the editor, the dispatch, the screen events, the screen, the stream and
the slices. Left, in this order:

1. The action properties of `ViewStream`, one lemma per kind of request.
2. `Suspend` and `Resume` in `EventLoop`: a second screen queue.
