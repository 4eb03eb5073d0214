------------------------------ MODULE EventLoop ------------------------------
(***************************************************************************)
(* The goroutines of gocui and the channels between them: MainLoop, the    *)
(* poller it starts, the goroutines that Update, SetManager and Close      *)
(* start, and the loader's ticker.  Events are numbered instead of         *)
(* carrying keys; what a key or an update does to the views is the matter  *)
(* of other modules, here it is one of the things an application callback  *)
(* can do to the loop (CallbackKinds).                                     *)
(***************************************************************************)
EXTENDS Integers, Sequences, FiniteSets

CONSTANTS
  GCap,           \* capacity of g.gEvents (20 in the code)
  UCap,           \* capacity of g.userEvents (20 in the code)
  EvCap,          \* capacity of the screen's own event queue (tcell: 10)
  Updates,        \* the calls of Update and UpdateAsync
  Tick,           \* the empty user event the loader sends
  HasLoader,      \* some view has HasLoader set
  TermResizes,    \* the terminal may change its size
  Closers,        \* the calls of Close
  Cleanups,       \* the calls of the function StartGui returns
  CallbackKinds,  \* what a handler, a user event or a Layout may do; drawing may
                  \* fail, too
  MaxKeys,        \* bound on the keys typed
  MaxResizes      \* bound on the calls of SetManager

Stoppers == Closers \cup Cleanups

ASSUME CapsAssumption ==
  GCap \in Nat \ {0} /\ UCap \in Nat \ {0} /\ EvCap \in Nat \ {0}
ASSUME NamesAssumption == Tick \notin Updates
ASSUME BoundsAssumption == MaxKeys \in Nat /\ MaxResizes \in Nat
ASSUME KindsAssumption ==
  /\ CallbackKinds \subseteq {"ok", "fail", "update", "async", "manager"}
  /\ HasLoader \in BOOLEAN /\ TermResizes \in BOOLEAN

VARIABLES
  loop,         \* where MainLoop is
  resume,       \* where it goes on after a blocked UpdateAsync of a callback
  gEvents,      \* g.gEvents
  userEvents,   \* g.userEvents
  updates,      \* progress of each call of Update / UpdateAsync
  resizing,     \* SetManager goroutines that have not sent yet
  managers,     \* calls of SetManager so far
  laidOut,      \* value of managers at the last Layout
  evch,         \* the events accepted by the screen and not polled yet
  screenUp,     \* the screen has not been finalized
  pollerAt,     \* where the poller goroutine is
  pollerEv,     \* the event it holds while it sends
  stopper,      \* progress of each goroutine that sends on g.stop
  accepted,     \* number of keys accepted by the screen
  lastKey,      \* number of the last key handled
  drawn,        \* number of the last key handled before the last redraw
  testCounter   \* g.testCounter

mainVars   == <<loop, resume, laidOut, lastKey, drawn, testCounter>>
callVars   == <<loop, resume, updates, resizing, managers>>
queueVars  == <<gEvents, userEvents>>
pollerVars == <<pollerAt, pollerEv>>
screenVars == <<evch, screenUp, accepted>>
loopVars   == <<mainVars, queueVars, updates, resizing, managers, pollerVars,
                screenVars, stopper>>

Event == [type : {"key", "time", "resize", "none"}, n : Nat]
Signal(type) == [type |-> type, n |-> 0]

Init ==
  /\ loop = "new" /\ resume = "new"
  /\ gEvents = <<>> /\ userEvents = <<>>
  /\ updates = [u \in Updates |-> "new"]
  /\ resizing = 0 /\ managers = 0 /\ laidOut = 0
  /\ evch = <<>> /\ screenUp = TRUE /\ accepted = 0
  /\ pollerAt = "off" /\ pollerEv = Signal("none")
  /\ stopper = [s \in Stoppers |-> "new"]
  /\ lastKey = 0 /\ drawn = 0 /\ testCounter = 0

-----------------------------------------------------------------------------
(* Application callbacks: key handlers, functions given to Update, Layout. *)

\* Mutant: nothing wakes the main loop.
SetManagerSilently ==
  /\ managers < MaxResizes
  /\ managers' = managers + 1
  /\ UNCHANGED resizing

\* SetManager: the resize event is sent by a goroutine of its own.
SetManager ==
  /\ managers < MaxResizes
  /\ managers' = managers + 1
  /\ resizing' = resizing + 1

\* A callback runs on the main goroutine, which goes on at next unless the
\* callback returns an error or blocks in UpdateAsync.  ups is the progress
\* of the updates when it starts.
Callback(next, ups) ==
  \/ /\ "ok" \in CallbackKinds
     /\ loop' = next /\ updates' = ups
     /\ UNCHANGED <<resume, resizing, managers>>
  \/ /\ "fail" \in CallbackKinds
     /\ loop' = "returned" /\ updates' = ups
     /\ UNCHANGED <<resume, resizing, managers>>
  \/ /\ "update" \in CallbackKinds
     /\ \E u \in Updates : ups[u] = "new" /\ updates' = [ups EXCEPT ![u] = "spawned"]
     /\ loop' = next
     /\ UNCHANGED <<resume, resizing, managers>>
  \/ /\ "async" \in CallbackKinds
     /\ \E u \in Updates : ups[u] = "new" /\ updates' = [ups EXCEPT ![u] = "inline"]
     /\ loop' = "async" /\ resume' = next
     /\ UNCHANGED <<resizing, managers>>
  \/ /\ "manager" \in CallbackKinds
     /\ SetManager
     /\ loop' = next /\ updates' = ups
     /\ UNCHANGED resume

\* UpdateAsync called by a callback: the main goroutine itself sends, and so
\* waits for room that only it could make.
InlineUpdateAsync ==
  /\ loop = "async"
  /\ Len(userEvents) < UCap
  /\ \E u \in Updates :
       /\ updates[u] = "inline"
       /\ userEvents' = Append(userEvents, u)
       /\ updates' = [updates EXCEPT ![u] = "queued"]
  /\ loop' = resume
  /\ UNCHANGED <<resume, laidOut, lastKey, drawn, testCounter, gEvents, resizing,
                 managers, pollerVars, screenVars, stopper>>

-----------------------------------------------------------------------------
(* MainLoop.  flush runs twice before the loop and once per iteration.     *)

StartMainLoop ==
  /\ loop = "new"
  /\ loop' = "layout1"
  /\ UNCHANGED <<resume, laidOut, lastKey, drawn, testCounter, queueVars, updates,
                 resizing, managers, pollerVars, screenVars, stopper>>

AfterLayout == [layout1 |-> "draw1", layout2 |-> "draw2", layout |-> "draw"]
AfterDraw   == [draw1 |-> "layout2", draw2 |-> "select", draw |-> "notify"]

\* flush, first half: the Layout functions of the managers.
RunManagers ==
  /\ loop \in DOMAIN AfterLayout
  /\ laidOut' = managers
  /\ Callback(AfterLayout[loop], updates)
  /\ UNCHANGED <<lastKey, drawn, testCounter, queueVars, pollerVars,
                 screenVars, stopper>>

\* Mutant: g.testCounter is cleared by every flush.
DrawViewsResetting ==
  /\ loop \in DOMAIN AfterDraw
  /\ loop' = AfterDraw[loop]
  /\ drawn' = lastKey
  /\ pollerAt' = IF loop = "draw1" THEN "select" ELSE pollerAt
  /\ testCounter' = 0
  /\ UNCHANGED <<resume, laidOut, lastKey, queueVars, updates, resizing, managers,
                 pollerEv, screenVars, stopper>>

\* flush, second half: the views are drawn and shown, unless one of them
\* cannot be drawn, for which Screen has the reasons.  The poller starts after
\* the first flush and the counter is cleared after the second.
DrawViews ==
  /\ loop \in DOMAIN AfterDraw
  /\ \/ /\ loop' = AfterDraw[loop]
        /\ drawn' = lastKey
        /\ pollerAt' = IF loop = "draw1" THEN "select" ELSE pollerAt
        /\ testCounter' = IF loop = "draw2" THEN 0 ELSE testCounter
     \/ /\ "fail" \in CallbackKinds
        /\ loop' = "returned"
        /\ UNCHANGED <<drawn, pollerAt, testCounter>>
  /\ UNCHANGED <<resume, laidOut, lastKey, queueVars, updates, resizing, managers,
                 pollerEv, screenVars, stopper>>

\* The selects of MainLoop and of consumeevents, and handleEvent.
Receiving == loop \in {"select", "consume"}

ReceiveEvent ==
  /\ Receiving
  /\ gEvents # <<>>
  /\ gEvents' = Tail(gEvents)
  /\ LET ev == Head(gEvents)
     IN  \/ /\ ev.type = "key"
            /\ lastKey' = ev.n
            /\ Callback("consume", updates)
            /\ UNCHANGED testCounter
         \/ /\ ev.type = "time"
            /\ testCounter' = testCounter + 1
            /\ loop' = "consume"
            /\ UNCHANGED <<lastKey, resume, updates, resizing, managers>>
         \/ /\ ev.type \in {"resize", "none"}
            /\ loop' = "consume"
            /\ UNCHANGED <<lastKey, testCounter, resume, updates, resizing, managers>>
  /\ UNCHANGED <<userEvents, laidOut, drawn, pollerVars, screenVars, stopper>>

ReceiveUserEvent ==
  /\ Receiving
  /\ userEvents # <<>>
  /\ userEvents' = Tail(userEvents)
  /\ LET u == Head(userEvents)
     IN  \/ /\ u = Tick
            /\ loop' = "consume"
            /\ UNCHANGED <<resume, updates, resizing, managers>>
         \/ /\ u \in Updates
            /\ Callback("consume", [updates EXCEPT ![u] = "done"])
  /\ UNCHANGED <<laidOut, lastKey, drawn, testCounter, gEvents, pollerVars,
                 screenVars, stopper>>

\* Only the select of MainLoop listens to g.stop.
ReceiveStop ==
  /\ loop = "select"
  /\ \E s \in Stoppers : stopper[s] = "sending" /\ stopper' = [stopper EXCEPT ![s] = "done"]
  /\ loop' = "returned"
  /\ UNCHANGED <<resume, laidOut, lastKey, drawn, testCounter, queueVars, updates,
                 resizing, managers, pollerVars, screenVars>>

\* Mutant: the loop goes on without the flush.
ConsumeEventsNoFlush ==
  /\ loop = "consume"
  /\ gEvents = <<>> /\ userEvents = <<>>
  /\ loop' = "notify"
  /\ UNCHANGED <<resume, laidOut, lastKey, drawn, testCounter, queueVars, updates,
                 resizing, managers, pollerVars, screenVars, stopper>>

\* The default case of consumeevents.
ConsumeEventsDone ==
  /\ loop = "consume"
  /\ gEvents = <<>> /\ userEvents = <<>>
  /\ loop' = "layout"
  /\ UNCHANGED <<resume, laidOut, lastKey, drawn, testCounter, queueVars, updates,
                 resizing, managers, pollerVars, screenVars, stopper>>

\* One send on g.testNotify; its receiver is a WaitSync (TestingLoop).
Notify ==
  /\ loop = "notify"
  /\ testCounter > 0
  /\ testCounter' = testCounter - 1
  /\ UNCHANGED <<loop, resume, laidOut, lastKey, drawn, queueVars, updates, resizing,
                 managers, pollerVars, screenVars, stopper>>

NotifyDone ==
  /\ loop = "notify"
  /\ testCounter = 0
  /\ loop' = "select"
  /\ UNCHANGED <<resume, laidOut, lastKey, drawn, testCounter, queueVars, updates,
                 resizing, managers, pollerVars, screenVars, stopper>>

-----------------------------------------------------------------------------
(* The poller.  It is stopped by a send on g.stop that is already waiting  *)
(* when it comes to its select; otherwise the default case polls.          *)

StopSent == {s \in Stoppers : stopper[s] = "sending"}

\* Mutant: a break in the place of the return leaves the select only.
PollerBreaks ==
  /\ pollerAt = "select"
  /\ \E s \in StopSent : stopper' = [stopper EXCEPT ![s] = "done"]
  /\ UNCHANGED <<mainVars, queueVars, updates, resizing, managers, pollerVars,
                 screenVars>>

PollerStops ==
  /\ pollerAt = "select"
  /\ \E s \in StopSent : stopper' = [stopper EXCEPT ![s] = "done"]
  /\ pollerAt' = "done"
  /\ UNCHANGED <<mainVars, queueVars, updates, resizing, managers, pollerEv,
                 screenVars>>

PollerDefault ==
  /\ pollerAt = "select"
  /\ StopSent = {}
  /\ pollerAt' = "poll"
  /\ UNCHANGED <<mainVars, queueVars, updates, resizing, managers, pollerEv,
                 screenVars, stopper>>

\* PollEvent of a finalized screen returns nil, which pollEvent turns into
\* an eventNone.
PollEvent ==
  /\ pollerAt = "poll"
  /\ \/ /\ evch # <<>>
        /\ pollerEv' = Head(evch) /\ evch' = Tail(evch)
     \/ /\ ~screenUp
        /\ pollerEv' = Signal("none") /\ UNCHANGED evch
  /\ pollerAt' = "send"
  /\ UNCHANGED <<mainVars, queueVars, updates, resizing, managers, screenUp,
                 accepted, stopper>>

\* Mutant: the poller does not wait for room.
PollerSendUnbounded ==
  /\ pollerAt = "send"
  /\ gEvents' = Append(gEvents, pollerEv)
  /\ pollerEv' = Signal("none")
  /\ pollerAt' = "select"
  /\ UNCHANGED <<mainVars, userEvents, updates, resizing, managers,
                 screenVars, stopper>>

\* Mutant: a select with a default case drops what does not fit.
PollerSendOrDrop ==
  /\ pollerAt = "send"
  /\ gEvents' = IF Len(gEvents) < GCap THEN Append(gEvents, pollerEv) ELSE gEvents
  /\ pollerEv' = Signal("none")
  /\ pollerAt' = "select"
  /\ UNCHANGED <<mainVars, userEvents, updates, resizing, managers,
                 screenVars, stopper>>

PollerSend ==
  /\ pollerAt = "send"
  /\ Len(gEvents) < GCap
  /\ gEvents' = Append(gEvents, pollerEv)
  /\ pollerEv' = Signal("none")
  /\ pollerAt' = "select"
  /\ UNCHANGED <<mainVars, userEvents, updates, resizing, managers,
                 screenVars, stopper>>

-----------------------------------------------------------------------------
(* The other goroutines.                                                   *)

\* Update from any goroutine, and UpdateAsync from one that is not the main
\* one: a goroutine that will send u exists from here on.
Update(u) ==
  /\ updates[u] = "new"
  /\ updates' = [updates EXCEPT ![u] = "spawned"]
  /\ UNCHANGED <<mainVars, queueVars, resizing, managers, pollerVars,
                 screenVars, stopper>>

\* Mutant: the goroutine may send again.
UpdateAsyncAgain(u) ==
  /\ updates[u] = "spawned"
  /\ Len(userEvents) < UCap
  /\ userEvents' = Append(userEvents, u)
  /\ updates' \in {updates, [updates EXCEPT ![u] = "queued"]}
  /\ UNCHANGED <<mainVars, gEvents, resizing, managers, pollerVars,
                 screenVars, stopper>>

\* Mutant: an update that finds the queue full is given up.
UpdateAsyncOrDrop(u) ==
  /\ updates[u] = "spawned"
  /\ \/ /\ Len(userEvents) < UCap
        /\ userEvents' = Append(userEvents, u)
        /\ updates' = [updates EXCEPT ![u] = "queued"]
     \/ /\ Len(userEvents) = UCap
        /\ updates' = [updates EXCEPT ![u] = "new"]
        /\ UNCHANGED userEvents
  /\ UNCHANGED <<mainVars, gEvents, resizing, managers, pollerVars,
                 screenVars, stopper>>

UpdateAsync(u) ==
  /\ updates[u] = "spawned"
  /\ Len(userEvents) < UCap
  /\ userEvents' = Append(userEvents, u)
  /\ updates' = [updates EXCEPT ![u] = "queued"]
  /\ UNCHANGED <<mainVars, gEvents, resizing, managers, pollerVars,
                 screenVars, stopper>>

SendResize ==
  /\ resizing > 0
  /\ Len(gEvents) < GCap
  /\ gEvents' = Append(gEvents, Signal("resize"))
  /\ resizing' = resizing - 1
  /\ UNCHANGED <<mainVars, userEvents, updates, managers, pollerVars,
                 screenVars, stopper>>

\* A program normally sets its managers before it calls MainLoop.
SetFirstManager ==
  /\ loop = "new"
  /\ SetManager
  /\ UNCHANGED <<mainVars, queueVars, updates, pollerVars, screenVars, stopper>>

LoaderTick ==
  /\ HasLoader
  /\ loop # "new"
  /\ Len(userEvents) < UCap
  /\ userEvents' = Append(userEvents, Tick)
  /\ UNCHANGED <<mainVars, gEvents, updates, resizing, managers, pollerVars,
                 screenVars, stopper>>

\* Close starts the goroutine that sends on g.stop and finalizes the screen.
Close(s) ==
  /\ loop # "new" /\ screenUp
  /\ stopper[s] = "new"
  /\ stopper' = [stopper EXCEPT ![s] = "spawned"]
  /\ screenUp' = FALSE
  /\ UNCHANGED <<mainVars, queueVars, updates, resizing, managers, pollerVars,
                 evch, accepted>>

\* The goroutine reaches its send on the unbuffered g.stop.
StopperBlocks(s) ==
  /\ stopper[s] = "spawned"
  /\ stopper' = [stopper EXCEPT ![s] = "sending"]
  /\ UNCHANGED <<mainVars, queueVars, updates, resizing, managers, pollerVars,
                 screenVars>>

\* The screen accepts one more key (or mouse event) into its queue.
AcceptKey ==
  /\ screenUp
  /\ Len(evch) < EvCap
  /\ accepted' = accepted + 1
  /\ evch' = Append(evch, [type |-> "key", n |-> accepted + 1])
  /\ UNCHANGED <<mainVars, queueVars, updates, resizing, managers, pollerVars,
                 screenUp, stopper>>

\* The screen reports a new size of the terminal.
TermResize ==
  /\ TermResizes /\ screenUp
  /\ Len(evch) < EvCap
  /\ evch' = Append(evch, Signal("resize"))
  /\ UNCHANGED <<mainVars, queueVars, updates, resizing, managers, pollerVars,
                 screenUp, accepted, stopper>>

\* Steps of the harness in testing.go that touch the state of this module.
\* Mutant: the screen's queue takes whatever is posted.
PostTimeUnbounded ==
  /\ evch' = Append(evch, Signal("time"))
  /\ UNCHANGED <<mainVars, queueVars, updates, resizing, managers, pollerVars,
                 screenUp, accepted, stopper>>

PostTime ==
  /\ Len(evch) < EvCap
  /\ evch' = Append(evch, Signal("time"))
  /\ UNCHANGED <<mainVars, queueVars, updates, resizing, managers, pollerVars,
                 screenUp, accepted, stopper>>

SendStop(s) ==
  /\ stopper[s] = "new"
  /\ stopper' = [stopper EXCEPT ![s] = "sending"]
  /\ UNCHANGED <<mainVars, queueVars, updates, resizing, managers, pollerVars,
                 screenVars>>

-----------------------------------------------------------------------------
MainStep ==
  \/ RunManagers \/ DrawViews \/ ReceiveEvent \/ ReceiveUserEvent
  \/ ReceiveStop \/ ConsumeEventsDone \/ NotifyDone \/ InlineUpdateAsync

PollerStep == PollerStops \/ PollerDefault \/ PollEvent \/ PollerSend

OtherStep ==
  \/ \E u \in Updates : Update(u) \/ UpdateAsync(u)
  \/ SetFirstManager \/ SendResize \/ LoaderTick \/ TermResize
  \/ \E s \in Closers : Close(s) \/ StopperBlocks(s)

\* A program with a real screen: no testing harness.
Next ==
  \/ StartMainLoop \/ MainStep \/ PollerStep \/ OtherStep
  \/ accepted < MaxKeys /\ AcceptKey

\* Every step this module defines, for modules that add the harness.
LoopStep ==
  \/ StartMainLoop \/ MainStep \/ PollerStep \/ OtherStep
  \/ AcceptKey \/ PostTime \/ Notify
  \/ \E s \in Stoppers : SendStop(s)

Spec == Init /\ [][Next]_loopVars

\* Every goroutine that can run goes on (callbacks return; no case is made
\* for the user or the application calling anything).  A select chooses
\* uniformly among its ready cases, and a channel serves its blocked senders
\* in order: strong fairness for the cases and for the sends.  The loop
\* handles an event faster than the loader sends the next one (50 ms), so
\* that it finds the queues empty again and again.
Fairness ==
  /\ WF_loopVars(StartMainLoop)
  /\ WF_loopVars(RunManagers) /\ WF_loopVars(DrawViews)
  /\ SF_loopVars(ConsumeEventsDone) /\ WF_loopVars(NotifyDone)
  /\ WF_loopVars(InlineUpdateAsync)
  /\ SF_loopVars(ReceiveEvent) /\ SF_loopVars(ReceiveUserEvent) /\ SF_loopVars(ReceiveStop)
  /\ WF_loopVars(PollerStops) /\ WF_loopVars(PollerDefault)
  /\ WF_loopVars(PollEvent) /\ SF_loopVars(PollerSend)
  /\ SF_loopVars(SendResize)
  /\ \A u \in Updates : SF_loopVars(UpdateAsync(u))
  /\ \A s \in Closers : WF_loopVars(StopperBlocks(s))

FairSpec == Spec /\ Fairness

-----------------------------------------------------------------------------
(* Properties.                                                             *)

LoopStates ==
  DOMAIN AfterLayout \cup DOMAIN AfterDraw
    \cup {"new", "select", "consume", "notify", "async", "returned"}

\* Every variable has its type and no channel holds more than its capacity.
TypeOK ==
  /\ loop \in LoopStates /\ resume \in LoopStates
  /\ gEvents \in Seq(Event) /\ Len(gEvents) <= GCap
  /\ userEvents \in Seq(Updates \cup {Tick}) /\ Len(userEvents) <= UCap
  /\ updates \in [Updates -> {"new", "spawned", "inline", "queued", "done"}]
  /\ resizing \in Nat /\ managers \in Nat /\ laidOut \in Nat
  /\ evch \in Seq(Event) /\ Len(evch) <= EvCap
  /\ screenUp \in BOOLEAN
  /\ pollerAt \in {"off", "select", "poll", "send", "done"} /\ pollerEv \in Event
  /\ stopper \in [Stoppers -> {"new", "spawned", "sending", "done"}]
  /\ accepted \in Nat /\ lastKey \in Nat /\ drawn \in Nat /\ testCounter \in Nat

\* Whenever MainLoop waits in its select, the screen shows the effect of
\* every key handled and every WaitSync counted has been answered: no path
\* through consumeevents, flush and the notifications leaves work behind.
IdleIsDrawn == loop = "select" => drawn = lastKey /\ testCounter = 0

\* Keys on their way from the screen to the handlers: in the screen's queue,
\* in the poller's hand (it has been read and not sent), or in g.gEvents.
KeyAt(s, i) == i \in DOMAIN s /\ s[i].type = "key"
KeyHeld == pollerAt = "send" /\ pollerEv.type = "key"

\* Keys are in flight in the order of their numbers, all after the last
\* key handled, ...
KeysOrdered ==
  /\ \A i, j \in DOMAIN gEvents :
       KeyAt(gEvents, i) /\ KeyAt(gEvents, j) /\ i < j => gEvents[i].n < gEvents[j].n
  /\ \A i, j \in DOMAIN evch :
       KeyAt(evch, i) /\ KeyAt(evch, j) /\ i < j => evch[i].n < evch[j].n
  /\ \A i \in DOMAIN gEvents, j \in DOMAIN evch :
       KeyAt(gEvents, i) /\ KeyAt(evch, j) => gEvents[i].n < evch[j].n
  /\ KeyHeld => /\ \A i \in DOMAIN gEvents : KeyAt(gEvents, i) => gEvents[i].n < pollerEv.n
                /\ \A j \in DOMAIN evch : KeyAt(evch, j) => pollerEv.n < evch[j].n
  /\ \A i \in DOMAIN gEvents : KeyAt(gEvents, i) => gEvents[i].n \in lastKey + 1 .. accepted
  /\ KeyHeld => pollerEv.n \in lastKey + 1 .. accepted
  /\ \A i \in DOMAIN evch : KeyAt(evch, i) => evch[i].n \in lastKey + 1 .. accepted

InFlight(n) ==
  \/ \E i \in DOMAIN gEvents : KeyAt(gEvents, i) /\ gEvents[i].n = n
  \/ KeyHeld /\ pollerEv.n = n
  \/ \E i \in DOMAIN evch : KeyAt(evch, i) /\ evch[i].n = n

\* ... and none that was accepted and not handled is missing.
KeysComplete == \A n \in lastKey + 1 .. accepted : InFlight(n)

\* The poller, its one-event buffer and the two queues lose, duplicate and
\* reorder no key, whatever the callbacks and the other goroutines do.
Pipeline == KeysOrdered /\ KeysComplete

\* Each update is in g.userEvents exactly while it is queued: a goroutine of
\* Update sends it once, and the loop runs it once.
UpdateOnce ==
  \A u \in Updates :
    Cardinality({i \in DOMAIN userEvents : userEvents[i] = u})
      = (IF updates[u] = "queued" THEN 1 ELSE 0)

\* When MainLoop waits in its select with managers whose Layout has not run,
\* the resize event that will wake it exists: the wake-up is never consumed
\* before the flush it is meant for.
NewManagersPending ==
  loop = "select" /\ laidOut # managers =>
    resizing > 0 \/ \E i \in DOMAIN gEvents : gEvents[i].type = "resize"

Service == INSTANCE InputService
           WITH sent <- accepted, handled <- lastKey, running <- loop # "returned"

\* MainLoop, the poller and the channels implement the input service: keys
\* are handled once each, in order, and never after the loop has returned.
ImplementsInputService == Service!Spec

Over == loop = "returned"

\* A callback's UpdateAsync waits for room that only its own goroutine makes.
SelfBlocked == loop = "async" /\ Len(userEvents) = UCap

\* A function given to Update runs, whatever the queue holds and whatever
\* other goroutines send (the loader included), unless the loop returns or
\* blocks itself.
UpdatesRun ==
  \A u \in Updates :
    updates[u] = "spawned" ~> updates[u] = "done" \/ Over \/ SelfBlocked

\* A key the screen accepted is handled, unless the loop returns or blocks
\* itself: nothing else can stop it.
KeysHandled ==
  \A k \in 1 .. MaxKeys : accepted >= k ~> lastKey >= k \/ Over \/ SelfBlocked

\* New managers get their Layout, even when a Layout itself or a key handler
\* called SetManager and nothing else happens: the goroutine SetManager
\* starts forces one more iteration of the main loop.
NewManagersLaidOut == laidOut # managers ~> laidOut = managers \/ Over \/ SelfBlocked
=============================================================================
