-------------------------- MODULE EventLoopProofs --------------------------
(***************************************************************************)
(* Proofs about EventLoop for all capacities of the channels, all numbers  *)
(* of keys and all sets of calls, and about TestingLoop, for any number of *)
(* testers and calls of WaitSync.  The lemmas are about LoopStep, any step *)
(* EventLoop defines: they serve a program with a real screen (Next) and   *)
(* the harness alike.  The second part is about the way of a key from the  *)
(* screen to its handler: Pipeline, and with it that EventLoop implements  *)
(* InputService.  The third is about the harness: which keys are drawn     *)
(* when a WaitSync returns, and that time events are neither lost nor      *)
(* duplicated.                                                             *)
(***************************************************************************)
EXTENDS TestingLoop, SequenceFacts

\* A step of a program with a real screen is a step of the module.
LEMMA NextIsLoopStep == [Next]_loopVars => [LoopStep]_loopVars
BY DEF Next, LoopStep

\* The first state has the types.
LEMMA InitTypeOK == Init => TypeOK
BY CapsAssumption DEF Init, TypeOK, Event, Signal, LoopStates, AfterLayout, AfterDraw

\* What the effect of a callback is, as far as types go.
LEMMA CallbackTypes ==
  ASSUME TypeOK, NEW next \in LoopStates, NEW ups \in [Updates -> {"new", "spawned", "inline", "queued", "done"}],
         Callback(next, ups)
  PROVE  /\ loop' \in {next, "returned", "async"}
         /\ loop' \in LoopStates /\ resume' \in LoopStates
         /\ resume' \in {resume, next}
         /\ updates' \in [Updates -> {"new", "spawned", "inline", "queued", "done"}]
         /\ resizing' \in Nat /\ managers' \in Nat
<1>1. loop' \in {next, "returned", "async"} /\ resume' \in {resume, next}
  BY DEF Callback, SetManager
<1>2. loop' \in LoopStates /\ resume' \in LoopStates
  BY <1>1 DEF TypeOK, LoopStates, AfterLayout, AfterDraw
<1>3. updates' \in [Updates -> {"new", "spawned", "inline", "queued", "done"}]
  BY DEF Callback, SetManager
<1>4. resizing' \in Nat /\ managers' \in Nat
  BY DEF Callback, SetManager, TypeOK
<1> QED BY <1>1, <1>2, <1>3, <1>4

\* Every action keeps the types, those of the harness included.
LEMMA TypeOKStep == TypeOK /\ [LoopStep]_loopVars => TypeOK'
<1> SUFFICES ASSUME TypeOK, [LoopStep]_loopVars PROVE TypeOK'
  OBVIOUS
<1> USE CapsAssumption
<1> USE DEF TypeOK, mainVars, queueVars, pollerVars, screenVars
<1>1. CASE StartMainLoop
  BY <1>1 DEF StartMainLoop, LoopStates, AfterLayout
<1>2. CASE RunManagers
  <2>1. AfterLayout[loop] \in LoopStates
    BY <1>2 DEF RunManagers, LoopStates, AfterLayout, AfterDraw
  <2>2. updates \in [Updates -> {"new", "spawned", "inline", "queued", "done"}]
    OBVIOUS
  <2>3. Callback(AfterLayout[loop], updates)
    BY <1>2 DEF RunManagers
  <2> QED BY <1>2, <2>1, <2>2, <2>3, CallbackTypes DEF RunManagers
<1>3. CASE DrawViews
  BY <1>3 DEF DrawViews, LoopStates, AfterLayout, AfterDraw
<1>4. CASE ReceiveEvent
  <2>1. gEvents' \in Seq(Event) /\ Len(gEvents') <= GCap /\ Head(gEvents) \in Event
    BY <1>4 DEF ReceiveEvent
  <2>2. Head(gEvents).n \in Nat
    BY <2>1 DEF Event
  <2>3. "consume" \in LoopStates
    BY DEF LoopStates
  <2>4. CASE Head(gEvents).type = "key"
    <3>1. Callback("consume", updates) /\ lastKey' = Head(gEvents).n /\ UNCHANGED testCounter
      BY <1>4, <2>4 DEF ReceiveEvent
    <3> QED BY <1>4, <2>1, <2>2, <2>3, <3>1, CallbackTypes DEF ReceiveEvent
  <2>5. CASE Head(gEvents).type # "key"
    <3>1. loop' = "consume" /\ UNCHANGED <<resume, updates, resizing, managers, lastKey>>
      BY <1>4, <2>5 DEF ReceiveEvent
    <3>2. testCounter' \in Nat
      BY <1>4, <2>5 DEF ReceiveEvent
    <3> QED BY <1>4, <2>1, <2>3, <3>1, <3>2 DEF ReceiveEvent
  <2> QED BY <2>4, <2>5
<1>5. CASE ReceiveUserEvent
  <2>1. userEvents' \in Seq(Updates \cup {Tick}) /\ Len(userEvents') <= UCap
    BY <1>5 DEF ReceiveUserEvent
  <2>2. "consume" \in LoopStates
    BY DEF LoopStates
  <2>3. CASE loop' = "consume" /\ UNCHANGED <<resume, updates, resizing, managers>>
    BY <1>5, <2>1, <2>2, <2>3 DEF ReceiveUserEvent
  <2>4. CASE Callback("consume", [updates EXCEPT ![Head(userEvents)] = "done"])
    <3>1. [updates EXCEPT ![Head(userEvents)] = "done"]
            \in [Updates -> {"new", "spawned", "inline", "queued", "done"}]
      OBVIOUS
    <3> QED BY <1>5, <2>1, <2>2, <2>4, <3>1, CallbackTypes DEF ReceiveUserEvent
  <2> QED BY <1>5, <2>3, <2>4 DEF ReceiveUserEvent
<1>6. CASE ReceiveStop
  BY <1>6 DEF ReceiveStop, LoopStates
<1>7. CASE ConsumeEventsDone
  BY <1>7 DEF ConsumeEventsDone, LoopStates, AfterLayout
<1>8. CASE NotifyDone
  BY <1>8 DEF NotifyDone, LoopStates
<1>9. CASE InlineUpdateAsync
  <2>1. PICK u \in Updates : /\ userEvents' = Append(userEvents, u)
                             /\ updates' = [updates EXCEPT ![u] = "queued"]
    BY <1>9 DEF InlineUpdateAsync
  <2> QED BY <1>9, <2>1 DEF InlineUpdateAsync
<1>10. CASE PollerStops
  BY <1>10 DEF PollerStops, StopSent
<1>11. CASE PollerDefault
  BY <1>11 DEF PollerDefault
<1>12. CASE PollEvent
  <2>1. evch' \in Seq(Event) /\ Len(evch') <= EvCap
    <3>1. CASE evch # <<>> /\ evch' = Tail(evch)
      BY <3>1
    <3> QED BY <1>12, <3>1 DEF PollEvent
  <2>2. pollerEv' \in Event
    <3>1. CASE evch # <<>> /\ pollerEv' = Head(evch)
      BY <3>1
    <3> QED BY <1>12, <3>1 DEF PollEvent, Signal, Event
  <2> QED BY <1>12, <2>1, <2>2 DEF PollEvent
<1>13. CASE PollerSend
  BY <1>13 DEF PollerSend, Signal, Event
<1>14. ASSUME NEW u \in Updates, Update(u) PROVE TypeOK'
  BY <1>14 DEF Update
<1>15. ASSUME NEW u \in Updates, UpdateAsync(u) PROVE TypeOK'
  BY <1>15 DEF UpdateAsync
<1>16. CASE SetFirstManager
  BY <1>16 DEF SetFirstManager, SetManager
<1>17. CASE SendResize
  BY <1>17 DEF SendResize, Signal, Event
<1>18. CASE LoaderTick
  BY <1>18 DEF LoaderTick
<1>19. ASSUME NEW s \in Closers, Close(s) \/ StopperBlocks(s) PROVE TypeOK'
  BY <1>19 DEF Close, StopperBlocks, Stoppers
<1>20. CASE AcceptKey
  BY <1>20 DEF AcceptKey, Event
<1>21. CASE PostTime \/ TermResize
  <2>1. CASE PostTime
    BY <2>1 DEF PostTime, Signal, Event
  <2>2. CASE TermResize
    BY <2>2 DEF TermResize, Signal, Event
  <2> QED BY <1>21, <2>1, <2>2
<1>22. CASE Notify
  BY <1>22 DEF Notify
<1>23. ASSUME NEW s \in Stoppers, SendStop(s) PROVE TypeOK'
  BY <1>23 DEF SendStop
<1>24. CASE UNCHANGED loopVars
  BY <1>24 DEF loopVars
<1> QED
  BY <1>1, <1>2, <1>3, <1>4, <1>5, <1>6, <1>7, <1>8, <1>9, <1>10, <1>11, <1>12, <1>13,
     <1>14, <1>15, <1>16, <1>17, <1>18, <1>19, <1>20, <1>21, <1>22, <1>23, <1>24
  DEF LoopStep, MainStep, PollerStep, OtherStep

\* Type correctness: no channel ever holds more than its capacity.
THEOREM TypeCorrect == Spec => []TypeOK
BY InitTypeOK, TypeOKStep, NextIsLoopStep, PTL DEF Spec

-----------------------------------------------------------------------------
(* What MainLoop has done when it is where it is.                          *)

\* A callback that blocks goes on at the step after it ...
ResumeInv == loop = "async" => resume \in {"draw1", "draw2", "draw", "consume"}

\* ... the poller starts after the first flush ...
PollerInv ==
  loop \in {"new", "layout1", "draw1"} \/ (loop = "async" /\ resume = "draw1")
    => pollerAt = "off"

\* ... and a flush comes between the events and the next select.
DrawnInv == (loop = "notify" => drawn = lastKey) /\ IdleIsDrawn

MainInv == ResumeInv /\ PollerInv /\ DrawnInv

\* Where the main goroutine is after a callback: at the next point, in the
\* UpdateAsync of the callback, which ends there, or out of MainLoop.
LEMMA CallbackControl ==
  ASSUME NEW next, NEW ups, Callback(next, ups)
  PROVE  \/ loop' = "async" /\ resume' = next
         \/ loop' \in {next, "returned"} /\ resume' = resume
BY DEF Callback

\* MainLoop has not begun.
LEMMA InitMainInv == Init => MainInv
BY DEF Init, MainInv, ResumeInv, PollerInv, DrawnInv, IdleIsDrawn

\* Every action keeps what the points of the main loop say.
LEMMA MainInvStep == TypeOK /\ MainInv /\ [LoopStep]_loopVars => MainInv'
<1> SUFFICES ASSUME TypeOK, MainInv, [LoopStep]_loopVars PROVE MainInv'
  OBVIOUS
<1> USE DEF MainInv, ResumeInv, PollerInv, DrawnInv, IdleIsDrawn,
            mainVars, queueVars, pollerVars, screenVars
<1>1. CASE StartMainLoop
  BY <1>1 DEF StartMainLoop
<1>2. CASE RunManagers
  <2>1. Callback(AfterLayout[loop], updates) /\ UNCHANGED <<lastKey, drawn, testCounter, pollerAt>>
    BY <1>2 DEF RunManagers
  <2>2. \/ loop = "layout1" /\ AfterLayout[loop] = "draw1"
        \/ loop = "layout2" /\ AfterLayout[loop] = "draw2"
        \/ loop = "layout" /\ AfterLayout[loop] = "draw"
    BY <1>2 DEF RunManagers, AfterLayout
  <2>3. \/ loop' = "async" /\ resume' = AfterLayout[loop]
        \/ loop' \in {AfterLayout[loop], "returned"} /\ resume' = resume
    BY <2>1, CallbackControl
  <2> QED BY <2>1, <2>2, <2>3
<1>3. CASE DrawViews
  BY <1>3 DEF DrawViews, AfterDraw
<1>4. CASE ReceiveEvent
  <2>1. loop \in {"select", "consume"} /\ UNCHANGED pollerAt
    BY <1>4 DEF ReceiveEvent, Receiving
  <2>2. \/ loop' = "async" /\ resume' = "consume"
        \/ loop' \in {"consume", "returned"} /\ resume' = resume
    BY <1>4, CallbackControl DEF ReceiveEvent
  <2> QED BY <2>1, <2>2
<1>5. CASE ReceiveUserEvent
  <2>1. loop \in {"select", "consume"} /\ UNCHANGED pollerAt
    BY <1>5 DEF ReceiveUserEvent, Receiving
  <2>2. \/ loop' = "async" /\ resume' = "consume"
        \/ loop' \in {"consume", "returned"} /\ resume' = resume
    BY <1>5, CallbackControl DEF ReceiveUserEvent
  <2> QED BY <2>1, <2>2
<1>6. CASE ReceiveStop
  BY <1>6 DEF ReceiveStop
<1>7. CASE ConsumeEventsDone
  BY <1>7 DEF ConsumeEventsDone
<1>8. CASE NotifyDone
  BY <1>8 DEF NotifyDone
<1>9. CASE InlineUpdateAsync
  BY <1>9 DEF InlineUpdateAsync
<1>10. CASE PollerStep
  BY <1>10 DEF PollerStep, PollerStops, PollerDefault, PollEvent, PollerSend
<1>11. CASE Notify
  BY <1>11 DEF Notify
<1>12. CASE OtherStep \/ AcceptKey \/ PostTime \/ \E s \in Stoppers : SendStop(s)
  BY <1>12 DEF OtherStep, Update, UpdateAsync, SetFirstManager, SendResize, LoaderTick,
               TermResize, Close, StopperBlocks, AcceptKey, PostTime, SendStop
<1>13. CASE UNCHANGED loopVars
  BY <1>13 DEF loopVars
<1> QED
  BY <1>1, <1>2, <1>3, <1>4, <1>5, <1>6, <1>7, <1>8, <1>9, <1>10, <1>11, <1>12, <1>13
  DEF LoopStep, MainStep

\* The invariant of the main goroutine, with the types it needs.
LEMMA MainInvariant == Spec => [](TypeOK /\ MainInv)
BY InitTypeOK, TypeOKStep, InitMainInv, MainInvStep, NextIsLoopStep, PTL DEF Spec

\* Whenever MainLoop waits in its select, every key handled is drawn and
\* every time event counted has been answered.
THEOREM IdleDrawn == Spec => []IdleIsDrawn
<1>1. TypeOK /\ MainInv => IdleIsDrawn
  BY DEF MainInv, DrawnInv
<1> QED BY <1>1, MainInvariant, PTL

-----------------------------------------------------------------------------
(* New managers.  Between a Layout and the next select a resize event is   *)
(* on its way for every SetManager that the Layout came too early for.     *)

ResizePending == resizing > 0 \/ \E i \in DOMAIN gEvents : gEvents[i].type = "resize"

AfterLayouts == loop \in {"draw2", "draw", "notify", "select"}
                  \/ (loop = "async" /\ resume \in {"draw2", "draw"})

ManagersInv == AfterLayouts /\ laidOut # managers => ResizePending

\* Before the first Layout nothing is owed.
LEMMA InitManagersInv == Init => ManagersInv
BY DEF Init, ManagersInv

\* A goroutine of SetManager that has not sent keeps the event pending until
\* it is in g.gEvents, and no send there takes it away.
LEMMA PendingStays ==
  ASSUME TypeOK, ResizePending,
         \/ UNCHANGED <<resizing, gEvents>>
         \/ UNCHANGED gEvents /\ resizing' = resizing + 1
         \/ SendResize
         \/ PollerSend
  PROVE  ResizePending'
<1>1. CASE UNCHANGED <<resizing, gEvents>>
  BY <1>1 DEF ResizePending
<1>2. CASE UNCHANGED gEvents /\ resizing' = resizing + 1
  BY <1>2 DEF ResizePending, TypeOK
<1>3. CASE SendResize
  <2>1. gEvents' = Append(gEvents, Signal("resize"))
    BY <1>3 DEF SendResize
  <2>2. Len(gEvents) + 1 \in DOMAIN gEvents' /\ gEvents'[Len(gEvents) + 1].type = "resize"
    BY <2>1 DEF TypeOK, Signal, Event
  <2> QED BY <2>2 DEF ResizePending
<1>4. CASE PollerSend
  <2>1. gEvents' = Append(gEvents, pollerEv) /\ UNCHANGED resizing
    BY <1>4 DEF PollerSend
  <2>2. \A i \in DOMAIN gEvents : i \in DOMAIN gEvents' /\ gEvents'[i] = gEvents[i]
    BY <2>1 DEF TypeOK
  <2> QED BY <2>1, <2>2 DEF ResizePending
<1> QED BY <1>1, <1>2, <1>3, <1>4

\* Every action keeps the resize event, or a Layout comes before the select.
LEMMA ManagersInvStep ==
  TypeOK /\ MainInv /\ ManagersInv /\ [LoopStep]_loopVars => ManagersInv'
<1> SUFFICES ASSUME TypeOK, MainInv, ManagersInv, [LoopStep]_loopVars,
                    AfterLayouts', laidOut' # managers'
             PROVE  ResizePending'
  BY DEF ManagersInv
<1> USE DEF mainVars, queueVars, pollerVars, screenVars
<1>1. CASE StartMainLoop
  BY <1>1 DEF StartMainLoop, AfterLayouts
<1>2. CASE RunManagers
  \* The Layout is up to date unless a callback calls SetManager in it.
  <2>1. Callback(AfterLayout[loop], updates) /\ laidOut' = managers
    BY <1>2 DEF RunManagers
  <2>2. SetManager
    BY <2>1 DEF Callback
  <2> QED BY <2>2 DEF SetManager, ResizePending, TypeOK
<1>3. CASE DrawViews
  <2>1. AfterLayouts /\ laidOut # managers /\ UNCHANGED <<resizing, gEvents>>
    BY <1>3 DEF DrawViews, AfterDraw, AfterLayouts
  <2> QED BY <2>1, PendingStays DEF ManagersInv
<1>4. CASE ReceiveEvent
  <2>1. \/ loop' = "async" /\ resume' = "consume"
        \/ loop' \in {"consume", "returned"} /\ resume' = resume
    BY <1>4, CallbackControl DEF ReceiveEvent
  <2> QED BY <2>1 DEF AfterLayouts
<1>5. CASE ReceiveUserEvent
  <2>1. \/ loop' = "async" /\ resume' = "consume"
        \/ loop' \in {"consume", "returned"} /\ resume' = resume
    BY <1>5, CallbackControl DEF ReceiveUserEvent
  <2> QED BY <2>1 DEF AfterLayouts
<1>6. CASE ReceiveStop \/ ConsumeEventsDone
  BY <1>6 DEF ReceiveStop, ConsumeEventsDone, AfterLayouts
<1>7. CASE NotifyDone \/ Notify
  <2>1. AfterLayouts /\ laidOut # managers /\ UNCHANGED <<resizing, gEvents>>
    BY <1>7 DEF NotifyDone, Notify, AfterLayouts
  <2> QED BY <2>1, PendingStays DEF ManagersInv
<1>8. CASE InlineUpdateAsync
  <2>1. AfterLayouts /\ laidOut # managers /\ UNCHANGED <<resizing, gEvents>>
    BY <1>8 DEF InlineUpdateAsync, AfterLayouts, MainInv, ResumeInv
  <2> QED BY <2>1, PendingStays DEF ManagersInv
<1>9. CASE PollerStops \/ PollerDefault \/ PollEvent \/ PollerSend
  <2>1. AfterLayouts /\ laidOut # managers
    BY <1>9 DEF PollerStops, PollerDefault, PollEvent, PollerSend, AfterLayouts
  <2>2. UNCHANGED <<resizing, gEvents>> \/ PollerSend
    BY <1>9 DEF PollerStops, PollerDefault, PollEvent
  <2> QED BY <2>1, <2>2, PendingStays DEF ManagersInv
<1>10. CASE SetFirstManager
  BY <1>10 DEF SetFirstManager, AfterLayouts
<1>11. CASE SendResize
  <2>1. AfterLayouts /\ laidOut # managers
    BY <1>11 DEF SendResize, AfterLayouts
  <2> QED BY <1>11, <2>1, PendingStays DEF ManagersInv
<1>12. CASE UNCHANGED <<loop, resume, laidOut, managers, resizing, gEvents>>
  <2>1. AfterLayouts /\ laidOut # managers
    BY <1>12 DEF AfterLayouts
  <2> QED BY <1>12, <2>1, PendingStays DEF ManagersInv
<1>13. ASSUME \/ LoaderTick \/ TermResize \/ AcceptKey \/ PostTime
              \/ \E u \in Updates : Update(u) \/ UpdateAsync(u)
              \/ \E s \in Closers : Close(s) \/ StopperBlocks(s)
              \/ \E s \in Stoppers : SendStop(s)
              \/ UNCHANGED loopVars
       PROVE  UNCHANGED <<loop, resume, laidOut, managers, resizing, gEvents>>
  BY <1>13 DEF LoaderTick, TermResize, AcceptKey, PostTime, Update, UpdateAsync, Close, StopperBlocks,
               SendStop, loopVars
<1> QED
  BY <1>1, <1>2, <1>3, <1>4, <1>5, <1>6, <1>7, <1>8, <1>9, <1>10, <1>11, <1>12, <1>13
  DEF LoopStep, MainStep, PollerStep, OtherStep

\* When MainLoop waits in its select with managers whose Layout has not run,
\* the resize event that wakes it is on its way.
THEOREM ManagersPending == Spec => []NewManagersPending
<1>1. ManagersInv => NewManagersPending
  BY DEF ManagersInv, AfterLayouts, ResizePending, NewManagersPending
<1>2. Spec => [](TypeOK /\ MainInv /\ ManagersInv)
  BY MainInvariant, InitManagersInv, ManagersInvStep, NextIsLoopStep, PTL DEF Spec
<1> QED BY <1>1, <1>2, PTL

-----------------------------------------------------------------------------
(* Updates.  How often a call of Update is in g.userEvents.                *)

\* A callback takes no update to the queue and none away from it.
LEMMA CallbackUpdates ==
  ASSUME NEW next, NEW ups \in [Updates -> {"new", "spawned", "inline", "queued", "done"}],
         Callback(next, ups)
  PROVE  \A u \in Updates : updates'[u] = "queued" <=> ups[u] = "queued"
<1>1. CASE updates' = ups
  BY <1>1
<1>2. CASE \E u \in Updates : ups[u] = "new" /\ updates' \in {[ups EXCEPT ![u] = "spawned"],
                                                             [ups EXCEPT ![u] = "inline"]}
  BY <1>2
<1> QED BY <1>1, <1>2 DEF Callback

\* The send of an update that was not in the queue.
LEMMA SendUpdate ==
  ASSUME TypeOK, UpdateOnce, NEW u \in Updates, updates[u] # "queued",
         userEvents' = Append(userEvents, u), updates' = [updates EXCEPT ![u] = "queued"]
  PROVE  UpdateOnce'
<1> SUFFICES ASSUME NEW v \in Updates
             PROVE  Count(userEvents', {v}) = (IF updates'[v] = "queued" THEN 1 ELSE 0)
  BY DEF UpdateOnce, Count, Places
<1>1. Count(userEvents', {v}) = Count(userEvents, {v}) + (IF u \in {v} THEN 1 ELSE 0)
  <2>1. userEvents \in Seq(Updates \cup {Tick}) /\ u \in Updates \cup {Tick}
    BY DEF TypeOK
  <2> QED BY <2>1, CountAppend
<1>2. Count(userEvents, {v}) = (IF updates[v] = "queued" THEN 1 ELSE 0)
  BY DEF UpdateOnce, Count, Places
<1> QED BY <1>1, <1>2 DEF TypeOK

\* Every action moves an update to its next state and g.userEvents with it.
LEMMA UpdateOnceStep == TypeOK /\ UpdateOnce /\ [LoopStep]_loopVars => UpdateOnce'
<1> SUFFICES ASSUME TypeOK, UpdateOnce, [LoopStep]_loopVars PROVE UpdateOnce'
  OBVIOUS
<1>1. CASE UNCHANGED userEvents /\ \A u \in Updates : updates'[u] = "queued" <=> updates[u] = "queued"
  BY <1>1 DEF UpdateOnce
<1>2. CASE RunManagers \/ ReceiveEvent
  <2>1. UNCHANGED updates \/ \E next : Callback(next, updates)
    BY <1>2 DEF RunManagers, ReceiveEvent
  <2>2. \A u \in Updates : updates'[u] = "queued" <=> updates[u] = "queued"
    BY <2>1, CallbackUpdates DEF TypeOK
  <2> QED BY <1>1, <1>2, <2>2 DEF RunManagers, ReceiveEvent, queueVars
<1>3. CASE ReceiveUserEvent
  <2> DEFINE u == Head(userEvents)
  <2>1. userEvents # <<>> /\ userEvents' = Tail(userEvents)
    BY <1>3 DEF ReceiveUserEvent
  <2>2. \A v \in Updates :
          Count(userEvents', {v}) = Count(userEvents, {v}) - (IF u \in {v} THEN 1 ELSE 0)
    BY <2>1, CountTail DEF TypeOK
  <2>3. \A v \in Updates : Count(userEvents, {v}) = (IF updates[v] = "queued" THEN 1 ELSE 0)
    BY DEF UpdateOnce, Count, Places
  <2>4. \A v \in Updates : updates'[v] = "queued" <=> updates[v] = "queued" /\ v # u
    <3>1. CASE u = Tick /\ UNCHANGED updates
      BY <3>1, NamesAssumption
    <3>2. CASE u \in Updates /\ Callback("consume", [updates EXCEPT ![u] = "done"])
      <4>1. [updates EXCEPT ![u] = "done"] \in [Updates -> {"new", "spawned", "inline", "queued", "done"}]
        BY DEF TypeOK
      <4>2. \A v \in Updates :
              updates'[v] = "queued" <=> [updates EXCEPT ![u] = "done"][v] = "queued"
        BY <3>2, <4>1, CallbackUpdates
      <4> QED BY <4>2 DEF TypeOK
    <3> QED BY <1>3, <3>1, <3>2 DEF ReceiveUserEvent
  <2>5. \A v \in Updates : Count(userEvents', {v}) \in Nat
    <3>1. userEvents' \in Seq(Updates \cup {Tick})
      BY <2>1 DEF TypeOK
    <3> QED BY <3>1, CountType
  <2>6. \A v \in Updates : Count(userEvents', {v}) = (IF updates'[v] = "queued" THEN 1 ELSE 0)
    <3> SUFFICES ASSUME NEW v \in Updates
                 PROVE  Count(userEvents', {v}) = (IF updates'[v] = "queued" THEN 1 ELSE 0)
      OBVIOUS
    <3>1. CASE v = u
      <4>1. Count(userEvents', {v}) = Count(userEvents, {v}) - 1 /\ Count(userEvents', {v}) \in Nat
        BY <2>2, <2>5, <3>1
      <4> QED BY <2>3, <2>4, <3>1, <4>1
    <3>2. CASE v # u
      <4>1. Count(userEvents', {v}) = Count(userEvents, {v}) - 0
        BY <2>2, <3>2
      <4> QED BY <2>3, <2>4, <3>2, <4>1
    <3> QED BY <3>1, <3>2
  <2> QED BY <2>6 DEF UpdateOnce, Count, Places
<1>4. CASE InlineUpdateAsync \/ \E u \in Updates : UpdateAsync(u)
  <2>1. PICK u \in Updates : /\ updates[u] # "queued"
                             /\ userEvents' = Append(userEvents, u)
                             /\ updates' = [updates EXCEPT ![u] = "queued"]
    BY <1>4 DEF InlineUpdateAsync, UpdateAsync
  <2> QED BY <2>1, SendUpdate
<1>5. CASE LoaderTick
  <2>1. \A v \in Updates :
          Count(userEvents', {v}) = Count(userEvents, {v}) + (IF Tick \in {v} THEN 1 ELSE 0)
    <3>1. /\ userEvents \in Seq(Updates \cup {Tick}) /\ Tick \in Updates \cup {Tick}
          /\ userEvents' = Append(userEvents, Tick)
      BY <1>5 DEF LoaderTick, TypeOK
    <3> QED BY <3>1, CountAppend
  <2>2. \A v \in Updates : Count(userEvents, {v}) = (IF updates[v] = "queued" THEN 1 ELSE 0)
    BY DEF UpdateOnce, Count, Places
  <2>3. \A v \in Updates : Count(userEvents', {v}) = (IF updates'[v] = "queued" THEN 1 ELSE 0)
    <3>1. \A v \in Updates : v # Tick /\ updates'[v] = updates[v]
      BY <1>5, NamesAssumption DEF LoaderTick
    <3> SUFFICES ASSUME NEW v \in Updates
                 PROVE  Count(userEvents', {v}) = (IF updates'[v] = "queued" THEN 1 ELSE 0)
      OBVIOUS
    <3>2. Count(userEvents', {v}) = Count(userEvents, {v}) + 0
      BY <2>1, <3>1
    <3> DEFINE c == Count(userEvents, {v})
    <3>3. c = (IF updates[v] = "queued" THEN 1 ELSE 0)
      BY <2>2
    <3> HIDE DEF c
    <3>4. c + 0 = c
      BY <3>3
    <3> QED BY <3>1, <3>2, <3>3, <3>4 DEF c
  <2> QED BY <2>3 DEF UpdateOnce, Count, Places
<1>6. CASE \E u \in Updates : Update(u)
  <2>1. \A v \in Updates : updates'[v] = "queued" <=> updates[v] = "queued"
    BY <1>6 DEF Update, TypeOK
  <2> QED BY <1>1, <1>6, <2>1 DEF Update, queueVars
<1>7. ASSUME \/ StartMainLoop \/ DrawViews \/ ReceiveStop \/ ConsumeEventsDone \/ NotifyDone \/ Notify
             \/ PollerStep \/ SetFirstManager \/ SendResize \/ TermResize \/ AcceptKey \/ PostTime
             \/ \E s \in Closers : Close(s) \/ StopperBlocks(s)
             \/ \E s \in Stoppers : SendStop(s)
             \/ UNCHANGED loopVars
      PROVE  UNCHANGED <<userEvents, updates>>
  BY <1>7 DEF StartMainLoop, DrawViews, ReceiveStop, ConsumeEventsDone, NotifyDone, Notify,
              PollerStep, PollerStops, PollerDefault, PollEvent, PollerSend, SetFirstManager,
              SendResize, TermResize, AcceptKey, PostTime, Close, StopperBlocks, SendStop,
              loopVars, queueVars
<1> QED
  BY <1>1, <1>2, <1>3, <1>4, <1>5, <1>6, <1>7 DEF LoopStep, MainStep, OtherStep

\* No update has been posted and the channel is empty.
LEMMA InitUpdateOnce == Init => UpdateOnce
<1> SUFFICES ASSUME Init, NEW u \in Updates PROVE Count(userEvents, {u}) = 0 /\ updates[u] = "new"
  BY DEF UpdateOnce, Count, Places
<1>1. userEvents \in Seq(Updates) /\ DOMAIN userEvents = {}
  BY DEF Init
<1> QED BY <1>1, CountType DEF Init

\* A goroutine of Update sends its event once and the loop runs it once.
THEOREM UpdatesOnce == Spec => []UpdateOnce
BY TypeCorrect, InitUpdateOnce, UpdateOnceStep, NextIsLoopStep, PTL DEF Spec

-----------------------------------------------------------------------------
(* The steps, as far as keys go: each leaves the keys alone or moves one   *)
(* from one of the three places to the next.                               *)

\* Nothing happens to a key: the places may gain or lose other events.
NoKeyMoves ==
  /\ UNCHANGED <<evch, gEvents, lastKey, accepted>>
  /\ (KeyHeld' <=> KeyHeld) /\ (KeyHeld => UNCHANGED pollerEv)

\* No key exists.
LEMMA InitPipeline == Init => Pipeline
BY DEF Init, Pipeline, KeysOrdered, KeysComplete, InFlight, KeyHeld, KeyAt

\* A step that moves no key keeps the pipeline.
LEMMA NoKeyMovesStep ==
  ASSUME TypeOK, Pipeline, NoKeyMoves PROVE Pipeline'
<1>1. KeysOrdered'
  BY DEF Pipeline, KeysOrdered, NoKeyMoves, KeyAt
<1>2. KeysComplete'
  BY DEF Pipeline, KeysComplete, InFlight, NoKeyMoves, KeyAt
<1> QED BY <1>1, <1>2 DEF Pipeline

\* An event that is not a key joins g.gEvents.
LEMMA SendResizePipeline ==
  ASSUME TypeOK, Pipeline, SendResize PROVE Pipeline'
<1>1. /\ gEvents \in Seq(Event) /\ Signal("resize") \in Event
      /\ gEvents' = Append(gEvents, Signal("resize"))
      /\ UNCHANGED <<pollerAt, pollerEv, evch, lastKey, accepted>>
  BY DEF TypeOK, SendResize, mainVars, pollerVars, screenVars, Signal, Event
<1>2. \A i \in DOMAIN gEvents : i \in DOMAIN gEvents' /\ gEvents'[i] = gEvents[i]
  BY <1>1, AppendPlaces
<1>3. \A i \in DOMAIN gEvents' :
        KeyAt(gEvents', i) => i \in DOMAIN gEvents /\ gEvents'[i] = gEvents[i]
  BY <1>1, <1>2, AppendPlaces DEF KeyAt, Signal
<1>4. \A i : KeyAt(gEvents', i) <=> KeyAt(gEvents, i)
  BY <1>2, <1>3 DEF KeyAt
<1>5. KeyHeld' <=> KeyHeld
  BY <1>1 DEF KeyHeld
<1>6. KeysOrdered'
  BY <1>1, <1>2, <1>3, <1>4, <1>5 DEF Pipeline, KeysOrdered
<1>7. KeysComplete'
  BY <1>1, <1>2, <1>4, <1>5 DEF Pipeline, KeysComplete, InFlight
<1> QED BY <1>6, <1>7 DEF Pipeline

\* An event that is not a key joins the screen's queue.
LEMMA SignalPipeline ==
  ASSUME TypeOK, Pipeline, PostTime \/ TermResize PROVE Pipeline'
<1> PICK type \in {"time", "resize"} : evch' = Append(evch, Signal(type))
  BY DEF PostTime, TermResize
<1>1. /\ evch \in Seq(Event) /\ Signal(type) \in Event
      /\ evch' = Append(evch, Signal(type))
      /\ UNCHANGED <<pollerAt, pollerEv, gEvents, lastKey, accepted>>
  BY DEF TypeOK, PostTime, TermResize, mainVars, pollerVars, queueVars, Signal, Event
<1>2. \A i \in DOMAIN evch : i \in DOMAIN evch' /\ evch'[i] = evch[i]
  BY <1>1, AppendPlaces
<1>3. \A i \in DOMAIN evch' :
        KeyAt(evch', i) => i \in DOMAIN evch /\ evch'[i] = evch[i]
  BY <1>1, <1>2, AppendPlaces DEF KeyAt, Signal
<1>4. \A i : KeyAt(evch', i) <=> KeyAt(evch, i)
  BY <1>2, <1>3 DEF KeyAt
<1>5. KeyHeld' <=> KeyHeld
  BY <1>1 DEF KeyHeld
<1>6. KeysOrdered'
  BY <1>1, <1>2, <1>3, <1>4, <1>5 DEF Pipeline, KeysOrdered
<1>7. KeysComplete'
  BY <1>1, <1>2, <1>4, <1>5 DEF Pipeline, KeysComplete, InFlight
<1> QED BY <1>6, <1>7 DEF Pipeline

\* A new key is the last one in the screen's queue and of all.
LEMMA AcceptKeyPipeline ==
  ASSUME TypeOK, Pipeline, lastKey <= accepted, AcceptKey PROVE Pipeline'
<1> DEFINE key == [type |-> "key", n |-> accepted + 1]
<1>1. /\ evch \in Seq(Event) /\ key \in Event
      /\ evch' = Append(evch, key) /\ accepted' = accepted + 1
      /\ accepted \in Nat /\ lastKey \in Nat
      /\ UNCHANGED <<pollerAt, pollerEv, gEvents, lastKey>>
  BY DEF TypeOK, AcceptKey, mainVars, pollerVars, queueVars, Event
<1>2. \A i \in DOMAIN evch : /\ i \in DOMAIN evch' /\ evch'[i] = evch[i]
                             /\ i < Len(evch) + 1
  BY <1>1, AppendPlaces
<1>3. \A i \in DOMAIN evch' : i \in DOMAIN evch \/ (i = Len(evch) + 1 /\ evch'[i] = key)
  BY <1>1, AppendPlaces
<1>4. KeyHeld' <=> KeyHeld
  BY <1>1 DEF KeyHeld
<1>5. /\ \A i \in DOMAIN gEvents : KeyAt(gEvents, i) => gEvents[i].n \in lastKey + 1 .. accepted
      /\ KeyHeld => pollerEv.n \in lastKey + 1 .. accepted
      /\ \A i \in DOMAIN evch : KeyAt(evch, i) => evch[i].n \in lastKey + 1 .. accepted
  BY DEF Pipeline, KeysOrdered
<1>6. \A i \in DOMAIN evch' : KeyAt(evch', i) =>
        \/ i \in DOMAIN evch /\ KeyAt(evch, i) /\ evch'[i] = evch[i]
        \/ i = Len(evch) + 1 /\ evch'[i].n = accepted + 1
  BY <1>1, <1>2, <1>3 DEF KeyAt
<1>7. \A i, j \in DOMAIN evch' :
        KeyAt(evch', i) /\ KeyAt(evch', j) /\ i < j => evch'[i].n < evch'[j].n
  <2> SUFFICES ASSUME NEW i \in DOMAIN evch', NEW j \in DOMAIN evch',
                      KeyAt(evch', i), KeyAt(evch', j), i < j
               PROVE  evch'[i].n < evch'[j].n
    OBVIOUS
  <2>1. i \in DOMAIN evch /\ KeyAt(evch, i) /\ evch'[i] = evch[i]
    BY <1>1, <1>2, <1>6
  <2>2. CASE j \in DOMAIN evch /\ KeyAt(evch, j) /\ evch'[j] = evch[j]
    BY <2>1, <2>2 DEF Pipeline, KeysOrdered
  <2>3. CASE evch'[j].n = accepted + 1
    BY <1>1, <1>5, <2>1, <2>3
  <2> QED BY <1>6, <2>2, <2>3
<1>8. /\ \A i \in DOMAIN gEvents, j \in DOMAIN evch' :
           KeyAt(gEvents, i) /\ KeyAt(evch', j) => gEvents[i].n < evch'[j].n
      /\ KeyHeld => \A j \in DOMAIN evch' : KeyAt(evch', j) => pollerEv.n < evch'[j].n
      /\ \A i \in DOMAIN evch' : KeyAt(evch', i) => evch'[i].n \in lastKey + 1 .. accepted'
  <2> SUFFICES ASSUME NEW j \in DOMAIN evch', KeyAt(evch', j)
               PROVE  /\ \A i \in DOMAIN gEvents : KeyAt(gEvents, i) => gEvents[i].n < evch'[j].n
                      /\ KeyHeld => pollerEv.n < evch'[j].n
                      /\ evch'[j].n \in lastKey + 1 .. accepted'
    OBVIOUS
  <2>1. CASE j \in DOMAIN evch /\ KeyAt(evch, j) /\ evch'[j] = evch[j]
    BY <1>1, <1>5, <2>1 DEF Pipeline, KeysOrdered
  <2>2. CASE evch'[j].n = accepted + 1
    <3>1. \A n \in lastKey + 1 .. accepted : n < accepted + 1
      BY <1>1
    <3>2. accepted + 1 \in lastKey + 1 .. accepted'
      BY <1>1
    <3> QED BY <1>5, <2>2, <3>1, <3>2
  <2> QED BY <1>6, <2>1, <2>2
<1>9. KeysOrdered'
  BY <1>1, <1>4, <1>5, <1>7, <1>8 DEF Pipeline, KeysOrdered
<1>10. ASSUME NEW n \in lastKey' + 1 .. accepted' PROVE InFlight(n)'
  <2>1. CASE n = accepted + 1
    <3>1. Len(evch) + 1 \in DOMAIN evch' /\ evch'[Len(evch) + 1] = key
      BY <1>1, AppendPlaces
    <3> QED BY <2>1, <3>1 DEF InFlight, KeyAt
  <2>2. CASE n \in lastKey + 1 .. accepted
    <3>1. InFlight(n)
      BY <2>2 DEF Pipeline, KeysComplete
    <3> QED BY <1>1, <1>2, <1>4, <3>1 DEF InFlight, KeyAt
  <2> QED BY <1>1, <2>1, <2>2
<1> QED BY <1>9, <1>10 DEF Pipeline, KeysComplete

\* The first key of the screen's queue passes to the poller's hand.
LEMMA PollEventPipeline ==
  ASSUME TypeOK, Pipeline, PollEvent PROVE Pipeline'
<1>1. ~KeyHeld /\ pollerAt' = "send" /\ UNCHANGED <<gEvents, lastKey, accepted>>
  BY DEF PollEvent, KeyHeld, mainVars, queueVars
<1>2. CASE evch # <<>> /\ pollerEv' = Head(evch) /\ evch' = Tail(evch)
  <2>1. /\ 1 \in DOMAIN evch /\ pollerEv' = evch[1]
        /\ \A i \in DOMAIN evch' : i \in Int /\ i >= 1 /\ i + 1 \in DOMAIN evch /\ evch'[i] = evch[i + 1]
        /\ \A i \in DOMAIN evch : i = 1 \/ (i - 1 \in DOMAIN evch' /\ evch'[i - 1] = evch[i])
    <3>1. evch \in Seq(Event)
      BY DEF TypeOK
    <3> QED BY <1>2, <3>1, TailPlaces
  <2>2. KeyHeld' <=> KeyAt(evch, 1)
    BY <1>1, <2>1 DEF KeyHeld, KeyAt
  <2>3. \A i \in DOMAIN evch' : KeyAt(evch', i) => KeyAt(evch, i + 1) /\ 1 < i + 1
    BY <2>1 DEF KeyAt
  <2>4. KeysOrdered'
    BY <1>1, <2>1, <2>2, <2>3 DEF Pipeline, KeysOrdered
  <2>5. ASSUME NEW n \in lastKey' + 1 .. accepted' PROVE InFlight(n)'
    <3>1. InFlight(n)
      BY <1>1 DEF Pipeline, KeysComplete
    <3>2. CASE \E i \in DOMAIN gEvents : KeyAt(gEvents, i) /\ gEvents[i].n = n
      BY <1>1, <3>2 DEF InFlight
    <3>3. CASE \E i \in DOMAIN evch : KeyAt(evch, i) /\ evch[i].n = n
      BY <2>1, <2>2, <3>3 DEF InFlight, KeyAt
    <3> QED BY <1>1, <3>1, <3>2, <3>3 DEF InFlight
  <2> QED BY <2>4, <2>5 DEF Pipeline, KeysComplete
<1>3. CASE pollerEv' = Signal("none") /\ UNCHANGED evch
  <2>1. ~KeyHeld'
    BY <1>3 DEF KeyHeld, Signal
  <2> QED BY <1>1, <1>3, <2>1, NoKeyMovesStep DEF NoKeyMoves
<1> QED BY <1>2, <1>3 DEF PollEvent

\* The key in the poller's hand becomes the last of g.gEvents.
LEMMA PollerSendPipeline ==
  ASSUME TypeOK, Pipeline, PollerSend PROVE Pipeline'
<1>1. /\ gEvents \in Seq(Event) /\ pollerEv \in Event
      /\ gEvents' = Append(gEvents, pollerEv) /\ ~KeyHeld'
      /\ pollerAt = "send"
      /\ UNCHANGED <<evch, lastKey, accepted>>
  BY DEF TypeOK, PollerSend, mainVars, screenVars, KeyHeld
<1>2. \A i \in DOMAIN gEvents : /\ i \in DOMAIN gEvents' /\ gEvents'[i] = gEvents[i]
                                /\ i < Len(gEvents) + 1
  BY <1>1, AppendPlaces
<1>3. \A i \in DOMAIN gEvents' :
        i \in DOMAIN gEvents \/ (i = Len(gEvents) + 1 /\ gEvents'[i] = pollerEv)
  BY <1>1, AppendPlaces
<1>4. Len(gEvents) + 1 \in DOMAIN gEvents' /\ gEvents'[Len(gEvents) + 1] = pollerEv
  BY <1>1, AppendPlaces
<1>5. \A i \in DOMAIN gEvents' : KeyAt(gEvents', i) =>
        \/ i \in DOMAIN gEvents /\ KeyAt(gEvents, i) /\ gEvents'[i] = gEvents[i]
        \/ i = Len(gEvents) + 1 /\ KeyHeld /\ gEvents'[i] = pollerEv
  BY <1>1, <1>2, <1>3 DEF KeyAt, KeyHeld
<1>6. \A i, j \in DOMAIN gEvents' :
        KeyAt(gEvents', i) /\ KeyAt(gEvents', j) /\ i < j => gEvents'[i].n < gEvents'[j].n
  BY <1>2, <1>5 DEF Pipeline, KeysOrdered
<1>7. KeysOrdered'
  BY <1>1, <1>5, <1>6 DEF Pipeline, KeysOrdered
<1>8. ASSUME NEW n \in lastKey' + 1 .. accepted' PROVE InFlight(n)'
  <2>1. InFlight(n)
    BY <1>1 DEF Pipeline, KeysComplete
  <2> QED BY <1>1, <1>2, <1>4, <2>1 DEF InFlight, KeyAt, KeyHeld
<1> QED BY <1>7, <1>8 DEF Pipeline, KeysComplete

\* The first of g.gEvents, when it is a key, is the next one to be handled.
LEMMA HeadIsNext ==
  ASSUME TypeOK, Pipeline, gEvents # <<>>, Head(gEvents).type = "key"
  PROVE  Head(gEvents).n = lastKey + 1 /\ lastKey + 1 <= accepted
<1>1. gEvents \in Seq(Event) /\ lastKey \in Nat /\ accepted \in Nat
  BY DEF TypeOK
<1>2. 1 \in DOMAIN gEvents /\ Head(gEvents) = gEvents[1] /\ KeyAt(gEvents, 1)
  BY <1>1, TailPlaces DEF KeyAt
<1>3. \A i \in DOMAIN gEvents : i = 1 \/ 1 < i
  BY <1>1
<1> DEFINE h == gEvents[1].n
<1>4. h \in lastKey + 1 .. accepted
  BY <1>2 DEF Pipeline, KeysOrdered
<1>5. /\ \A i \in DOMAIN gEvents : KeyAt(gEvents, i) => i = 1 \/ h < gEvents[i].n
      /\ KeyHeld => h < pollerEv.n
      /\ \A i \in DOMAIN evch : KeyAt(evch, i) => h < evch[i].n
  BY <1>2, <1>3 DEF Pipeline, KeysOrdered
<1>6. lastKey + 1 \in lastKey + 1 .. accepted
  BY <1>1, <1>4
<1>7. InFlight(lastKey + 1)
  BY <1>6 DEF Pipeline, KeysComplete
<1>8. ~(h > lastKey + 1)
  <2> SUFFICES ASSUME h > lastKey + 1 PROVE FALSE
    OBVIOUS
  <2>1. \A i \in DOMAIN gEvents : KeyAt(gEvents, i) => gEvents[i].n # lastKey + 1
    BY <1>1, <1>4, <1>5 DEF Pipeline, KeysOrdered
  <2>2. KeyHeld => pollerEv.n # lastKey + 1
    BY <1>1, <1>4, <1>5 DEF Pipeline, KeysOrdered
  <2>3. \A i \in DOMAIN evch : KeyAt(evch, i) => evch[i].n # lastKey + 1
    BY <1>1, <1>4, <1>5 DEF Pipeline, KeysOrdered
  <2> QED BY <1>7, <2>1, <2>2, <2>3 DEF InFlight
<1> QED BY <1>1, <1>2, <1>4, <1>8

\* Receiving an event of g.gEvents: a key in front becomes the last one
\* handled, anything else leaves the order of the keys alone.
LEMMA ReceiveEventPipeline ==
  ASSUME TypeOK, Pipeline, ReceiveEvent PROVE Pipeline'
<1>1. /\ gEvents \in Seq(Event) /\ gEvents # <<>> /\ gEvents' = Tail(gEvents)
      /\ lastKey \in Nat /\ accepted \in Nat
      /\ UNCHANGED <<pollerAt, pollerEv, evch, accepted>>
  BY DEF TypeOK, ReceiveEvent, pollerVars, screenVars
<1>2. /\ 1 \in DOMAIN gEvents /\ Head(gEvents) = gEvents[1]
      /\ \A i \in DOMAIN gEvents' :
           i \in Int /\ i >= 1 /\ i + 1 \in DOMAIN gEvents /\ gEvents'[i] = gEvents[i + 1]
      /\ \A i \in DOMAIN gEvents :
           i = 1 \/ (i - 1 \in DOMAIN gEvents' /\ gEvents'[i - 1] = gEvents[i])
  BY <1>1, TailPlaces
<1>3. KeyHeld' <=> KeyHeld
  BY <1>1 DEF KeyHeld
<1>4. \A i \in DOMAIN gEvents' : KeyAt(gEvents', i) => KeyAt(gEvents, i + 1) /\ 1 < i + 1
  BY <1>2 DEF KeyAt
<1>5. \A i, j \in DOMAIN gEvents' :
        KeyAt(gEvents', i) /\ KeyAt(gEvents', j) /\ i < j => gEvents'[i].n < gEvents'[j].n
  BY <1>2, <1>4 DEF Pipeline, KeysOrdered
<1>6. CASE Head(gEvents).type = "key"
  <2>1. lastKey' = lastKey + 1 /\ gEvents[1].n = lastKey + 1 /\ KeyAt(gEvents, 1)
    BY <1>1, <1>2, <1>6, HeadIsNext DEF ReceiveEvent, KeyAt
  <2>2. /\ \A i \in DOMAIN gEvents' :
             KeyAt(gEvents', i) => gEvents'[i].n \in lastKey + 1 .. accepted /\ lastKey + 1 < gEvents'[i].n
        /\ KeyHeld => pollerEv.n \in lastKey + 1 .. accepted /\ lastKey + 1 < pollerEv.n
        /\ \A i \in DOMAIN evch :
             KeyAt(evch, i) => evch[i].n \in lastKey + 1 .. accepted /\ lastKey + 1 < evch[i].n
    BY <1>2, <1>4, <2>1 DEF Pipeline, KeysOrdered
  <2>3. \A m \in lastKey + 1 .. accepted : lastKey + 1 < m => m \in lastKey' + 1 .. accepted
    BY <1>1, <2>1
  <2>4. KeysOrdered'
    BY <1>1, <1>2, <1>3, <1>4, <1>5, <2>2, <2>3 DEF Pipeline, KeysOrdered
  <2>5. ASSUME NEW n \in lastKey' + 1 .. accepted' PROVE InFlight(n)'
    <3>1. n \in lastKey + 1 .. accepted /\ n # lastKey + 1
      BY <1>1, <2>1
    <3>2. InFlight(n)
      BY <3>1 DEF Pipeline, KeysComplete
    <3>3. ASSUME NEW i \in DOMAIN gEvents, KeyAt(gEvents, i), gEvents[i].n = n
          PROVE  i - 1 \in DOMAIN gEvents' /\ KeyAt(gEvents', i - 1) /\ gEvents'[i - 1].n = n
      BY <1>2, <2>1, <3>1, <3>3 DEF KeyAt
    <3> QED BY <1>1, <1>3, <3>2, <3>3 DEF InFlight
  <2> QED BY <2>4, <2>5 DEF Pipeline, KeysComplete
<1>7. CASE Head(gEvents).type # "key"
  <2>1. UNCHANGED lastKey /\ ~KeyAt(gEvents, 1)
    BY <1>2, <1>7 DEF ReceiveEvent, KeyAt
  <2>2. KeysOrdered'
    BY <1>1, <1>2, <1>3, <1>4, <1>5, <2>1 DEF Pipeline, KeysOrdered
  <2>3. ASSUME NEW n \in lastKey' + 1 .. accepted' PROVE InFlight(n)'
    <3>1. InFlight(n)
      BY <1>1, <2>1 DEF Pipeline, KeysComplete
    <3>2. ASSUME NEW i \in DOMAIN gEvents, KeyAt(gEvents, i), gEvents[i].n = n
          PROVE  i - 1 \in DOMAIN gEvents' /\ KeyAt(gEvents', i - 1) /\ gEvents'[i - 1].n = n
      BY <1>2, <2>1, <3>2 DEF KeyAt
    <3> QED BY <1>1, <1>3, <3>1, <3>2 DEF InFlight
  <2> QED BY <2>2, <2>3 DEF Pipeline, KeysComplete
<1> QED BY <1>6, <1>7

-----------------------------------------------------------------------------
(* Pipeline is not inductive by itself: it says nothing of the numbers     *)
(* when no key is in flight, and the next key accepted must come after the *)
(* last one handled.                                                       *)

PipelineInv == Pipeline /\ lastKey <= accepted

\* No key exists and none was handled.
LEMMA InitPipelineInv == Init => PipelineInv
BY InitPipeline DEF Init, PipelineInv

\* Every action moves a key to the next place, or none.
LEMMA PipelineInvStep ==
  TypeOK /\ MainInv /\ PipelineInv /\ [LoopStep]_loopVars => PipelineInv'
<1> SUFFICES ASSUME TypeOK, MainInv, Pipeline, lastKey <= accepted, [LoopStep]_loopVars
             PROVE  Pipeline' /\ lastKey' <= accepted'
  BY DEF PipelineInv
<1> USE DEF mainVars, queueVars, pollerVars, screenVars
<1>1. CASE ReceiveEvent
  <2>1. UNCHANGED lastKey \/ (lastKey' = Head(gEvents).n /\ Head(gEvents).type = "key")
    BY <1>1 DEF ReceiveEvent
  <2>2. gEvents # <<>> /\ UNCHANGED accepted
    BY <1>1 DEF ReceiveEvent
  <2> QED BY <1>1, <2>1, <2>2, ReceiveEventPipeline, HeadIsNext
<1>2. CASE PollEvent
  BY <1>2, PollEventPipeline DEF PollEvent
<1>3. CASE PollerSend
  BY <1>3, PollerSendPipeline DEF PollerSend
<1>4. CASE SendResize
  BY <1>4, SendResizePipeline DEF SendResize
<1>5. CASE AcceptKey
  <2>1. lastKey' = lastKey /\ accepted' = accepted + 1 /\ lastKey \in Nat /\ accepted \in Nat
    BY <1>5 DEF AcceptKey, TypeOK
  <2> QED BY <1>5, <2>1, AcceptKeyPipeline
<1>6. CASE PostTime \/ TermResize
  BY <1>6, SignalPipeline DEF PostTime, TermResize
<1>7. CASE DrawViews
  \* The poller that starts here was not running and held no key.
  <2>1. UNCHANGED <<evch, gEvents, lastKey, accepted, pollerEv>>
    BY <1>7 DEF DrawViews
  <2>2. UNCHANGED pollerAt \/ (pollerAt = "off" /\ pollerAt' = "select")
    BY <1>7 DEF DrawViews, MainInv, PollerInv
  <2>3. NoKeyMoves
    BY <2>1, <2>2 DEF NoKeyMoves, KeyHeld
  <2> QED BY <2>1, <2>3, NoKeyMovesStep
<1>8. CASE PollerStops \/ PollerDefault
  <2>1. /\ UNCHANGED <<evch, gEvents, lastKey, accepted, pollerEv>>
        /\ pollerAt = "select" /\ pollerAt' \in {"done", "poll"}
    BY <1>8 DEF PollerStops, PollerDefault
  <2>2. NoKeyMoves
    BY <2>1 DEF NoKeyMoves, KeyHeld
  <2> QED BY <2>1, <2>2, NoKeyMovesStep
<1>9. CASE UNCHANGED <<evch, gEvents, lastKey, accepted, pollerAt, pollerEv>>
  <2>1. NoKeyMoves
    BY <1>9 DEF NoKeyMoves, KeyHeld
  <2> QED BY <1>9, <2>1, NoKeyMovesStep
<1>10. ASSUME \/ StartMainLoop \/ RunManagers \/ ReceiveUserEvent \/ ReceiveStop
              \/ ConsumeEventsDone \/ NotifyDone \/ Notify \/ InlineUpdateAsync
              \/ SetFirstManager \/ LoaderTick
              \/ \E u \in Updates : Update(u) \/ UpdateAsync(u)
              \/ \E s \in Closers : Close(s) \/ StopperBlocks(s)
              \/ \E s \in Stoppers : SendStop(s)
              \/ UNCHANGED loopVars
       PROVE  UNCHANGED <<evch, gEvents, lastKey, accepted, pollerAt, pollerEv>>
  BY <1>10 DEF StartMainLoop, RunManagers, ReceiveUserEvent, ReceiveStop, ConsumeEventsDone,
               NotifyDone, Notify, InlineUpdateAsync, SetFirstManager, LoaderTick, Update,
               UpdateAsync, Close, StopperBlocks, SendStop, loopVars
<1> QED
  BY <1>1, <1>2, <1>3, <1>4, <1>5, <1>6, <1>7, <1>8, <1>9, <1>10
  DEF LoopStep, MainStep, PollerStep, OtherStep

\* The inductive invariant, with those it needs.
LEMMA PipelineInvariant == Spec => [](TypeOK /\ MainInv /\ PipelineInv)
BY MainInvariant, InitPipelineInv, PipelineInvStep, NextIsLoopStep, PTL DEF Spec

\* No key is lost, duplicated or overtaken between the screen and its handler.
THEOREM PipelineKeepsKeys == Spec => []Pipeline
<1>1. PipelineInv => Pipeline
  BY DEF PipelineInv
<1> QED BY <1>1, PipelineInvariant, PTL

-----------------------------------------------------------------------------
(* Refinement.                                                             *)

\* The first state is one of the service.
LEMMA InitService == Init => Service!Init
BY DEF Init, Service!Init

\* Every step is one of the service, or a stutter.
LEMMA StepService ==
  TypeOK /\ MainInv /\ PipelineInv /\ [Next]_loopVars => [Service!Next]_Service!vars
<1> SUFFICES ASSUME TypeOK, MainInv, Pipeline, [Next]_loopVars
             PROVE  Service!Next \/ UNCHANGED Service!vars
  BY DEF PipelineInv
<1> USE DEF mainVars, queueVars, pollerVars, screenVars
<1>1. CASE ReceiveEvent
  <2>1. loop # "returned" /\ gEvents # <<>> /\ UNCHANGED <<accepted, drawn>>
    BY <1>1 DEF ReceiveEvent, Receiving
  <2>2. CASE Head(gEvents).type = "key"
    <3>1. lastKey' = lastKey + 1 /\ lastKey + 1 <= accepted
      BY <1>1, <2>1, <2>2, HeadIsNext DEF ReceiveEvent
    <3>2. lastKey < accepted
      BY <3>1 DEF TypeOK
    <3> QED BY <2>1, <3>1, <3>2 DEF Service!Next, Service!Handle
  <2>3. CASE Head(gEvents).type # "key"
    <3>1. loop' = "consume" /\ UNCHANGED lastKey
      BY <1>1, <2>3 DEF ReceiveEvent
    <3> QED BY <2>1, <3>1 DEF Service!vars
  <2> QED BY <2>2, <2>3
<1>2. CASE DrawViews
  \* A view that cannot be drawn ends the loop.
  <2>1. /\ loop # "returned" /\ UNCHANGED <<accepted, lastKey>>
        /\ \/ loop' # "returned" /\ drawn' = lastKey
           \/ loop' = "returned" /\ UNCHANGED drawn
    BY <1>2 DEF DrawViews, AfterDraw
  <2> QED BY <2>1 DEF Service!Next, Service!Redraw, Service!Halt
<1>3. CASE AcceptKey
  BY <1>3 DEF AcceptKey, Service!Next, Service!Accept
<1>4. CASE RunManagers \/ ReceiveUserEvent \/ ReceiveStop
  \* These may end the loop and touch no key.
  <2>1. loop # "returned" /\ UNCHANGED <<accepted, lastKey, drawn>>
    BY <1>4 DEF RunManagers, ReceiveUserEvent, ReceiveStop, Receiving, AfterLayout
  <2> QED BY <2>1 DEF Service!Next, Service!Halt, Service!vars
<1>5. CASE StartMainLoop \/ ConsumeEventsDone \/ NotifyDone \/ InlineUpdateAsync
  <2>1. loop # "returned" /\ loop' # "returned" /\ UNCHANGED <<accepted, lastKey, drawn>>
    BY <1>5 DEF StartMainLoop, ConsumeEventsDone, NotifyDone, InlineUpdateAsync, MainInv, ResumeInv
  <2> QED BY <2>1 DEF Service!vars
<1>6. CASE PollerStep \/ OtherStep
  <2>1. UNCHANGED <<accepted, loop, lastKey, drawn>>
    BY <1>6 DEF PollerStep, PollerStops, PollerDefault, PollEvent, PollerSend, OtherStep,
                Update, UpdateAsync, SetFirstManager, SendResize, LoaderTick, TermResize, Close, StopperBlocks
  <2> QED BY <2>1 DEF Service!vars
<1>7. CASE UNCHANGED loopVars
  BY <1>7 DEF loopVars, Service!vars
<1> QED
  BY <1>1, <1>2, <1>3, <1>4, <1>5, <1>6, <1>7 DEF Next, MainStep

\* MainLoop, the poller and the channels implement the input service.
THEOREM ServiceImplemented == Spec => ImplementsInputService
BY PipelineInvariant, InitService, StepService, PTL
DEF Spec, ImplementsInputService, Service!Spec

-----------------------------------------------------------------------------
(* The harness.                                                            *)

\* A step of the program that no WaitSync makes.
GuiStep ==
  \/ StartMainLoop \/ MainStep \/ PollerStep \/ OtherStep \/ AcceptKey
  \/ (\E s \in Stoppers : SendStop(s))
  \/ UNCHANGED loopVars

\* The step lemmas about the loop hold for those steps.
LEMMA GuiIsLoopStep == GuiStep => [LoopStep]_loopVars
BY DEF GuiStep, LoopStep

\* The steps of the harness: those of WaitSync, and others that neither wait
\* nor stop to.
LEMMA TestSteps ==
  ASSUME [TestNext]_allVars,
         tester \in [Testers -> {"unstarted", "starting", "waitstart", "idle", "inject", "wait"}]
  PROVE  \/ /\ GuiStep /\ UNCHANGED <<covered, syncs, Waiting>> /\ refused' \in {refused, TRUE}
         \/ \E t \in Testers : PostSync(t)
         \/ \E t \in Testers : ReceiveNotify(t)
<1>1. CASE StartGui
  BY <1>1, TestersAssumption DEF StartGui, GuiStep, Waiting
<1>2. ASSUME NEW t \in Testers, TesterStep(t), ~PostSync(t), ~ReceiveNotify(t)
      PROVE  GuiStep /\ UNCHANGED <<covered, syncs, Waiting>> /\ refused' \in {refused, TRUE}
  <2>1. CASE Join(t)
    BY <2>1 DEF Join, GuiStep, Waiting
  <2>2. CASE \E n \in SendLens : Send(t, n)
    BY <2>2 DEF Send, GuiStep, Waiting
  <2>3. CASE Inject(t)
    BY <2>3 DEF Inject, GuiStep, Waiting
  <2> QED BY <1>2, <2>1, <2>2, <2>3 DEF TesterStep
<1>3. CASE \E s \in Cleanups : Cleanup(s)
  BY <1>3 DEF Cleanup, GuiStep, Stoppers, testVars, Waiting
<1>4. CASE (MainStep \/ PollerStep \/ OtherStep) /\ UNCHANGED testVars
  BY <1>4 DEF GuiStep, testVars, Waiting
<1>5. CASE UNCHANGED allVars
  BY <1>5 DEF allVars, GuiStep, testVars, Waiting
<1> QED BY <1>1, <1>2, <1>3, <1>4, <1>5 DEF TestNext

\* And for every step of the program with its harness.
LEMMA TestNextIsLoopStep == [TestNext]_allVars => [LoopStep]_loopVars
<1> SUFFICES ASSUME [TestNext]_allVars PROVE [LoopStep]_loopVars
  OBVIOUS
<1>1. CASE StartGui
  BY <1>1 DEF StartGui, LoopStep
<1>2. ASSUME NEW t \in Testers, TesterStep(t) PROVE [LoopStep]_loopVars
  BY <1>2 DEF TesterStep, Join, Send, Inject, PostSync, ReceiveNotify, LoopStep
<1>3. CASE \E s \in Cleanups : Cleanup(s)
  BY <1>3 DEF Cleanup, LoopStep, Stoppers
<1>4. CASE (MainStep \/ PollerStep \/ OtherStep) /\ UNCHANGED testVars
  BY <1>4 DEF LoopStep
<1>5. CASE UNCHANGED allVars
  BY <1>5 DEF allVars
<1> QED BY <1>1, <1>2, <1>3, <1>4, <1>5 DEF TestNext

-----------------------------------------------------------------------------
(* Types.  A tester that injects has a key left, which keeps left natural. *)

HasLeft == \A t \in Testers : tester[t] = "inject" => left[t] > 0

TestTypeInv == TestTypeOK /\ HasLeft

\* No tester has started.
LEMMA InitTestTypeInv == TestInit => TestTypeInv
<1> SUFFICES ASSUME TestInit PROVE TestTypeInv
  OBVIOUS
<1>1. TypeOK
  BY InitTypeOK DEF TestInit
<1>2. \A t \in Testers : tester[t] = "unstarted"
  BY DEF TestInit
<1>3. TestTypeOK
  BY <1>1 DEF TestInit, TestTypeOK
<1> QED BY <1>2, <1>3 DEF TestTypeInv, HasLeft

\* Every step keeps the types and a key for the tester that injects.
LEMMA TestTypeStep == TestTypeInv /\ [TestNext]_allVars => TestTypeInv'
<1> SUFFICES ASSUME TestTypeInv, [TestNext]_allVars PROVE TestTypeInv'
  OBVIOUS
<1>1. TypeOK'
  BY TypeOKStep, TestNextIsLoopStep DEF TestTypeInv, TestTypeOK
<1> USE DEF TestTypeInv, TestTypeOK, HasLeft
<1>2. CASE StartGui
  BY <1>1, <1>2 DEF StartGui
<1>3. ASSUME NEW t \in Testers, TesterStep(t) PROVE TestTypeInv'
  <2>1. CASE Join(t)
    BY <1>1, <2>1 DEF Join
  <2>2. CASE \E n \in SendLens : Send(t, n)
    <3> PICK n \in SendLens : Send(t, n)
      BY <2>2
    <3>1. n \in Nat /\ n > 0
      BY TestersAssumption DEF Send
    <3>2. left' = [left EXCEPT ![t] = n] /\ left' \in [Testers -> Nat]
      BY <3>1 DEF Send
    <3> QED BY <1>1, <3>1, <3>2 DEF Send
  <2>3. CASE Inject(t)
    <3>1. left[t] \in Nat /\ left[t] > 0 /\ left' = [left EXCEPT ![t] = left[t] - 1]
      BY <2>3 DEF Inject
    <3>2. left' \in [Testers -> Nat]
      BY <3>1
    <3>3. /\ UNCHANGED <<covered, syncs>> /\ refused' \in BOOLEAN
          /\ tester' = [tester EXCEPT ![t] = IF left[t] = 1 THEN "idle" ELSE "inject"]
      BY <2>3 DEF Inject
    <3>4. HasLeft'
      BY <3>1, <3>3
    <3> QED BY <1>1, <3>2, <3>3, <3>4
  <2>4. CASE PostSync(t)
    <3>1. accepted \in Nat
      BY DEF TypeOK
    <3>2. covered' \in [Testers -> Nat] /\ syncs' \in [Testers -> Nat] /\ UNCHANGED left
      BY <2>4, <3>1 DEF PostSync
    <3>3. refused' \in BOOLEAN
      BY <2>4 DEF PostSync
    <3>4. \E at \in {"wait", "waitstart"} : tester' = [tester EXCEPT ![t] = at]
      BY <2>4 DEF PostSync
    <3> QED BY <1>1, <3>2, <3>3, <3>4
  <2>5. CASE ReceiveNotify(t)
    BY <1>1, <2>5 DEF ReceiveNotify
  <2> QED BY <1>3, <2>1, <2>2, <2>3, <2>4, <2>5 DEF TesterStep
<1>4. CASE \E s \in Cleanups : Cleanup(s)
  BY <1>1, <1>4 DEF Cleanup, testVars
<1>5. CASE (MainStep \/ PollerStep \/ OtherStep) /\ UNCHANGED testVars
  BY <1>1, <1>5 DEF testVars
<1>6. CASE UNCHANGED allVars
  BY <1>1, <1>6 DEF allVars, testVars
<1> QED BY <1>2, <1>3, <1>4, <1>5, <1>6 DEF TestNext

\* The invariant of the types.
LEMMA TestTypeInvariant == TestSpec => []TestTypeInv
BY InitTestTypeInv, TestTypeStep, PTL DEF TestSpec

\* Type correctness of the harness.
THEOREM TestTypeCorrect == TestSpec => []TestTypeOK
<1>1. TestTypeInv => TestTypeOK
  BY DEF TestTypeInv
<1> QED BY <1>1, TestTypeInvariant, PTL

-----------------------------------------------------------------------------
(* Time events.  Each one is on its way or counted, and the counter is     *)
(* zero where flush resets it: no event is received before.                *)

Times == {e \in Event : e.type = "time"}
TimeHeld == pollerAt = "send" /\ pollerEv.type = "time"
TimesHeld == IF TimeHeld THEN 1 ELSE 0
Tokens == testCounter + Count(gEvents, Times) + Count(evch, Times) + TimesHeld

BeforeReset ==
  loop \in {"new", "layout1", "draw1", "layout2", "draw2"}
    \/ (loop = "async" /\ resume \in {"draw1", "draw2"})
CounterInv == BeforeReset => testCounter = 0

\* Only the flushes before the loop come before the reset, and they count nothing.
LEMMA CounterStep ==
  TypeOK /\ MainInv /\ CounterInv /\ [LoopStep]_loopVars => CounterInv'
<1> SUFFICES ASSUME TypeOK, MainInv, CounterInv, [LoopStep]_loopVars, BeforeReset'
             PROVE  testCounter' = 0
  BY DEF CounterInv
<1> USE DEF mainVars
<1>1. CASE StartMainLoop
  BY <1>1 DEF StartMainLoop, CounterInv, BeforeReset
<1>2. CASE RunManagers
  <2>1. Callback(AfterLayout[loop], updates) /\ UNCHANGED testCounter
    BY <1>2 DEF RunManagers
  <2>2. \/ loop = "layout1" /\ AfterLayout[loop] = "draw1"
        \/ loop = "layout2" /\ AfterLayout[loop] = "draw2"
        \/ loop = "layout" /\ AfterLayout[loop] = "draw"
    BY <1>2 DEF RunManagers, AfterLayout
  <2>3. \/ loop' = "async" /\ resume' = AfterLayout[loop]
        \/ loop' \in {AfterLayout[loop], "returned"} /\ resume' = resume
    BY <2>1, CallbackControl
  <2> QED BY <2>1, <2>2, <2>3 DEF CounterInv, BeforeReset
<1>3. CASE DrawViews
  BY <1>3 DEF DrawViews, AfterDraw, CounterInv, BeforeReset
<1>4. CASE ReceiveEvent
  <2>1. \/ loop' = "async" /\ resume' = "consume"
        \/ loop' \in {"consume", "returned"} /\ resume' = resume
    BY <1>4, CallbackControl DEF ReceiveEvent
  <2> QED BY <2>1 DEF BeforeReset
<1>5. CASE ReceiveUserEvent
  <2>1. \/ loop' = "async" /\ resume' = "consume"
        \/ loop' \in {"consume", "returned"} /\ resume' = resume
    BY <1>5, CallbackControl DEF ReceiveUserEvent
  <2> QED BY <2>1 DEF BeforeReset
<1>6. CASE ReceiveStop \/ ConsumeEventsDone \/ NotifyDone
  BY <1>6 DEF ReceiveStop, ConsumeEventsDone, NotifyDone, BeforeReset
<1>7. CASE InlineUpdateAsync
  BY <1>7 DEF InlineUpdateAsync, MainInv, ResumeInv, CounterInv, BeforeReset
<1>8. CASE Notify
  BY <1>8 DEF Notify, BeforeReset
<1>9. CASE UNCHANGED <<loop, resume, testCounter>>
  BY <1>9 DEF CounterInv, BeforeReset
<1>10. ASSUME \/ PollerStep \/ OtherStep \/ AcceptKey \/ PostTime
              \/ \E s \in Stoppers : SendStop(s)
              \/ UNCHANGED loopVars
       PROVE  UNCHANGED <<loop, resume, testCounter>>
  BY <1>10 DEF PollerStep, PollerStops, PollerDefault, PollEvent, PollerSend, OtherStep, Update,
               UpdateAsync, SetFirstManager, SendResize, LoaderTick, TermResize, Close, StopperBlocks,
               AcceptKey, PostTime, SendStop, loopVars
<1> QED
  BY <1>1, <1>2, <1>3, <1>4, <1>5, <1>6, <1>7, <1>8, <1>9, <1>10 DEF LoopStep, MainStep

\* The counts are numbers.
LEMMA TokensType ==
  ASSUME TypeOK
  PROVE  /\ Count(gEvents, Times) \in Nat /\ Count(evch, Times) \in Nat
         /\ testCounter \in Nat /\ TimesHeld \in Nat /\ Tokens \in Nat
<1>1. Count(gEvents, Times) \in Nat /\ Count(evch, Times) \in Nat
  BY CountType DEF TypeOK
<1>2. testCounter \in Nat /\ TimesHeld \in Nat
  BY DEF TypeOK, TimesHeld
<1> QED BY <1>1, <1>2 DEF Tokens

\* Sending an event on a queue and receiving it there keep the count.
LEMMA TimesSent ==
  ASSUME NEW s \in Seq(Event), NEW e \in Event
  PROVE  Count(Append(s, e), Times) = Count(s, Times) + (IF e.type = "time" THEN 1 ELSE 0)
<1>1. e \in Times <=> e.type = "time"
  BY DEF Times
<1>2. Count(Append(s, e), Times) = Count(s, Times) + (IF e \in Times THEN 1 ELSE 0)
  BY CountAppend
<1> QED BY <1>1, <1>2

\* Taking the head of a channel takes its time event, if it is one.
LEMMA TimesReceived ==
  ASSUME NEW s \in Seq(Event), s # <<>>
  PROVE  Count(Tail(s), Times) = Count(s, Times) - (IF Head(s).type = "time" THEN 1 ELSE 0)
<1>1. Head(s) \in Times <=> Head(s).type = "time"
  BY DEF Times
<1>2. Count(Tail(s), Times) = Count(s, Times) - (IF Head(s) \in Times THEN 1 ELSE 0)
  BY CountTail
<1> QED BY <1>1, <1>2

\* No step outside WaitSync makes or takes a time event.
LEMMA TokensStay ==
  ASSUME TypeOK, MainInv, CounterInv, GuiStep PROVE Tokens' = Tokens
<1> DEFINE g == Count(gEvents, Times)
           e == Count(evch, Times)
<1>a. g \in Nat /\ e \in Nat /\ testCounter \in Nat /\ TimesHeld \in Nat
  BY TokensType
<1> HIDE DEF g, e
<1> USE DEF mainVars, queueVars, pollerVars, screenVars
<1>1. CASE ReceiveEvent
  <2>1. gEvents \in Seq(Event) /\ gEvents # <<>> /\ gEvents' = Tail(gEvents)
    BY <1>1 DEF ReceiveEvent, TypeOK
  <2>2. g' = g - (IF Head(gEvents).type = "time" THEN 1 ELSE 0)
    BY <2>1, TimesReceived DEF g
  <2>3. testCounter' = testCounter + (IF Head(gEvents).type = "time" THEN 1 ELSE 0)
    BY <1>1, <1>a DEF ReceiveEvent
  <2>4. e' = e /\ TimesHeld' = TimesHeld
    BY <1>1 DEF ReceiveEvent, e, TimesHeld, TimeHeld
  <2> QED BY <1>a, <2>2, <2>3, <2>4 DEF Tokens, g, e
<1>2. CASE PollEvent
  <2>1. g' = g /\ testCounter' = testCounter /\ TimesHeld = 0 /\ pollerAt' = "send"
    BY <1>2 DEF PollEvent, g, TimesHeld, TimeHeld
  <2>2. CASE evch # <<>> /\ pollerEv' = Head(evch) /\ evch' = Tail(evch)
    <3>1. e' = e - (IF Head(evch).type = "time" THEN 1 ELSE 0)
      BY <2>2, TimesReceived DEF TypeOK, e
    <3>2. TimesHeld' = IF Head(evch).type = "time" THEN 1 ELSE 0
      BY <2>1, <2>2 DEF TimesHeld, TimeHeld
    <3> QED BY <1>a, <2>1, <3>1, <3>2 DEF Tokens, g, e
  <2>3. CASE pollerEv' = Signal("none") /\ UNCHANGED evch
    <3>1. e' = e /\ TimesHeld' = 0
      BY <2>3 DEF TimesHeld, TimeHeld, Signal, e
    <3> QED BY <1>a, <2>1, <3>1 DEF Tokens, g, e
  <2> QED BY <1>2, <2>2, <2>3 DEF PollEvent
<1>3. CASE PollerSend
  <2>1. /\ gEvents \in Seq(Event) /\ pollerEv \in Event /\ gEvents' = Append(gEvents, pollerEv)
        /\ pollerAt = "send"
    BY <1>3 DEF PollerSend, TypeOK
  <2>2. g' = g + (IF pollerEv.type = "time" THEN 1 ELSE 0)
    BY <2>1, TimesSent DEF g
  <2>3. TimesHeld = (IF pollerEv.type = "time" THEN 1 ELSE 0) /\ TimesHeld' = 0
    BY <1>3, <2>1 DEF PollerSend, TimesHeld, TimeHeld
  <2>4. e' = e /\ testCounter' = testCounter
    BY <1>3 DEF PollerSend, e
  <2> QED BY <1>a, <2>2, <2>3, <2>4 DEF Tokens, g, e
<1>4. CASE SendResize
  <2>1. /\ gEvents \in Seq(Event) /\ Signal("resize") \in Event /\ Signal("resize").type # "time"
        /\ gEvents' = Append(gEvents, Signal("resize"))
    BY <1>4 DEF SendResize, TypeOK, Signal, Event
  <2>2. g' = g + 0
    BY <2>1, TimesSent DEF g
  <2>3. e' = e /\ testCounter' = testCounter /\ TimesHeld' = TimesHeld
    BY <1>4 DEF SendResize, e, TimesHeld, TimeHeld
  <2>4. Tokens = testCounter + g + e + TimesHeld
    BY DEF Tokens, g, e
  <2>5. Tokens' = testCounter' + g' + e' + TimesHeld'
    BY DEF Tokens, g, e
  <2> HIDE DEF g, e
  <2> QED BY <1>a, <2>2, <2>3, <2>4, <2>5
<1>5. CASE AcceptKey \/ TermResize
  <2>1. PICK ev \in Event : ev.type # "time" /\ evch' = Append(evch, ev)
    <3>1. PICK x : /\ x = [type |-> "key", n |-> accepted + 1] \/ x = Signal("resize")
                   /\ evch' = Append(evch, x)
      BY <1>5 DEF AcceptKey, TermResize
    <3>2. x \in Event /\ x.type # "time"
      BY <3>1 DEF TypeOK, Signal, Event
    <3> QED BY <3>1, <3>2
  <2>2. e' = e + 0
    BY <2>1, TimesSent DEF TypeOK, e
  <2>3. g' = g /\ testCounter' = testCounter /\ TimesHeld' = TimesHeld
    BY <1>5 DEF AcceptKey, TermResize, g, TimesHeld, TimeHeld
  <2> QED BY <1>a, <2>2, <2>3 DEF Tokens, g, e
<1>6. CASE DrawViews
  <2>1. testCounter' = testCounter
    BY <1>6 DEF DrawViews, CounterInv, BeforeReset
  <2>2. TimesHeld' = TimesHeld
    BY <1>6 DEF DrawViews, MainInv, PollerInv, TimesHeld, TimeHeld
  <2>3. g' = g /\ e' = e
    BY <1>6 DEF DrawViews, g, e
  <2> QED BY <2>1, <2>2, <2>3 DEF Tokens, g, e
<1>7. CASE PollerStops \/ PollerDefault
  <2>1. TimesHeld' = TimesHeld
    BY <1>7 DEF PollerStops, PollerDefault, TimesHeld, TimeHeld
  <2>2. g' = g /\ e' = e /\ testCounter' = testCounter
    BY <1>7 DEF PollerStops, PollerDefault, g, e
  <2> QED BY <2>1, <2>2 DEF Tokens, g, e
<1>8. CASE UNCHANGED <<gEvents, evch, pollerAt, pollerEv, testCounter>>
  BY <1>8 DEF Tokens, TimesHeld, TimeHeld
<1>9. ASSUME \/ StartMainLoop \/ RunManagers \/ ReceiveUserEvent \/ ReceiveStop
             \/ ConsumeEventsDone \/ NotifyDone \/ InlineUpdateAsync
             \/ SetFirstManager \/ LoaderTick
             \/ \E u \in Updates : Update(u) \/ UpdateAsync(u)
             \/ \E s \in Closers : Close(s) \/ StopperBlocks(s)
             \/ \E s \in Stoppers : SendStop(s)
             \/ UNCHANGED loopVars
      PROVE  UNCHANGED <<gEvents, evch, pollerAt, pollerEv, testCounter>>
  BY <1>9 DEF StartMainLoop, RunManagers, ReceiveUserEvent, ReceiveStop, ConsumeEventsDone,
              NotifyDone, InlineUpdateAsync, SetFirstManager, LoaderTick, Update,
              UpdateAsync, Close, StopperBlocks, SendStop, loopVars
<1> QED
  BY <1>1, <1>2, <1>3, <1>4, <1>5, <1>6, <1>7, <1>8, <1>9
  DEF GuiStep, MainStep, PollerStep, OtherStep

-----------------------------------------------------------------------------
(* A time event is late enough for the keys up to c when they are all      *)
(* before it: handled, or ahead of it on the way.                          *)

KeysAfter(c, s, i) == \A j \in DOMAIN s : i < j /\ KeyAt(s, j) => c < s[j].n
ScreenAfter(c) == \A j \in DOMAIN evch : KeyAt(evch, j) => c < evch[j].n

LateInQueue(c) ==
  /\ \E i \in DOMAIN gEvents : gEvents[i].type = "time" /\ KeysAfter(c, gEvents, i)
  /\ KeyHeld => c < pollerEv.n
  /\ ScreenAfter(c)
LateInHand(c) == TimeHeld /\ ScreenAfter(c)
LateOnScreen(c) == \E i \in DOMAIN evch : evch[i].type = "time" /\ KeysAfter(c, evch, i)
LateCounted(c) == testCounter > 0 /\ lastKey >= c

Late(c) == LateInQueue(c) \/ LateInHand(c) \/ LateOnScreen(c) \/ LateCounted(c)

\* When a late event is received, the keys up to c have all been handled.
LEMMA HeadIsLate ==
  ASSUME TypeOK, Pipeline, NEW c \in Nat, c <= accepted,
         gEvents # <<>>, Head(gEvents).type = "time", KeysAfter(c, gEvents, 1),
         KeyHeld => c < pollerEv.n, ScreenAfter(c)
  PROVE  lastKey >= c
<1> SUFFICES ASSUME ~(lastKey >= c) PROVE FALSE
  OBVIOUS
<1>1. lastKey \in Nat /\ accepted \in Nat /\ gEvents \in Seq(Event) /\ pollerEv \in Event
  BY DEF TypeOK
<1>2. c \in lastKey + 1 .. accepted
  BY <1>1
<1>3. InFlight(c)
  BY <1>2 DEF Pipeline, KeysComplete
<1>4. Head(gEvents) = gEvents[1] /\ \A i \in DOMAIN gEvents : i = 1 \/ 1 < i
  BY <1>1
<1>5. \A i \in DOMAIN gEvents : KeyAt(gEvents, i) => c < gEvents[i].n
  BY <1>4 DEF KeysAfter, KeyAt
<1>6. \A n \in Nat : ~(n < n)
  OBVIOUS
<1> QED BY <1>3, <1>5, <1>6 DEF InFlight, ScreenAfter

\* The event that is late stays so on its way, and when it is counted the
\* views are drawn before it is answered.
LEMMA LateStays ==
  ASSUME TypeOK, MainInv, Pipeline, drawn <= lastKey, GuiStep,
         NEW c \in Nat, c <= accepted, drawn >= c \/ Late(c)
  PROVE  drawn' >= c \/ Late(c)'
<1> USE DEF mainVars, queueVars, pollerVars, screenVars
<1>t. /\ gEvents \in Seq(Event) /\ evch \in Seq(Event) /\ pollerEv \in Event
      /\ lastKey \in Nat /\ drawn \in Nat /\ testCounter \in Nat /\ accepted \in Nat
  BY DEF TypeOK
<1>1. CASE ReceiveEvent
  <2>1. /\ gEvents # <<>> /\ gEvents' = Tail(gEvents)
        /\ UNCHANGED <<drawn, evch, pollerAt, pollerEv>>
    BY <1>1 DEF ReceiveEvent
  <2>2. /\ \/ lastKey' = lastKey
           \/ lastKey' = Head(gEvents).n /\ Head(gEvents).type = "key"
        /\ \/ testCounter' = testCounter
           \/ testCounter' = testCounter + 1
        /\ Head(gEvents).type = "time" => lastKey' = lastKey /\ testCounter' = testCounter + 1
    BY <1>1 DEF ReceiveEvent
  <2>3. lastKey' >= lastKey /\ lastKey' \in Nat /\ testCounter' \in Nat /\ testCounter' >= testCounter
    BY <1>t, <2>1, <2>2, HeadIsNext
  <2>4. /\ 1 \in DOMAIN gEvents /\ Head(gEvents) = gEvents[1]
        /\ \A i \in DOMAIN gEvents' : i \in Int /\ i + 1 \in DOMAIN gEvents /\ gEvents'[i] = gEvents[i + 1]
        /\ \A i \in DOMAIN gEvents :
             i \in Int /\ (i = 1 \/ (i - 1 \in DOMAIN gEvents' /\ gEvents'[i - 1] = gEvents[i]))
    BY <1>t, <2>1, TailPlaces
  <2>5. CASE LateInQueue(c)
    <3> PICK i \in DOMAIN gEvents : gEvents[i].type = "time" /\ KeysAfter(c, gEvents, i)
      BY <2>5 DEF LateInQueue
    <3>1. CASE i = 1
      <4>1. lastKey >= c
        BY <2>1, <2>4, <2>5, <3>1, HeadIsLate DEF LateInQueue
      <4>2. testCounter' > 0 /\ lastKey' >= c
        BY <1>t, <2>2, <2>4, <3>1, <4>1
      <4> QED BY <4>2 DEF Late, LateCounted
    <3>2. CASE i # 1
      <4>1. i - 1 \in DOMAIN gEvents' /\ gEvents'[i - 1].type = "time"
        BY <2>4, <3>2
      <4>2. KeysAfter(c, gEvents', i - 1)
        BY <2>4 DEF KeysAfter, KeyAt
      <4> QED BY <2>1, <2>5, <4>1, <4>2 DEF Late, LateInQueue, KeyHeld, ScreenAfter
    <3> QED BY <3>1, <3>2
  <2>6. CASE LateInHand(c) \/ LateOnScreen(c)
    BY <2>1, <2>6 DEF Late, LateInHand, LateOnScreen, TimeHeld, ScreenAfter
  <2>7. CASE LateCounted(c)
    <3>1. testCounter' > 0 /\ lastKey' >= c
      BY <1>t, <2>3, <2>7 DEF LateCounted
    <3> QED BY <3>1 DEF Late, LateCounted
  <2> QED BY <2>1, <2>5, <2>6, <2>7 DEF Late
<1>2. CASE PollEvent
  <2>1. /\ UNCHANGED <<drawn, gEvents, lastKey, testCounter>>
        /\ ~KeyHeld /\ ~TimeHeld /\ pollerAt' = "send"
    BY <1>2 DEF PollEvent, KeyHeld, TimeHeld
  <2>2. CASE pollerEv' = Signal("none") /\ UNCHANGED evch
    BY <2>1, <2>2 DEF Late, LateInQueue, LateInHand, LateOnScreen, LateCounted, ScreenAfter, KeyHeld, Signal
  <2>3. CASE evch # <<>> /\ pollerEv' = Head(evch) /\ evch' = Tail(evch)
    <3>1. /\ 1 \in DOMAIN evch /\ pollerEv' = evch[1]
          /\ \A i \in DOMAIN evch' :
               i \in Int /\ i >= 1 /\ i + 1 \in DOMAIN evch /\ evch'[i] = evch[i + 1]
          /\ \A i \in DOMAIN evch :
               i \in Int /\ (i = 1 \/ (i - 1 \in DOMAIN evch' /\ evch'[i - 1] = evch[i]))
      BY <1>t, <2>3, TailPlaces
    <3>2. CASE LateInQueue(c)
      <4>1. KeyHeld' => c < pollerEv'.n
        BY <3>1, <3>2 DEF LateInQueue, ScreenAfter, KeyHeld, KeyAt
      <4>2. ScreenAfter(c)'
        BY <3>1, <3>2 DEF LateInQueue, ScreenAfter, KeyAt
      <4> QED BY <2>1, <3>2, <4>1, <4>2 DEF Late, LateInQueue
    <3>3. CASE LateOnScreen(c)
      <4> PICK i \in DOMAIN evch : evch[i].type = "time" /\ KeysAfter(c, evch, i)
        BY <3>3 DEF LateOnScreen
      <4>1. CASE i = 1
        <5>1. ScreenAfter(c)'
          BY <3>1, <4>1 DEF ScreenAfter, KeysAfter, KeyAt
        <5>2. TimeHeld'
          BY <2>1, <3>1, <4>1 DEF TimeHeld
        <5> QED BY <5>1, <5>2 DEF Late, LateInHand
      <4>2. CASE i # 1
        <5>1. i - 1 \in DOMAIN evch' /\ evch'[i - 1].type = "time"
          BY <3>1, <4>2
        <5>2. KeysAfter(c, evch', i - 1)
          BY <3>1 DEF KeysAfter, KeyAt
        <5> QED BY <5>1, <5>2 DEF Late, LateOnScreen
      <4> QED BY <4>1, <4>2
    <3>4. CASE drawn >= c \/ LateCounted(c)
      BY <2>1, <3>4 DEF Late, LateCounted
    <3> QED BY <2>1, <3>2, <3>3, <3>4 DEF Late, LateInHand
  <2> QED BY <1>2, <2>2, <2>3 DEF PollEvent
<1>3. CASE PollerSend
  <2>1. /\ gEvents' = Append(gEvents, pollerEv) /\ pollerAt = "send" /\ ~KeyHeld'
        /\ UNCHANGED <<drawn, evch, lastKey, testCounter>>
    BY <1>3 DEF PollerSend, KeyHeld
  <2>2. /\ \A i \in DOMAIN gEvents : /\ i \in DOMAIN gEvents' /\ gEvents'[i] = gEvents[i]
                                     /\ i < Len(gEvents) + 1
        /\ \A i \in DOMAIN gEvents' :
             i \in DOMAIN gEvents \/ (i = Len(gEvents) + 1 /\ gEvents'[i] = pollerEv)
        /\ Len(gEvents) + 1 \in DOMAIN gEvents' /\ gEvents'[Len(gEvents) + 1] = pollerEv
    BY <1>t, <2>1, AppendPlaces
  <2>3. CASE LateInQueue(c)
    <3> PICK i \in DOMAIN gEvents : gEvents[i].type = "time" /\ KeysAfter(c, gEvents, i)
      BY <2>3 DEF LateInQueue
    <3>1. KeysAfter(c, gEvents', i)
      BY <2>1, <2>2, <2>3 DEF LateInQueue, KeysAfter, KeyAt, KeyHeld
    <3> QED BY <2>1, <2>2, <2>3, <3>1 DEF Late, LateInQueue, ScreenAfter
  <2>4. CASE LateInHand(c)
    <3>1. KeysAfter(c, gEvents', Len(gEvents) + 1)
      <4>1. \A j \in DOMAIN gEvents' : ~(Len(gEvents) + 1 < j)
        BY <1>t, <2>1
      <4> QED BY <4>1 DEF KeysAfter
    <3> QED BY <2>1, <2>2, <2>4, <3>1 DEF Late, LateInHand, LateInQueue, TimeHeld, ScreenAfter
  <2>5. CASE drawn >= c \/ LateOnScreen(c) \/ LateCounted(c)
    BY <2>1, <2>5 DEF Late, LateOnScreen, LateCounted
  <2> QED BY <2>3, <2>4, <2>5 DEF Late
<1>4. CASE SendResize
  <2>1. /\ gEvents' = Append(gEvents, Signal("resize")) /\ Signal("resize") \in Event
        /\ Signal("resize").type # "key"
        /\ UNCHANGED <<drawn, evch, lastKey, testCounter, pollerAt, pollerEv>>
    BY <1>4 DEF SendResize, Signal, Event
  <2>2. /\ \A i \in DOMAIN gEvents : i \in DOMAIN gEvents' /\ gEvents'[i] = gEvents[i]
        /\ \A i \in DOMAIN gEvents' : KeyAt(gEvents', i) => i \in DOMAIN gEvents
    BY <1>t, <2>1, AppendPlaces DEF KeyAt
  <2>3. \A i : KeysAfter(c, gEvents, i) => KeysAfter(c, gEvents', i)
    BY <2>2 DEF KeysAfter, KeyAt
  <2>4. LateInQueue(c) => LateInQueue(c)'
    BY <2>1, <2>2, <2>3 DEF LateInQueue, KeyHeld, ScreenAfter
  <2>5. LateInHand(c) \/ LateOnScreen(c) \/ LateCounted(c) => Late(c)'
    BY <2>1 DEF Late, LateInHand, LateOnScreen, LateCounted, TimeHeld, ScreenAfter
  <2> QED BY <2>1, <2>4, <2>5 DEF Late
<1>5. CASE AcceptKey \/ TermResize
  <2>1. PICK ev \in Event : /\ evch' = Append(evch, ev)
                            /\ ev.type = "key" => ev.n = accepted + 1
    BY <1>5, <1>t DEF AcceptKey, TermResize, Signal, Event
  <2>2. UNCHANGED <<drawn, gEvents, lastKey, testCounter, pollerAt, pollerEv>>
    BY <1>5 DEF AcceptKey, TermResize
  <2>3. /\ \A i \in DOMAIN evch : i \in DOMAIN evch' /\ evch'[i] = evch[i]
        /\ \A i \in DOMAIN evch' : i \in DOMAIN evch \/ (i = Len(evch) + 1 /\ evch'[i] = ev)
    BY <1>t, <2>1, AppendPlaces
  <2>4. \A i \in DOMAIN evch' : KeyAt(evch', i) =>
          c < evch'[i].n \/ (i \in DOMAIN evch /\ KeyAt(evch, i) /\ evch'[i] = evch[i])
    BY <1>t, <2>1, <2>3 DEF KeyAt
  <2>5. \A i : KeysAfter(c, evch, i) => KeysAfter(c, evch', i)
    BY <2>4 DEF KeysAfter
  <2>6. ScreenAfter(c) => ScreenAfter(c)'
    BY <2>4 DEF ScreenAfter
  <2>7. LateOnScreen(c) => LateOnScreen(c)'
    BY <2>3, <2>5 DEF LateOnScreen
  <2>8. LateInQueue(c) \/ LateInHand(c) \/ LateCounted(c) => Late(c)'
    BY <2>2, <2>6 DEF Late, LateInQueue, LateInHand, LateCounted, TimeHeld, KeyHeld
  <2> QED BY <2>2, <2>7, <2>8 DEF Late
<1>6. CASE DrawViews
  <2>1. CASE UNCHANGED <<drawn, pollerAt, testCounter>>
    <3>1. UNCHANGED <<gEvents, evch, lastKey, pollerEv>>
      BY <1>6 DEF DrawViews
    <3> QED BY <2>1, <3>1 DEF Late, LateInQueue, LateInHand, LateOnScreen, LateCounted, ScreenAfter, KeyHeld, TimeHeld
  <2>2. CASE drawn' = lastKey /\ (UNCHANGED pollerAt \/ (pollerAt = "off" /\ pollerAt' = "select"))
    <3>1. UNCHANGED <<gEvents, evch, lastKey, pollerEv>>
      BY <1>6 DEF DrawViews
    <3>2. drawn >= c \/ LateCounted(c) => drawn' >= c
      BY <1>t, <2>2 DEF LateCounted
    <3>3. LateInQueue(c) \/ LateInHand(c) \/ LateOnScreen(c) => Late(c)'
      BY <2>2, <3>1 DEF Late, LateInQueue, LateInHand, LateOnScreen, TimeHeld, KeyHeld, ScreenAfter
    <3> QED BY <3>2, <3>3 DEF Late
  <2> QED BY <1>6, <2>1, <2>2 DEF DrawViews, MainInv, PollerInv
<1>7. CASE PollerStops \/ PollerDefault
  <2>1. UNCHANGED <<drawn, gEvents, evch, lastKey, testCounter, pollerEv>>
    BY <1>7 DEF PollerStops, PollerDefault
  <2>2. ~KeyHeld' /\ ~TimeHeld
    BY <1>7 DEF PollerStops, PollerDefault, KeyHeld, TimeHeld
  <2> QED BY <2>1, <2>2 DEF Late, LateInQueue, LateInHand, LateOnScreen, LateCounted, ScreenAfter
<1>8. CASE UNCHANGED <<drawn, gEvents, evch, lastKey, testCounter, pollerAt, pollerEv>>
  BY <1>8 DEF Late, LateInQueue, LateInHand, LateOnScreen, LateCounted, ScreenAfter, KeyHeld, TimeHeld
<1>9. ASSUME \/ StartMainLoop \/ RunManagers \/ ReceiveUserEvent \/ ReceiveStop
             \/ ConsumeEventsDone \/ NotifyDone \/ InlineUpdateAsync
             \/ SetFirstManager \/ LoaderTick
             \/ \E u \in Updates : Update(u) \/ UpdateAsync(u)
             \/ \E s \in Closers : Close(s) \/ StopperBlocks(s)
             \/ \E s \in Stoppers : SendStop(s)
             \/ UNCHANGED loopVars
      PROVE  UNCHANGED <<drawn, gEvents, evch, lastKey, testCounter, pollerAt, pollerEv>>
  BY <1>9 DEF StartMainLoop, RunManagers, ReceiveUserEvent, ReceiveStop, ConsumeEventsDone,
              NotifyDone, InlineUpdateAsync, SetFirstManager, LoaderTick, Update,
              UpdateAsync, Close, StopperBlocks, SendStop, loopVars
<1> QED
  BY <1>1, <1>2, <1>3, <1>4, <1>5, <1>6, <1>7, <1>8, <1>9
  DEF GuiStep, MainStep, PollerStep, OtherStep

-----------------------------------------------------------------------------
(* The invariant.  No more time events than testers that wait; as many,    *)
(* unless the screen refused one, and then some tester waits for good.     *)
(* Otherwise each tester that has called WaitSync either sees its keys     *)
(* drawn or has a late event to wait for, its own or a later one.          *)

Balanced ==
  /\ IsFiniteSet(Waiting)
  /\ Tokens <= Cardinality(Waiting)
  /\ ~refused => Tokens = Cardinality(Waiting)

Barriers ==
  \A t \in Testers :
    drawn >= covered[t] \/ Tokens < Cardinality(Waiting) \/ Late(covered[t])

Counts ==
  /\ drawn <= lastKey
  /\ \A t \in Testers : covered[t] <= accepted /\ (t \in Waiting => syncs[t] # 0)

HarnessInv == CounterInv /\ Balanced /\ Barriers /\ Counts

\* All that the steps need: the invariants of the parts and this one.
WholeInv == TestTypeInv /\ MainInv /\ PipelineInv /\ HarnessInv

\* Nobody waits and no time event exists.
LEMMA InitHarnessInv == TestInit => HarnessInv
<1> SUFFICES ASSUME TestInit PROVE HarnessInv
  OBVIOUS
<1>1. Init /\ Waiting = {}
  BY DEF TestInit, Waiting
<1>2. Tokens = 0
  <2>1. gEvents \in Seq(Event) /\ DOMAIN gEvents = {} /\ evch \in Seq(Event) /\ DOMAIN evch = {}
    BY <1>1 DEF Init
  <2>2. Count(gEvents, Times) = 0 /\ Count(evch, Times) = 0
    BY <2>1, CountType
  <2>3. testCounter = 0 /\ TimesHeld = 0
    BY <1>1 DEF Init, TimesHeld, TimeHeld
  <2> QED BY <2>2, <2>3 DEF Tokens
<1>3. Balanced
  BY <1>1, <1>2, FS_EmptySet DEF Balanced
<1>4. Barriers /\ Counts /\ CounterInv
  BY <1>1 DEF TestInit, Init, Barriers, Counts, CounterInv
<1> QED BY <1>3, <1>4 DEF HarnessInv

\* What is drawn is handled.
LEMMA DrawnStep ==
  ASSUME TypeOK, Pipeline, drawn <= lastKey, [LoopStep]_loopVars PROVE drawn' <= lastKey'
<1> USE DEF mainVars
<1>t. lastKey \in Nat /\ drawn \in Nat
  BY DEF TypeOK
<1>1. CASE ReceiveEvent
  <2>1. /\ gEvents # <<>> /\ UNCHANGED drawn
        /\ lastKey' = lastKey \/ (lastKey' = Head(gEvents).n /\ Head(gEvents).type = "key")
    BY <1>1 DEF ReceiveEvent
  <2> QED BY <1>t, <2>1, HeadIsNext
<1>2. CASE DrawViews
  BY <1>2, <1>t DEF DrawViews
<1>3. ASSUME ~ReceiveEvent, ~DrawViews PROVE UNCHANGED <<lastKey, drawn>>
  <2>1. MainStep => UNCHANGED <<lastKey, drawn>>
    BY <1>3 DEF MainStep, RunManagers, ReceiveUserEvent, ReceiveStop,
                ConsumeEventsDone, NotifyDone, InlineUpdateAsync
  <2>2. PollerStep \/ OtherStep => UNCHANGED <<lastKey, drawn>>
    BY DEF PollerStep, PollerStops, PollerDefault, PollEvent, PollerSend, OtherStep,
           SetFirstManager, LoaderTick, SendResize, TermResize,
           Update, UpdateAsync, Close, StopperBlocks
  <2>3. \/ StartMainLoop \/ Notify \/ AcceptKey \/ PostTime
        \/ \E s \in Stoppers : SendStop(s)
        \/ UNCHANGED loopVars
        => UNCHANGED <<lastKey, drawn>>
    BY DEF StartMainLoop, Notify, AcceptKey, PostTime, SendStop, loopVars
  <2> QED BY <2>1, <2>2, <2>3 DEF LoopStep
<1> QED BY <1>t, <1>1, <1>2, <1>3

\* No step takes an accepted key back.
LEMMA AcceptedGrows ==
  ASSUME TypeOK, [LoopStep]_loopVars PROVE accepted' >= accepted
<1>1. accepted \in Nat
  BY DEF TypeOK
<1>2. CASE AcceptKey
  BY <1>1, <1>2 DEF AcceptKey
<1>3. ASSUME ~AcceptKey PROVE UNCHANGED accepted
  <2> USE DEF screenVars
  <2>1. MainStep => UNCHANGED accepted
    BY DEF MainStep, RunManagers, DrawViews, ReceiveEvent, ReceiveUserEvent, ReceiveStop,
           ConsumeEventsDone, NotifyDone, InlineUpdateAsync
  <2>2. PollerStep \/ OtherStep => UNCHANGED accepted
    BY DEF PollerStep, PollerStops, PollerDefault, PollEvent, PollerSend, OtherStep,
           SetFirstManager, LoaderTick, SendResize, TermResize,
           Update, UpdateAsync, Close, StopperBlocks
  <2>3. \/ StartMainLoop \/ Notify \/ PostTime
        \/ \E s \in Stoppers : SendStop(s)
        \/ UNCHANGED loopVars
        => UNCHANGED accepted
    BY DEF StartMainLoop, Notify, PostTime, SendStop, loopVars
  <2> QED BY <1>3, <2>1, <2>2, <2>3 DEF LoopStep
<1> QED BY <1>1, <1>2, <1>3

\* Steps outside WaitSync.
LEMMA GuiHarnessStep ==
  ASSUME WholeInv, GuiStep, UNCHANGED <<covered, syncs, Waiting>>, refused' \in {refused, TRUE}
  PROVE  Balanced' /\ Barriers' /\ Counts'
<1> USE DEF WholeInv, TestTypeInv, TestTypeOK, PipelineInv, HarnessInv
<1>1. Tokens' = Tokens
  BY TokensStay
<1>2. Balanced'
  BY <1>1 DEF Balanced
<1>3. ASSUME NEW t \in Testers, drawn >= covered[t] \/ Late(covered[t])
      PROVE  drawn' >= covered[t] \/ Late(covered[t])'
  BY <1>3, LateStays DEF Counts
<1>4. Barriers'
  BY <1>1, <1>3 DEF Barriers
<1>5. Counts'
  <2>1. drawn' <= lastKey' /\ accepted' >= accepted
    BY GuiIsLoopStep, DrawnStep, AcceptedGrows DEF Counts
  <2>2. accepted' \in Nat /\ accepted \in Nat
    BY GuiIsLoopStep, TypeOKStep DEF TypeOK
  <2> QED BY <2>1, <2>2 DEF Counts
<1> QED BY <1>2, <1>4, <1>5

\* A call of WaitSync: one tester more waits, and one time event more is on
\* its way behind all keys, or has been refused.
LEMMA PostSyncStep ==
  ASSUME WholeInv, NEW t \in Testers, PostSync(t) PROVE Balanced' /\ Barriers' /\ Counts'
<1> USE DEF WholeInv, TestTypeInv, TestTypeOK, PipelineInv, HarnessInv
<1> DEFINE n == Cardinality(Waiting)
<1>1. t \notin Waiting /\ Waiting' = Waiting \cup {t}
  BY DEF PostSync, Waiting
<1>2. IsFiniteSet(Waiting') /\ Cardinality(Waiting') = n + 1 /\ n \in Nat
  BY <1>1, FS_AddElement, FS_CardinalityType DEF Balanced
<1>3. /\ covered' = [covered EXCEPT ![t] = accepted] /\ accepted \in Nat
      /\ syncs' = [syncs EXCEPT ![t] = @ + 1] /\ syncs'[t] # 0
      /\ UNCHANGED <<drawn, lastKey, accepted, testCounter, gEvents, pollerAt, pollerEv>>
  BY DEF PostSync, PostTime, TypeOK, loopVars, mainVars, queueVars, pollerVars, screenVars
<1>4. Counts'
  BY <1>1, <1>3 DEF Counts, TypeOK
<1>5. Tokens \in Nat
  BY TokensType
<1>6. CASE PostTime /\ UNCHANGED refused
  <2>1. /\ evch \in Seq(Event) /\ Signal("time") \in Event /\ Signal("time").type = "time"
        /\ evch' = Append(evch, Signal("time"))
    BY <1>6 DEF PostTime, TypeOK, Signal, Event
  <2>2. Count(evch', Times) = Count(evch, Times) + 1
    BY <2>1, TimesSent
  <2>3. Tokens' = Tokens + 1
    BY <1>3, <2>2, TokensType DEF Tokens, TimesHeld, TimeHeld
  <2>4. Balanced'
    BY <1>2, <1>5, <1>6, <2>3 DEF Balanced
  <2>5. /\ \A i \in DOMAIN evch : i \in DOMAIN evch' /\ evch'[i] = evch[i]
        /\ \A i \in DOMAIN evch' : KeyAt(evch', i) => i \in DOMAIN evch /\ KeyAt(evch, i)
        /\ Len(evch) + 1 \in DOMAIN evch' /\ evch'[Len(evch) + 1].type = "time"
        /\ \A i \in DOMAIN evch' : ~(Len(evch) + 1 < i)
    BY <2>1, AppendPlaces DEF KeyAt
  <2>6. Late(accepted)'
    BY <2>5 DEF Late, LateOnScreen, KeysAfter
  <2>7. ASSUME NEW c, Late(c) PROVE Late(c)'
    <3>1. ScreenAfter(c) => ScreenAfter(c)'
      BY <2>5 DEF ScreenAfter
    <3>2. LateOnScreen(c) => LateOnScreen(c)'
      BY <2>5 DEF LateOnScreen, KeysAfter
    <3>3. LateInQueue(c) \/ LateInHand(c) \/ LateCounted(c) => Late(c)'
      BY <1>3, <3>1 DEF Late, LateInQueue, LateInHand, LateCounted, TimeHeld, KeyHeld
    <3> QED BY <2>7, <3>2, <3>3 DEF Late
  <2>8. Barriers'
    <3> SUFFICES ASSUME NEW s \in Testers, NEW c, covered'[s] = c
                 PROVE  drawn' >= c \/ Tokens' < Cardinality(Waiting') \/ Late(c)'
      BY DEF Barriers
    <3>1. CASE s = t
      <4>1. c = accepted /\ accepted' = accepted
        BY <1>3, <3>1
      <4> QED BY <2>6, <4>1
    <3>2. CASE s # t
      <4>1. c = covered[s]
        BY <1>3, <3>2
      <4>2. drawn >= c \/ Tokens < n \/ Late(c)
        BY <4>1 DEF Barriers
      <4>3. Tokens < n => Tokens' < Cardinality(Waiting')
        BY <1>2, <1>5, <2>3
      <4>4. drawn' = drawn
        BY <1>3
      <4>5. Late(c) => Late(c)'
        BY <2>7
      <4> QED BY <4>2, <4>3, <4>4, <4>5
    <3> QED BY <3>1, <3>2
  <2> QED BY <1>4, <2>4, <2>8
<1>7. CASE UNCHANGED loopVars /\ refused' = TRUE
  <2>1. Tokens' = Tokens
    BY <1>7 DEF Tokens, TimesHeld, TimeHeld, loopVars, mainVars, queueVars, pollerVars, screenVars
  <2>2. Tokens' < Cardinality(Waiting')
    BY <1>2, <1>5, <2>1 DEF Balanced
  <2> QED BY <1>2, <1>4, <1>5, <1>7, <2>1, <2>2 DEF Balanced, Barriers
<1> QED BY <1>6, <1>7 DEF PostSync

\* The return of WaitSync: one tester and one time event less, and what was
\* handled when the event was counted has been drawn.
LEMMA ReceiveNotifyStep ==
  ASSUME WholeInv, NEW t \in Testers, ReceiveNotify(t) PROVE Balanced' /\ Barriers' /\ Counts'
<1> USE DEF WholeInv, TestTypeInv, TestTypeOK, PipelineInv, HarnessInv
<1> DEFINE n == Cardinality(Waiting)
<1>1. t \in Waiting /\ Waiting' = Waiting \ {t}
  BY DEF ReceiveNotify, Waiting
<1>2. IsFiniteSet(Waiting') /\ Cardinality(Waiting') = n - 1 /\ n \in Nat
  BY <1>1, FS_RemoveElement, FS_CardinalityType DEF Balanced
<1>3. /\ UNCHANGED <<covered, syncs, refused, drawn, lastKey, accepted, gEvents, evch, pollerAt, pollerEv>>
      /\ testCounter' = testCounter - 1 /\ loop = "notify"
  BY DEF ReceiveNotify, Notify, queueVars, pollerVars, screenVars
<1>4. Tokens' = Tokens - 1 /\ Tokens \in Nat
  BY <1>3, TokensType DEF Tokens, TimesHeld, TimeHeld
<1>5. Balanced'
  BY <1>2, <1>3, <1>4 DEF Balanced
<1>6. Counts'
  BY <1>1, <1>3 DEF Counts
<1>7. drawn = lastKey
  BY <1>3 DEF MainInv, DrawnInv
<1>8. ASSUME NEW s \in Testers, NEW c, covered[s] = c
      PROVE  drawn' >= c \/ Tokens' < Cardinality(Waiting') \/ Late(c)'
  <2>1. drawn >= c \/ Tokens < n \/ Late(c)
    BY <1>8 DEF Barriers
  <2>2. LateCounted(c) => drawn >= c
    BY <1>7 DEF LateCounted
  <2>3. LateInQueue(c) \/ LateInHand(c) \/ LateOnScreen(c) => Late(c)'
    BY <1>3 DEF Late, LateInQueue, LateInHand, LateOnScreen, TimeHeld, KeyHeld, ScreenAfter
  <2>4. Tokens < n => Tokens' < Cardinality(Waiting')
    BY <1>2, <1>4 DEF Balanced
  <2>5. drawn' = drawn
    BY <1>3
  <2> QED BY <2>1, <2>2, <2>3, <2>4, <2>5 DEF Late
<1>9. Barriers'
  BY <1>3, <1>8 DEF Barriers
<1> QED BY <1>5, <1>6, <1>9

\* Every step keeps the balance, the barriers and the counts.
LEMMA HarnessInvStep == WholeInv /\ [TestNext]_allVars => HarnessInv'
<1> SUFFICES ASSUME WholeInv, [TestNext]_allVars PROVE HarnessInv'
  OBVIOUS
<1>1. CounterInv'
  BY TestNextIsLoopStep, CounterStep DEF WholeInv, TestTypeInv, TestTypeOK, HarnessInv
<1>2. Balanced' /\ Barriers' /\ Counts'
  BY TestSteps, GuiHarnessStep, PostSyncStep, ReceiveNotifyStep
  DEF WholeInv, TestTypeInv, TestTypeOK
<1> QED BY <1>1, <1>2 DEF HarnessInv

\* The inductive invariant of the program with its harness.
LEMMA WholeInvariant == TestSpec => []WholeInv
<1>1. TestInit => WholeInv
  BY InitTestTypeInv, InitMainInv, InitPipelineInv, InitHarnessInv DEF TestInit, WholeInv
<1>2. WholeInv /\ [TestNext]_allVars => WholeInv'
  BY TestTypeStep, MainInvStep, PipelineInvStep, HarnessInvStep, TestNextIsLoopStep
  DEF WholeInv, TestTypeInv, TestTypeOK
<1> QED BY <1>1, <1>2, PTL DEF TestSpec

-----------------------------------------------------------------------------
(* Theorems.                                                               *)

\* Time events are neither lost nor duplicated: unless the screen refuses
\* one, each tester that waits has one on its way.
THEOREM SyncsBalanced == TestSpec => []SyncBalance
<1>1. WholeInv => SyncBalance
  <2> SUFFICES ASSUME WholeInv, ~refused PROVE Tokens = Cardinality(Waiting) => SyncBalance
    BY DEF WholeInv, HarnessInv, Balanced, SyncBalance
  <2>1. ASSUME NEW s \in Seq(Event) PROVE TimeIn(s) = Count(s, Times)
    <3>1. \A i \in DOMAIN s : s[i] \in Event
      OBVIOUS
    <3>2. {i \in DOMAIN s : s[i].type = "time"} = Places(s, Times)
      BY <3>1 DEF Places, Times
    <3> QED BY <3>2 DEF TimeIn, Count
  <2>2. TimeIn(gEvents) = Count(gEvents, Times) /\ TimeIn(evch) = Count(evch, Times)
    BY <2>1 DEF WholeInv, TestTypeInv, TestTypeOK, TypeOK
  <2> QED BY <2>2 DEF SyncBalance, Tokens, TimesHeld, TimeHeld
<1> QED BY <1>1, WholeInvariant, PTL

\* When no tester waits any more, the keys sent before any of their calls of
\* WaitSync are drawn.
THEOREM JointBarrierHolds == TestSpec => []JointBarrier
<1>1. WholeInv => JointBarrier
  <2> SUFFICES ASSUME WholeInv, Waiting = {}, NEW t \in Testers PROVE drawn >= covered[t]
    BY DEF JointBarrier
  <2> USE DEF WholeInv, TestTypeInv, TestTypeOK, HarnessInv
  <2>1. Cardinality(Waiting) = 0 /\ Tokens = 0
    BY FS_EmptySet, TokensType DEF Balanced
  <2>2. /\ testCounter = 0 /\ Count(gEvents, Times) = 0 /\ Count(evch, Times) = 0 /\ ~TimeHeld
    <3>1. testCounter = 0 /\ Count(gEvents, Times) = 0 /\ Count(evch, Times) = 0 /\ TimesHeld = 0
      BY <2>1, TokensType DEF Tokens
    <3> QED BY <3>1 DEF TimesHeld
  <2>3. /\ \A i \in DOMAIN gEvents : gEvents[i] \in Event /\ gEvents[i] \notin Times
        /\ \A i \in DOMAIN evch : evch[i] \in Event /\ evch[i] \notin Times
    BY <2>2, CountType DEF TypeOK
  <2>4. ~Late(covered[t])
    BY <2>2, <2>3 DEF Late, LateInQueue, LateInHand, LateOnScreen, LateCounted, Times
  <2> QED BY <2>1, <2>4 DEF Barriers
<1> QED BY <1>1, WholeInvariant, PTL

\* A WaitSync that no other one runs beside returns when every key sent before
\* it is handled and drawn.
THEOREM SoloBarrierHolds == TestSpec => SoloBarrier
<1> DEFINE Solo(t) == ReceiveNotify(t) /\ (\A other \in Testers \ {t} : syncs[other] = 0)
                        => lastKey >= covered[t] /\ drawn >= covered[t]
<1>1. WholeInv => \A t \in Testers : Solo(t)
  <2> SUFFICES ASSUME WholeInv, NEW t \in Testers, ReceiveNotify(t),
                      \A other \in Testers \ {t} : syncs[other] = 0
               PROVE  lastKey >= covered[t] /\ drawn >= covered[t]
    OBVIOUS
  <2> USE DEF WholeInv, TestTypeInv, TestTypeOK, HarnessInv
  <2>1. loop = "notify" /\ testCounter > 0 /\ t \in Waiting
    BY DEF ReceiveNotify, Notify
  <2>2. drawn = lastKey
    BY <2>1 DEF MainInv, DrawnInv
  <2>3. Waiting = {t}
    BY <2>1 DEF Counts, Waiting
  <2>4. Cardinality(Waiting) = 1
    BY <2>3, FS_Singleton
  <2>5. Tokens = 1 /\ Count(gEvents, Times) = 0 /\ Count(evch, Times) = 0 /\ ~TimeHeld
    BY <2>1, <2>4, TokensType DEF Balanced, Tokens, TimesHeld
  <2>6. /\ \A i \in DOMAIN gEvents : gEvents[i] \in Event /\ gEvents[i] \notin Times
        /\ \A i \in DOMAIN evch : evch[i] \in Event /\ evch[i] \notin Times
    BY <2>5, CountType DEF TypeOK
  <2>7. drawn >= covered[t] \/ LateCounted(covered[t])
    BY <2>4, <2>5, <2>6 DEF Barriers, Late, LateInQueue, LateInHand, LateOnScreen, Times
  <2> QED BY <2>2, <2>7 DEF LateCounted
<1>2. TestSpec => [][\A t \in Testers : Solo(t)]_allVars
  BY <1>1, WholeInvariant, PTL
<1> QED BY <1>2 DEF SoloBarrier

=============================================================================
