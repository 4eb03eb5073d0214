---------------------------- MODULE TestingLoop ----------------------------
(***************************************************************************)
(* The harness of testing.go around EventLoop: test goroutines that inject *)
(* keys into the simulated screen, WaitSync, and the function StartGui     *)
(* returns to stop the main loop.  The screen's event queue refuses what   *)
(* does not fit, and g.testNotify is one unbuffered channel for everybody. *)
(***************************************************************************)
EXTENDS EventLoop

CONSTANTS
  Testers,    \* goroutines that use a TestingScreen of the same Gui
  Starter,    \* the one that calls StartGui
  SendLens,   \* lengths of the strings they send as keys
  MaxSyncs    \* bound on the calls of WaitSync of each tester

ASSUME TestersAssumption ==
  Starter \in Testers /\ SendLens \subseteq Nat /\ MaxSyncs \in Nat

VARIABLES
  tester,   \* what each tester is doing
  left,     \* keys of its string it still has to inject
  covered,  \* number of keys accepted when it called WaitSync
  syncs,    \* calls of WaitSync it has made
  refused   \* some event was refused by the full queue

testVars == <<tester, left, covered, syncs, refused>>
allVars  == <<loopVars, testVars>>

TestInit ==
  /\ Init
  /\ tester = [t \in Testers |-> "unstarted"]
  /\ left = [t \in Testers |-> 0]
  /\ covered = [t \in Testers |-> 0]
  /\ syncs = [t \in Testers |-> 0]
  /\ refused = FALSE

-----------------------------------------------------------------------------
\* StartGui: MainLoop gets a goroutine of its own, then a WaitSync.
StartGui ==
  /\ tester[Starter] = "unstarted"
  /\ StartMainLoop
  /\ tester' = [tester EXCEPT ![Starter] = "starting"]
  /\ UNCHANGED <<left, covered, syncs, refused>>

\* The other testers use the TestingScreen StartGui was called on.
Join(t) ==
  /\ tester[t] = "unstarted" /\ t # Starter
  /\ tester[Starter] \notin {"unstarted", "starting", "waitstart"}
  /\ tester' = [tester EXCEPT ![t] = "idle"]
  /\ UNCHANGED <<loopVars, left, covered, syncs, refused>>

\* SendKey (n = 1), SendStringAsKeys.
Send(t, n) ==
  /\ tester[t] = "idle"
  /\ n > 0 /\ accepted + n <= MaxKeys
  /\ left' = [left EXCEPT ![t] = n]
  /\ tester' = [tester EXCEPT ![t] = "inject"]
  /\ UNCHANGED <<loopVars, covered, syncs, refused>>

\* One key of injectString: nothing between two of them, or between two
\* chunks of ten, waits for the keys already injected.
Inject(t) ==
  /\ tester[t] = "inject"
  /\ \/ AcceptKey /\ UNCHANGED refused
     \/ /\ Len(evch) = EvCap
        /\ refused' = TRUE
        /\ UNCHANGED loopVars
  /\ left' = [left EXCEPT ![t] = @ - 1]
  /\ tester' = [tester EXCEPT ![t] = IF left[t] = 1 THEN "idle" ELSE "inject"]
  /\ UNCHANGED <<covered, syncs>>

\* WaitSync, first line.  The error of a full queue is not looked at.
PostSync(t) ==
  /\ \/ tester[t] = "idle" /\ syncs[t] < MaxSyncs
     \/ tester[t] = "starting"
  /\ \/ /\ PostTime
        /\ UNCHANGED refused
     \/ /\ Len(evch) = EvCap
        /\ refused' = TRUE
        /\ UNCHANGED loopVars
  /\ covered' = [covered EXCEPT ![t] = accepted]
  /\ syncs' = [syncs EXCEPT ![t] = @ + 1]
  /\ tester' = [tester EXCEPT ![t] = IF tester[t] = "idle" THEN "wait" ELSE "waitstart"]
  /\ UNCHANGED left

Waiting == {t \in Testers : tester[t] \in {"wait", "waitstart"}}

\* WaitSync, second line: whoever receives, receives.
ReceiveNotify(t) ==
  /\ t \in Waiting
  /\ Notify
  /\ tester' = [tester EXCEPT ![t] = "idle"]
  /\ UNCHANGED <<left, covered, syncs, refused>>

\* The function StartGui returns: the test waits in its send on g.stop.
Cleanup(s) ==
  /\ tester[Starter] = "idle"
  /\ SendStop(s)
  /\ UNCHANGED testVars

-----------------------------------------------------------------------------
TesterStep(t) ==
  \/ Join(t) \/ Inject(t) \/ PostSync(t) \/ ReceiveNotify(t)
  \/ \E n \in SendLens : Send(t, n)

TestNext ==
  \/ StartGui
  \/ \E t \in Testers : TesterStep(t)
  \/ \E s \in Cleanups : Cleanup(s)
  \/ (MainStep \/ PollerStep \/ OtherStep) /\ UNCHANGED testVars

TestSpec == TestInit /\ [][TestNext]_allVars

\* The goroutines of the Gui run (Fairness of EventLoop, without the start of
\* MainLoop, which is the tester's), a test goes on inside the function it
\* called, and the main loop's send on g.testNotify meets a waiting receiver.
TestFairness ==
  /\ WF_allVars(RunManagers /\ UNCHANGED testVars)
  /\ WF_allVars(DrawViews /\ UNCHANGED testVars)
  /\ SF_allVars(ConsumeEventsDone /\ UNCHANGED testVars)
  /\ WF_allVars(NotifyDone /\ UNCHANGED testVars)
  /\ WF_allVars(InlineUpdateAsync /\ UNCHANGED testVars)
  /\ SF_allVars(ReceiveEvent /\ UNCHANGED testVars)
  /\ SF_allVars(ReceiveUserEvent /\ UNCHANGED testVars)
  /\ SF_allVars(ReceiveStop /\ UNCHANGED testVars)
  /\ WF_allVars(PollerStops /\ UNCHANGED testVars)
  /\ WF_allVars(PollerDefault /\ UNCHANGED testVars)
  /\ WF_allVars(PollEvent /\ UNCHANGED testVars)
  /\ SF_allVars(PollerSend /\ UNCHANGED testVars)
  /\ SF_allVars(SendResize /\ UNCHANGED testVars)
  /\ \A u \in Updates : SF_allVars(UpdateAsync(u) /\ UNCHANGED testVars)
  /\ \A t \in Testers :
       /\ WF_allVars(Inject(t))
       /\ WF_allVars(tester[t] = "starting" /\ PostSync(t))
       /\ WF_allVars(ReceiveNotify(t))

FairTestSpec == TestSpec /\ TestFairness

-----------------------------------------------------------------------------
(* Properties.                                                             *)

\* The harness adds no state outside these types.
TestTypeOK ==
  /\ TypeOK
  /\ tester \in [Testers -> {"unstarted", "starting", "waitstart", "idle", "inject", "wait"}]
  /\ left \in [Testers -> Nat] /\ covered \in [Testers -> Nat]
  /\ syncs \in [Testers -> Nat]
  /\ refused \in BOOLEAN

\* WaitSync: when it returns, every key that was sent before its time event
\* has been handled and drawn, as long as one tester only calls WaitSync,
\* whoever sends keys.
SoloBarrier ==
  [][\A t \in Testers :
       ReceiveNotify(t) /\ (\A other \in Testers \ {t} : syncs[other] = 0)
         => lastKey >= covered[t] /\ drawn >= covered[t]]_allVars

\* With several, the answer may be meant for another one; but when the last
\* of them has returned, the keys sent before any of their events are drawn.
JointBarrier == Waiting = {} => \A t \in Testers : drawn >= covered[t]

\* Time events are neither lost nor duplicated: as long as the screen refuses
\* none, there are as many on their way or counted as testers that wait.
TimeIn(s) == Cardinality({i \in DOMAIN s : s[i].type = "time"})
SyncBalance ==
  ~refused =>
    testCounter + TimeIn(gEvents) + TimeIn(evch)
      + (IF pollerAt = "send" /\ pollerEv.type = "time" THEN 1 ELSE 0)
    = Cardinality(Waiting)

\* WaitSync returns, unless the loop returns first, someone has stopped the
\* loop or its poller, or the full queue of the screen refused an event.
Stopped == \E s \in Stoppers : stopper[s] # "new"
SyncReturns ==
  \A t \in Testers : t \in Waiting ~> t \notin Waiting \/ Over \/ Stopped \/ refused

\* The function StartGui returns stops the main loop ...
StopEndsLoop == \A s \in Cleanups : stopper[s] # "new" ~> Over

\* ... for sure only when it is called once for each receiver of g.stop.
StopsEndLoop == (\A s \in Cleanups : stopper[s] # "new") ~> Over
=============================================================================
