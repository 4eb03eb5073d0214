CONSTANTS
  t1 = t1  t2 = t2  u1 = u1  u2 = u2  w1 = w1  w2 = w2
  Tick = Tick
  GCap = 1  UCap = 1  EvCap = 2
  Updates = {}
  Closers = {}  Cleanups = {w1, w2}
  HasLoader = TRUE
  TermResizes = FALSE
  CallbackKinds = {"ok"}
  MaxKeys = 1  MaxResizes = 0
  Testers = {t1, t2}  Starter = t1
  SendLens = {1}  MaxSyncs = 2
SPECIFICATION FairTestSpec
INVARIANTS TestTypeOK SyncBalance JointBarrier
PROPERTIES SoloBarrier SyncReturns StopsEndLoop
CHECK_DEADLOCK FALSE
