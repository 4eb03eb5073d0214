CONSTANTS
  u1 = u1  u2 = u2  c1 = c1
  Tick = Tick
  GCap = 1  UCap = 1  EvCap = 1
  Updates = {u1, u2}
  Closers = {}  Cleanups = {}
  HasLoader = TRUE
  TermResizes = FALSE
  CallbackKinds = {"ok", "update", "async", "manager"}
  MaxKeys = 1  MaxResizes = 1
SPECIFICATION FairSpec
PROPERTIES UpdatesRun KeysHandled NewManagersLaidOut
CHECK_DEADLOCK FALSE
