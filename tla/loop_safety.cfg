CONSTANTS
  u1 = u1  u2 = u2  c1 = c1
  Tick = Tick
  GCap = 1  UCap = 1  EvCap = 2
  Updates = {u1, u2}
  Closers = {c1}  Cleanups = {}
  HasLoader = TRUE
  TermResizes = TRUE
  CallbackKinds = {"ok", "fail", "update", "async", "manager"}
  MaxKeys = 2  MaxResizes = 1
SPECIFICATION Spec
INVARIANTS TypeOK IdleIsDrawn Pipeline UpdateOnce NewManagersPending
PROPERTIES ImplementsInputService
CHECK_DEADLOCK FALSE
