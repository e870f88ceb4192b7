SPECIFICATION Spec
CONSTANTS
  MaxEvents = 2
  MaxPoints = 1
  MaxLoads = 2
  Ops = {"async", "toggle", "unload"}
INVARIANT NoJobAfterUnload
CHECK_DEADLOCK FALSE
