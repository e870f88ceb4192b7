SPECIFICATION Spec
CONSTANTS
  MaxEvents = 3
  MaxPoints = 2
  MaxLoads = 2
  Ops = {"multi", "toggle", "flush", "role", "cron", "unload"}
INVARIANT FlushMarkerFirst
INVARIANT CheckpointExact
INVARIANT LoadedFirst
INVARIANT GapWindow
INVARIANT MarkersInOrder
INVARIANT NoJobAfterUnload
INVARIANT BoundariesHonest
CHECK_DEADLOCK FALSE
