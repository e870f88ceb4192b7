SPECIFICATION FairSpec
CONSTANTS
  MaxEvents = 2
  MaxPoints = 1
  MaxLoads = 2
  Ops = {"async", "swap", "role", "cron", "unload", "refuse", "defer"}
INVARIANT MarkersAccounted
INVARIANT NothingStranded
INVARIANT ClosedLast
PROPERTY MarkersLand
CHECK_DEADLOCK FALSE
