SPECIFICATION MCSpec
CONSTANTS
  Mode = "envelope"
  Capacity = 2
  BatchSize = 2
  MaxEvents = 5
  d1 = d1
  d2 = d2
  Dests = {d1, d2}
  Faults = {"defer", "write", "abort"}
INVARIANT NotificationOrder
INVARIANT NoSilentLoss
INVARIANT SnapshotFresh
PROPERTY EventLogSpec
