SPECIFICATION FairSpec
CONSTANTS
  Mode = "envelope"
  Capacity = 2
  BatchSize = 2
  MaxEvents = 4
  d1 = d1
  Dests = {d1}
  Faults = {"defer", "write", "panic", "context", "abort"}
INVARIANT GaugeAgrees
INVARIANT WrittenOnce
PROPERTY AcceptedIsSettled
PROPERTY UnloadBlockedOnlyInWait
