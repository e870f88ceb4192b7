SPECIFICATION FairSpec
CONSTANTS
  Consumers = {c1, c2}
  Streams = {0}
  Control = 0
  MaxEntries = 2
  MaxFaults = 2
  Batch = 2
  MaxAttempts = 2
  MaxRecords = 2
  Ops = {"trim", "delete", "crash", "refuse", "lose", "age", "opaque"}
INVARIANT NothingSkipped
PROPERTY DuplicateHasCause
PROPERTY HandedOffUnlessStranded
