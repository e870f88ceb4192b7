SPECIFICATION Spec
CONSTANTS
  Slots = {s1, s2}
  Streams = {e1}
  Firehose = firehose
  None = none
  Caps = {0, 1, 2}
  MaxEvents = 3
  Ops = {"migrate", "strand", "oom", "flaky", "reworded", "firehose", "reload"}
SYMMETRY Symmetry
INVARIANT ChangeMarked
PROPERTY ReshardLosesNothing
PROPERTY CountedOnce
CHECK_DEADLOCK FALSE
