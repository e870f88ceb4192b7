SPECIFICATION Spec
CONSTANTS
  s1 = s1
  s2 = s2
  g1 = g1
  NoGroup = NoGroup
  Firehose = Firehose
  Streams = {s1, s2}
  Groups = {g1}
  Caps = {1}
  MaxBatch = 1
  MaxEvents = 3
  Ops = {"refuse", "sadd", "del", "foreign", "flush", "swap", "prune", "firehose"}
SYMMETRY Symmetry
INVARIANT CapCount
INVARIANT CapBoundsCreated
CHECK_DEADLOCK FALSE
