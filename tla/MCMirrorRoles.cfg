SPECIFICATION Spec
CONSTANTS
  s1 = s1
  s2 = s2
  g1 = g1
  g2 = g2
  NoGroup = NoGroup
  Firehose = Firehose
  Streams = {s1, s2}
  Groups = {g1, g2}
  Caps = {0, 1}
  MaxBatch = 2
  MaxEvents = 2
  Ops = {"refuse", "sadd", "xgroup", "del", "flush", "swap", "prune", "role", "async", "group", "cap"}
SYMMETRY Symmetry
INVARIANT EventsAccounted
INVARIANT RegistryComplete
PROPERTY GroupKept
CHECK_DEADLOCK FALSE
