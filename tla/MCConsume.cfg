SPECIFICATION FairSpec
CONSTANTS
  n1 = n1
  n2 = n2
  s1 = s1
  s2 = s2
  ctl = ctl
  Torn = Torn
  Streams = {s1, s2, ctl}
  Wanted = {s1, s2}
  Nodes = {n1, n2}
  Home <- MCHome
  Solo = n1
  ReadCount = 1
  MaxEntries = 2
  MaxClock = 2
  MaxFaults = 1
  OptionSets <- MCOptions
  Formats <- MCFormats
CHECK_DEADLOCK FALSE
INVARIANT InOrder
INVARIANT NothingSkipped
INVARIANT OnlyNew
INVARIANT CheckpointHonest
 
