SPECIFICATION FairSpec
CONSTANTS
  Mode = "individual"
  Capacity = 1
  BatchSize = 1
  MaxEvents = 1
  d1 = d1
  Dests = {d1}
  Faults = {}
PROPERTY UnloadCompletes
