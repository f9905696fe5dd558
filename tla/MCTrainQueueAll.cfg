SPECIFICATION TrainSpec
CONSTANTS
  i1 = i1
  i2 = i2
  NoItem = NoItem
  Other = Other
  Items <- OneItem
  MaxRuns = 3
  MaxDirect = 1
  MaxStops = 1
  MaxCrashes = 1
INVARIANT TrainedOncePerLife
CHECK_DEADLOCK FALSE
