SPECIFICATION TrainSpec
CONSTANTS
  i1 = i1
  i2 = i2
  NoItem = NoItem
  Other = Other
  Items <- OneItem
  MaxRuns = 2
  MaxDirect = 1
  MaxStops = 0
  MaxCrashes = 0
INVARIANT OneTrainer
CHECK_DEADLOCK FALSE
