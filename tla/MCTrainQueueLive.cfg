SPECIFICATION FairTrainSpec
CONSTANTS
  i1 = i1
  i2 = i2
  NoItem = NoItem
  Other = Other
  Items <- TwoItems
  MaxRuns = 4
  MaxDirect = 0
  MaxStops = 0
  MaxCrashes = 2
INVARIANT QueueKeepsItsTrainer
PROPERTIES GpuComesBack EveryItemIsTried
CHECK_DEADLOCK FALSE
