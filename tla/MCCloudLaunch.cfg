SPECIFICATION FairLaunchSpec
CONSTANTS
  r1 = r1
  r2 = r2
  Runs <- OneRun
  Recoverers <- Tick
  Limit = 1
  MaxCrashes = 1
  MaxFaults = 1
  Images <- TwoImages
  Imported <- Upload
  MaxEdits = 2
INVARIANTS MeteredWhileUp OneSeededJob SnapshotIsOneMoment
PROPERTIES OwnedPodsAreSpared RunsEnd RentsOnce
CHECK_DEADLOCK FALSE
