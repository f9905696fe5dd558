SPECIFICATION StoreSpec
CONSTANTS
  MaxJobs = 2
  MaxEntries = 2
  MaxEdits = 1
  MaxFaults = 2
  MaxCrashes = 1
INVARIANTS NothingIsDestroyed RowHasItsFile TrashedIsRecoverable
PROPERTY TilesSettle
CHECK_DEADLOCK FALSE
