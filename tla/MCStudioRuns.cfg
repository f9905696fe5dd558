SPECIFICATION FairStudioSpec
CONSTANTS
  r1 = r1
  c1 = c1
  NoCell = NoCell
  MaxJobs = 2
  Requests <- MCRequests
  Cells <- OneCell
  MaxCrashes = 1
  MaxFaults = 1
  FaultAt <- StudioFaults
INVARIANTS NoStrandedCell ShownOnlyAfterCommit
PROPERTIES QueueSpec EveryCellSettles
