SPECIFICATION FairQueueSpec
CONSTANTS
  r1 = r1
  MaxJobs = 2
  Requests <- MCRequests
  MaxCrashes = 2
  MaxFaults = 2
  FaultAt <- AllFaults
INVARIANTS AtMostOnePrompt OutcomeIsOwedOrHeard
PROPERTIES TerminalIsFinal KeepsThePromise EveryJobEnds
