SPECIFICATION UpdateSpec
CONSTANTS
  MaxUpdates = 2
  MaxCrashes = 2
  MaxFaults = 2
  MaxEdits = 2
  PromptHelper = TRUE
INVARIANT ServesOneRevision
PROPERTIES AcknowledgedIsKept LocalWorkIsKept UpdateSettles
CHECK_DEADLOCK FALSE
