SPECIFICATION PairSpec
CONSTANTS
 q1=q1
 q2=q2
 Requests <- MCRequests
 MaxCandidates = 2
 MaxBatches = 2
 MaxFaults = 1
 MaxCrashes = 1
INVARIANT OneVersionAdmitted
PROPERTY DecisionStands
SYMMETRY Alike
CHECK_DEADLOCK FALSE
