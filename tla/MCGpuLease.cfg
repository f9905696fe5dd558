SPECIFICATION Spec
CONSTANTS
  g1 = g1
  v1 = v1
  v2 = v2
  t1 = t1
  c1 = c1
  None = None
  Generations <- MCGenerations
  Visions <- MCVisions
  Trainings <- MCTrainings
  Clearers <- MCClearers
  MaxLapses = 1
  MaxCrashes = 1
INVARIANTS ExclusiveWhileLeased ClosedWindowFreesGpu
 
CHECK_DEADLOCK FALSE
SYMMETRY Alike
