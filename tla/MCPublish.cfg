SPECIFICATION FairPublishSpec
CONSTANTS
  k1 = k1
  k2 = k2
  worker = worker
  canceller = canceller
  r1 = r1
  r2 = r2
  NoKey = NoKey
  NoRepo = NoRepo
  Keys <- MCKeys
  Dataset = k1
  Sessions <- MCSessions
  Repos <- TwoRepos
  MaxJobs = 3
  MaxCrashes = 1
  Attempts = 3
  MaxFaults = 2
INVARIANTS DoneIsPublished OneActivePerKey NoGhost
PROPERTIES UnrecordedRepoIsSafe PublishEnds
CHECK_DEADLOCK FALSE
