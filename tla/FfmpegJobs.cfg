SPECIFICATION FairSpec
CONSTANTS
  Jobs = {j1, j2}
  Slots = 1
  JobTTL = 1
  Retentions <- AllRetentions
  CacheSize = 1
  MaxOutputs = 2
  LastSubmit = 0
  MaxTime = 2
  DeleteFails = TRUE
INVARIANTS
  TypeOK
  OutputsComplete
  FailedJobsLeaveNothing
PROPERTIES
  ImplementsLifecycle
  EveryJobEnds
  OutputsAreReleased
