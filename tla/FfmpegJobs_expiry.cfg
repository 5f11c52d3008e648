SPECIFICATION Spec
CONSTANTS
  Jobs = {j1}
  Slots = 1
  JobTTL = 1
  Retentions <- NeverExpire
  CacheSize = 1
  MaxOutputs = 1
  LastSubmit = 0
  MaxTime = 3
  DeleteFails = FALSE
INVARIANTS
  RetainedJobsReachable
