SPECIFICATION FairSpec
CONSTANTS
  Jobs = {j1, j2}
  Slots = 1
  JobTTL = 2
  Retentions <- AllRetentions
  LastSubmit = 0
  MaxTime = 4
  DeleteFails = TRUE
  None = None
INVARIANTS
  TypeOK
  KeptWhileRetained
  OrphansAreLate
PROPERTIES
  ImplementsLifecycle
  EveryCallEnds
  ObjectsAreReleased
