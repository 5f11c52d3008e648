SPECIFICATION Spec
CONSTANTS
  Jobs = {j1}
  Slots = 1
  JobTTL = 2
  Retentions <- DefaultRetention
  LastSubmit = 1
  MaxTime = 4
  DeleteFails = FALSE
  None = None
INVARIANTS
  NoOrphans
