SPECIFICATION Spec
CONSTANTS
  Memes = {m1, m2}
  Files = {f1, f2}
  Procs = {p1}
  Options <- RecomputeOption
  Updates <- AnyUpdate
  Ops <- AnyOp
  MaxEncodings = 1
  Faults = TRUE
  None = None
SYMMETRY Symmetry
PROPERTIES
  ManualTextSurvives
INVARIANTS
  StoredOnce
