SPECIFICATION Spec
CONSTANTS
  Memes = {m1}
  Files = {f1}
  Procs = {p1, p2}
  Options <- ExtractOnly
  Updates <- TextOnly
  Ops <- NoDeletion
  MaxEncodings = 1
  Faults = FALSE
  None = None
SYMMETRY Symmetry
PROPERTIES
  ManualTextSurvives
