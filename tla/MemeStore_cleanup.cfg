SPECIFICATION Spec
CONSTANTS
  Memes = {m1, m2, m3}
  Files = {f1, f2}
  Procs = {p1, p2, p3}
  Options <- NoOptions
  Updates <- NoUpdates
  Ops <- CreateDelete
  MaxEncodings = 1
  Faults = FALSE
  None = None
SYMMETRY Symmetry
INVARIANTS
  StoresAgreeWhenIdle
