SPECIFICATION Spec
CONSTANTS
  Memes = {m1, m2}
  Files = {f1, f2}
  Procs = {p1}
  Options <- DedupeOnly
  Updates <- NoUpdates
  Ops <- CreateRecompute
  MaxEncodings = 1
  Faults = FALSE
  None = None
SYMMETRY Symmetry
INVARIANTS
  BlobsBehindDocuments
