SPECIFICATION Spec
CONSTANTS
  Memes = {m1, m2}
  Files = {f1}
  Procs = {p1, p2}
  Options <- NoDedupe
  Updates <- AnyUpdate
  Ops <- AnyOp
  MaxEncodings = 1
  Faults = TRUE
  None = None
SYMMETRY Symmetry
INVARIANTS
  TypeOK
  BlobsBehindDocuments
  ManualTextIsMarkedEdited
