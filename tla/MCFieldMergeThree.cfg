CONSTANTS
  d1 = d1
  d2 = d2
  d3 = d3
  note = note
  password = password
  work = work
  Device = {d1, d2, d3}
  Field = {note}
  Password = password
  Tag = {work}
  Skew <- MCNoSkew
  SplitPages = FALSE
  MaxWrites = 4
  MaxDeletes = 2
SYMMETRY DeviceSymmetry
SPECIFICATION Spec
CHECK_DEADLOCK FALSE
INVARIANTS
  NothingReplacedReturns
  EditBeatsDelete
