CONSTANTS
  d1 = d1
  d2 = d2
  d3 = d3
  note = note
  password = password
  work = work
  Device = {d1, d2}
  Field = {note, password}
  Password = password
  Tag = {}
  Skew <- MCSkew
  SplitPages = FALSE
  MaxWrites = 5
  MaxDeletes = 2
SPECIFICATION Spec
CHECK_DEADLOCK FALSE
INVARIANTS
  LatestEditWins
  VersionsSound
