\* Two records, one or both of them there already, four changes in all, one chain
\* refused, one round broken off or one push given up on, pages of one row.
CONSTANTS
  d1 = d1
  d2 = d2
  r1 = r1
  r2 = r2
  Record = {r1, r2}
  Device = {d1, d2}
  PageLimit = 1
  MaxChanges = 4
  MaxRefusals = 1
  MaxBreaks = 1
  MaxLate = 1
  MaxFaults = 1
SPECIFICATION MCSpec
SYMMETRY Symmetry
INVARIANTS
  VersionsInOrder
  Converged
  NoEditLost
