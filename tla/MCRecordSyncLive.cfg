\* A push given up on still arrives; liveness.
CONSTANTS
  d1 = d1
  d2 = d2
  r1 = r1
  r2 = r2
  Record = {r1}
  Device = {d1, d2}
  PageLimit = 1
  MaxChanges = 3
  MaxRefusals = 0
  MaxBreaks = 0
  MaxLate = 1
  MaxFaults = 1
SPECIFICATION FairSpec
PROPERTIES
  AppliedOnce
  Drains
