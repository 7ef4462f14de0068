\* A purge on top of unsent changes that can never apply.
CONSTANTS
  d1 = d1
  d2 = d2
  r1 = r1
  r2 = r2
  Record = {r1}
  Device = {d1, d2}
  PageLimit = 2
  MaxChanges = 3
  MaxRefusals = 0
  MaxBreaks = 1
  MaxLate = 0
  MaxFaults = 1
SPECIFICATION Spec
INVARIANT StaleIsBehind
