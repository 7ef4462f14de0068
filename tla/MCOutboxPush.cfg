CONSTANTS
  a = a
  b = b
  c = c
  v = v
  w = w
  Record <- MCRecord
  Vault <- MCVault
  Home <- MCHome
  Bytes <- MCBytes
  MaxChanges = 3
  MaxBytes = 4
  Quota = 3
  MaxAttempts = 2
  MaxWrites = 3
  MaxBad = 1
  MaxBreaks = 1
  MaxEvents = 1
  NoPush = NoPush
SPECIFICATION Spec
CHECK_DEADLOCK FALSE
INVARIANTS
  BatchesRight
  OthersGetThrough
  AccountsRight
  MoveArrivesIfTogether
