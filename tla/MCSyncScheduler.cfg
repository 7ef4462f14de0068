CONSTANTS
  Caller = {f1}
  MaxWrites = 1
  MaxFaults = 2
  MaxPings = 1
  MaxToggles = 2
SPECIFICATION Spec
CHECK_DEADLOCK FALSE
INVARIANTS
  RoundsInOrder
  FreshIsFresh
PROPERTIES
  WritesGetOut
  CallsReturn
