CONSTANTS
  Device = {d1, d2}
  MaxSecrets = 3
  MaxFaults = 2
  WeakFaults = 1
  NoProfile = NoProfile
  NoReset = NoReset
  Nobody = Nobody
SPECIFICATION Spec
SYMMETRY Symmetry
CHECK_DEADLOCK FALSE
CONSTRAINT Bound
INVARIANTS
  EachSwapProvesTheCurrent
  
  UsersKnow
  ResetIsKept
