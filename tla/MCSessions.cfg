CONSTANTS
  Login = {l1, l2}
  Handler = {h1, h2}
  Check = {c1, c2}
  Code = {g1, g2}
  MaxSessions = 3
  MaxClock = 3
  MaxTries = 2
  MaxRequests = 2
  MaxExpiries = 1
  NoRow = NoRow
  Nobody = Nobody
  Wrong = Wrong
SPECIFICATION Spec
SYMMETRY Symmetry
CHECK_DEADLOCK FALSE
INVARIANTS
  EndedStaysEnded
  LiveIsListed
  OldPasswordIsOut
  RevokedDeviceIsOut
  CodesCount
