\* Two pushes over two vaults, a device that pulls pages of one row, and two
\* changes of its user's memberships.
CONSTANTS
  p1 = p1
  p2 = p2
  p3 = p3
  d1 = d1
  d2 = d2
  ra = ra
  rb = rb
  NoPush = NoPush
  Record = {ra, rb}
  Vault <- MCVault
  Push = {p1, p2}
  Plans <- MCPlans
  Device = {d1}
  PageLimit = 1
  MaxMoves = 2
SPECIFICATION FairSpec
INVARIANTS
  ReadsStayCurrent
  CursorCompleteUnlessTorn
  CaughtUpIsExact
PROPERTIES
  ImplementsLog
  PushesEnd
  CatchesUp
