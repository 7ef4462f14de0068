CONSTANTS
  Record = {r1, r2}
  Device = {d1, d2}
  User = {u1, u2}
  Nobody = Nobody
  BatchSize = 1
  MaxEvents = 2
SPECIFICATION MCSpec
SYMMETRY Symmetry
INVARIANTS
  OldKeysAreAccountedFor
  ContentsStand
