CONSTANTS
  User = {ann, bob, cem}
  Request = {r1, r2}
  Given = {"owner", "manage"}
  MaxAsked = 3
  NoUser = NoUser
  NoRequest = NoRequest
SPECIFICATION Spec
SYMMETRY Symmetry
CHECK_DEADLOCK FALSE
INVARIANTS
  PutsUnderCurrentKey
  RotationsSound
  ExMembersMark
  MembersReachTheKey
  OwnerStaysUnlessStale
  NoCircleInOrder
