CONSTANTS
  r1 = r1
  r2 = r2
  u1 = u1
  u2 = u2
  u3 = u3
  u4 = u4
  k1 = k1
  k2 = k2
  NoUser = NoUser
  Own = Own
  Request = {r1, r2}
  User = {u1, u2, u3, u4}
  Name = {"a", "b", "c", "d", "o"}
  NoName = "-"
  Organizer = "o"
  TeamName = {"x", "y"}
  Clip = {k1, k2}
  Shot = {"s1", "s2", "s3"}
  StatKind = {"hours"}
  Loads <- FormerLoads
SPECIFICATION Spec
CHECK_DEADLOCK FALSE
INVARIANT FormerNicksStay
