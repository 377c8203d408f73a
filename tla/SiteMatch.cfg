CONSTANTS
  r1 = r1
  r2 = r2
  m1 = m1
  m2 = m2
  m3 = m3
  u1 = u1
  u2 = u2
  u3 = u3
  NoMatch = NoMatch
  NoUser = NoUser
  Match = {m1, m2, m3}
  User = {u1, u2, u3}
  Request = {r1, r2}
  Loads <- MCLoads
SPECIFICATION Spec
CHECK_DEADLOCK FALSE
INVARIANTS SeatsAgree
PROPERTIES AirPromise FinishedClosed LeavesPool
