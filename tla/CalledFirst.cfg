SPECIFICATION Spec
CONSTANTS
  u1 = u1
  u2 = u2
  u3 = u3
  u4 = u4
  e1 = e1
  e2 = e2
  e3 = e3
  e4 = e4
  User = {u1, u2, u3}
  Team <- NoTeams
  Entry = {e1, e2, e3}
  MatchId = {m1}
  NoEntry = NoEntry
  NoMatch = NoMatch
  Vetted = {u1, u2, u3}
  Stub = {}
  Holder = {u1}
  Guest = {u2, u3}
  Formats = {"1x1"}
  Modes = {}
  MaxSettling = 0
  QueueMaxEntries = 3
SYMMETRY Symmetry
VIEW Essence
CHECK_DEADLOCK FALSE
INVARIANTS CalledStandFirst
