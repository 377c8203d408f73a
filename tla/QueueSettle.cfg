SPECIFICATION Spec
CONSTANTS
  u1 = u1
  u2 = u2
  u3 = u3
  u4 = u4
  e1 = e1
  e2 = e2
  e3 = e3
  e4 = e4
  User = {u1, u2, u3}
  Team <- TwoTeams
  Entry = {e1, e2, e3}
  MatchId = {m1, m2}
  NoEntry = NoEntry
  NoMatch = NoMatch
  Vetted = {u1, u2}
  Stub = {u2}
  Holder = {}
  Guest = {}
  Formats = {"1x1", "2x2"}
  Modes = {"pause", "resume"}
  MaxSettling = 2
  QueueMaxEntries = 2
SYMMETRY EntrySymmetry
VIEW Essence
CHECK_DEADLOCK FALSE
INVARIANTS MatchAgrees PerformedCounts OnePlacePerPlayer ConfirmedForThisCall
PROPERTIES ClosedStaysClosed LiveMatchIsSafe
