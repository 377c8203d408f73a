SPECIFICATION Spec
CHECK_DEADLOCK FALSE
CONSTANTS
  u1 = u1
  u2 = u2
  u3 = u3
  duel = duel
  pairs = pairs
  p1 = p1
  p2 = p2
  NoRequest = NoRequest
  NoMatch = NoMatch
  Team <- Sides
  Deltas <- Two
  Request = {p1, p2}
  User = {u1, u2, u3}
  Match = {duel, pairs}
  Season = {1, 2}
  Loads <- MCLoads
SYMMETRY RequestSymmetry
INVARIANTS TimesApart NeverInDebt SpentIsPlaced OneTokenASide
