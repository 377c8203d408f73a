SPECIFICATION Spec
CHECK_DEADLOCK FALSE
CONSTANTS
  p1 = p1
  p2 = p2
  p3 = p3
  p4 = p4
  c1 = c1
  c2 = c2
  t1 = t1
  t2 = t2
  t3 = t3
  t4 = t4
  t5 = t5
  t6 = t6
  r1 = r1
  NoSide = NoSide
  NoTour = NoTour
  NoRow = NoRow
  Player = {p1, p2, p3, p4}
  Team = {c1, c2}
  Tour = {t1, t2, t3, t4, t5, t6}
  Guest = {p4}
  Sides <- MCSides
  Imported <- MCImported
  Request = {r1}
  Season = {1, 2}
  Loads <- MCLoads
INVARIANTS RatingsAgree ResultsCount HistoryIsReplay
