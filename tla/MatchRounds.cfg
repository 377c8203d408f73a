SPECIFICATION Spec
CHECK_DEADLOCK FALSE
CONSTANTS
  a = a
  b = b
  t1 = t1
  t2 = t2
  t3 = t3
  t4 = t4
  t5 = t5
  t6 = t6
  t7 = t7
  t8 = t8
  m1 = m1
  m2 = m2
  m3 = m3
  m4 = m4
  m5 = m5
  p1 = p1
  p2 = p2
  NoMap = NoMap
  NoSide = NoSide
  NoTask = NoTask
  NoProtocol = NoProtocol
  Seeds <- TwoSeeds
  Timed <- SomeTimed
  Free <- OnlyFree
  Paid <- OnlyPaid
  Rarity <- PlainRare
  Wanted <- Wants
  Request = {p1, p2}
  TotalRounds = 3
  Map = {m1, m2, m3, m4, m5}
  Task = {t1, t2, t3, t4, t5, t6, t7, t8}
  Protocol = {c1, c2}
  Loads <- MCLoads
SYMMETRY MapSymmetry
INVARIANTS RouteIsPlayed TasksOnce FullDeal SidesShare
PROPERTIES NothingUndone
