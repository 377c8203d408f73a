SPECIFICATION Spec
CONSTANTS
  A = A
  B = B
  a1 = a1
  a2 = a2
  t1 = t1
  t2 = t2
  p1 = p1
  p2 = p2
  NoSide = NoSide
  NoUser = NoUser
  NoTask = NoTask
  NoLegendary = NoLegendary
  Request = {p1, p2}
  Loads <- MCLoads
  Seeds <- MCSeeds
  User = {a1, a2}
  Roster <- MCRoster
  Task = {t1, t2}
  Owner <- MCOwner
  Timed = {t2}
  Worth <- MCWorth
  Legendary = {l1}
  Deltas <- MCDeltas
  KnockPoints = 3
  ContractCrossPoints = 1
  LegendaryPoints = 10
SYMMETRY Symmetry
VIEW Seen
CHECK_DEADLOCK FALSE
INVARIANTS RowsFit LogExplainsScore ResultFollows
PROPERTIES OwnerKeepsTask
