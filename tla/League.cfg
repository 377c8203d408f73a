CONSTANTS
  Player = {1, 2, 3, 4}
  Guest = {4}
  Season = {1, 2}
  HonorAt = 2
  Fresh = 1
  Map = {"z"}
  Reader = {"c1", "c2", "p"}
  Checker = {"c1", "c2"}
  Syncer = {"s1", "s2"}
  Crowner = {"w1"}
  Need <- MCNeed
  Loads <- MCLoads
SPECIFICATION Spec
CHECK_DEADLOCK FALSE
INVARIANTS BeltSound PatchesAgree
PROPERTIES ToldStaysTrue NewsInTheEnd SyncEnds ChampionInTheEnd
