SPECIFICATION Spec
CONSTANTS
  p1 = p1
  p2 = p2
  c1 = c1
  c2 = c2
  s1 = s1
  g1 = g1
  g2 = g2
  Player <- TwoPlayers
  Computer <- TwoComputers
  Secret <- OneSecret
  NoSecret = NoSecret
  GuessBound = 2
  GAME_PROCESS_COUNT_LIMIT = 2
  GameId <- OneGame
  PLAYER_GAMES_LIMIT = 1
  MaxStep = 1
  SameId <- DistinctIds
  Report <- NoReports
SYMMETRY Symmetry
INVARIANTS
  ComputersAreOwned
CHECK_DEADLOCK FALSE
