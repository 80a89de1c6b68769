SPECIFICATION Spec
CONSTANTS
  p1 = p1
  p2 = p2
  p3 = p3
  c1 = c1
  c2 = c2
  s1 = s1
  s2 = s2
  Player <- ThreePlayers
  Computer <- TwoComputers
  Secret <- TwoSecrets
  NoSecret = NoSecret
  GuessBound = 5
  GAME_PROCESS_COUNT_LIMIT = 3
  MaxStep = 4
SYMMETRY Symmetry
INVARIANTS
  RoundBand
  RoundOpen
  FinishedMeansDone
  WinnersAreBest
  WinnerOnTime
  SameSecretForAll
  PlacesRankTheRace
PROPERTIES
  FairRaceSpec
