SPECIFICATION RestoreSpec
CONSTANTS
  p1 = p1
  p2 = p2
  p3 = p3
  c1 = c1
  s1 = s1
  Player <- ThreePlayers
  Computer <- OneComputer
  Secret <- OneSecret
  NoSecret = NoSecret
  GuessBound = 4
  GAME_PROCESS_COUNT_LIMIT = 3
  MaxStep = 3
INVARIANTS
  NobodyLeftBehind
  RaceStaysFair
PROPERTIES
  RestoreIsExact
  FinishGameTerminates
