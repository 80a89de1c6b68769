SPECIFICATION Spec
CONSTANTS
  Me = Me
  It = It
  s1 = s1
  Player <- ThePlayer
  Computer <- TheComputer
  Secret <- OneSecret
  NoSecret = NoSecret
  GuessBound = 5
  GAME_PROCESS_COUNT_LIMIT = 1
  Brain <- Brains
  FirstBrain = 1
  HistoryRows = 3
  MaxGuesses = 6
INVARIANTS
  ControlsFitGame
  RowsShowHistory
  BreaksOnlyThen
CHECK_DEADLOCK FALSE
