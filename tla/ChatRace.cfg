SPECIFICATION FairSpec
CONSTANTS
  Turns = {c1, c2, g1}
  GraphTurns = {g1}
  None = None
  Window = 4
  MaxAttempts = 2
  Failing = FALSE
  Overrun = FALSE
INVARIANTS
  WindowIsRecent
  WindowBound
  RacesLoseNoTurn
PROPERTIES
  EveryTurnSaved
CHECK_DEADLOCK FALSE
