SPECIFICATION FairSpec
CONSTANTS
  Turns = {c1}
  GraphTurns = {}
  None = None
  Window = 2
  MaxAttempts = 3
  Failing = TRUE
  Overrun = TRUE
INVARIANTS
  MessagesHaveSession
  SavedInBoth
  AnswersHaveQuestions
PROPERTIES
  SavingEnds
CHECK_DEADLOCK FALSE
