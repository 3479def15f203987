SPECIFICATION Spec
CONSTANTS
  Sessions = {s1, s2}
  Workflows = {w1, w2}
  Handlers = {h1, h2}
  None = None
  OneAtATime = FALSE
  Ambiguous = TRUE
  MaxBuffered = 1
  MaxRestarts = 1
SYMMETRY Interchangeable
INVARIANTS
  EntriesStarted
  AnswersStayInSession
CHECK_DEADLOCK FALSE
