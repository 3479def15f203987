SPECIFICATION Spec
CONSTANTS
  Sessions = {s1, s2}
  Workflows = {w1, w2, w3}
  Handlers = {h1, h2}
  None = None
  OneAtATime = TRUE
  Ambiguous = FALSE
  MaxBuffered = 1
  MaxRestarts = 0
SYMMETRY Interchangeable
INVARIANTS
  TracksActive
  AnswersReachAsker
CHECK_DEADLOCK FALSE
