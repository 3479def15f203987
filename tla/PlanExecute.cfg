SPECIFICATION FairSpec
CONSTANTS
  Ids = {1, 2, 3, 4, 9}
  ShortIds = {1, 2}
  MaxShort = 2
  Agents = {"Coder", "Researcher", "Ghost"}
  Registered = {"Coder", "Researcher"}
  NeedsApproval = {"Coder"}
  Plans <- MCPlans
  MaxAttempts = 2
  Clicks = 1
  CanCancel = TRUE
  Lossy = TRUE
INVARIANTS
  DependenciesInjected
  ReviewedCodeOnly
  AnswerLast
  SignalsMatchRequests
PROPERTIES
  ResultsFinal
  KeepsPromise
  OnlyApprovalBlocks
CHECK_DEADLOCK FALSE
