SPECIFICATION Spec
CONSTANTS
  Ids = {1, 2, 3, 4, 9}
  ShortIds = {1, 2}
  MaxShort = 1
  Agents = {"Coder", "Researcher", "Ghost"}
  Registered = {"Coder", "Researcher"}
  NeedsApproval = {"Coder"}
  Plans <- TwoApprovals
  MaxAttempts = 2
  Clicks = 2
  CanCancel = FALSE
  Lossy = FALSE
INVARIANTS
  ReviewedCodeOnly
CHECK_DEADLOCK FALSE
