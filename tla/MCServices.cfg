CONSTANTS
  Ids = {1, 2, 3}
  Agents = {"Researcher"}
  Plans <- MCPlans
  Users = {u1, u2}
  System = System
  AgentTypes = {"Coder"}
  CfAbsent = CfAbsent
  Emails = {e1, e2}
  Passwords = {p1, p2}
  Accounts = {i1, i2}
  RgRequests = {r1, r2}
  TokenLife = 2
  MaxTime = 3
  c1 = c1
  c2 = c2
  TargetTickers <- MCTickers
  MaxDay = 2
  MaxLosses = 3
  MaxFrames = 4
  SbNames = {f1, f2, f3}
  SbMaxLines = 4
  SbMaxLeaks = 1
  MaxHits = 3
  SkMaxResults = 3
SPECIFICATION MCSpec
INVARIANTS EachStepOnce DependenciesEarlier AsEarlyAsPossible
INVARIANTS ModelCalls AccountsAreOne BriefAnswersSound ScreenIsTrue SandboxClean BestSkills
PROPERTIES ServicesEnd
CHECK_DEADLOCK FALSE
