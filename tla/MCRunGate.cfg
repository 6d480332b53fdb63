SPECIFICATION FairSpec
CONSTANTS
  a1 = a1
  a2 = a2
  b1 = b1
  s1 = s1
  s2 = s2
  o = o
  Nodes = {a1, a2, b1, o}
  RuntimeNodes = {a2}
  CheckedNodes = {a1}
  Team <- TwoThenOne
  SteerAgent <- NoSteers
  Orchestrator = o
  OrchestratorEnabled = TRUE
  Gated = {1}
  RequireVerified = {1}
  MaxParallel = 1
  MaxRetries = 1
  KillTargets = {a2, o}
  MaxAttempts = 3
CHECK_DEADLOCK FALSE
INVARIANTS
  GateBudget
PROPERTIES
  RetryHonoured
  RunEnds
