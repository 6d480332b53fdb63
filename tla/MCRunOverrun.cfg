SPECIFICATION FairSpec
CONSTANTS
  a1 = a1
  a2 = a2
  b1 = b1
  s1 = s1
  s2 = s2
  o = o
  Nodes = {a1, b1, s1, o}
  RuntimeNodes = {}
  CheckedNodes = {}
  Team <- OneThenOne
  SteerAgent <- OneSteer
  Orchestrator = o
  OrchestratorEnabled = TRUE
  Gated = {1}
  RequireVerified = {}
  MaxParallel = 1
  MaxRetries = 1
  KillTargets = {}
  MaxAttempts = 1
CHECK_DEADLOCK FALSE
INVARIANTS
  GateBudget
