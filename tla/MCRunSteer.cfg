SPECIFICATION FairSpec
CONSTANTS
  a1 = a1
  a2 = a2
  b1 = b1
  s1 = s1
  s2 = s2
  o = o
  Nodes = {a1, s1, s2, o}
  RuntimeNodes = {}
  CheckedNodes = {}
  Team <- JustOne
  SteerAgent <- TwoSteers
  Orchestrator = o
  OrchestratorEnabled = TRUE
  Gated = {1}
  RequireVerified = {}
  MaxParallel = 1
  MaxRetries = 1
  KillTargets = {s1}
  MaxAttempts = 1
CHECK_DEADLOCK FALSE
INVARIANTS
  QuietWhenIdle

  
