SPECIFICATION FairSpec
CONSTANTS
  a1 = a1
  a2 = a2
  b1 = b1
  s1 = s1
  s2 = s2
  o = o
  Nodes = {a1, o}
  RuntimeNodes = {a1}
  CheckedNodes = {}
  Team <- JustOne
  SteerAgent <- NoSteers
  Orchestrator = o
  OrchestratorEnabled = FALSE
  Gated = {}
  RequireVerified = {}
  MaxParallel = 1
  MaxRetries = 1
  KillTargets = {}
  MaxAttempts = 1
CHECK_DEADLOCK FALSE
PROPERTIES
  KillWins
