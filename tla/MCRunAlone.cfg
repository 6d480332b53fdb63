SPECIFICATION AloneSpec
CONSTANTS
  a1 = a1
  a2 = a2
  b1 = b1
  s1 = s1
  s2 = s2
  o = o
  Nodes = {a1, a2, b1, s1, o}
  RuntimeNodes = {}
  CheckedNodes = {}
  Team <- TwoThenOne
  SteerAgent <- OneSteer
  Orchestrator = o
  OrchestratorEnabled = FALSE
  Gated = {1}
  RequireVerified = {}
  MaxParallel = 2
  MaxRetries = 1
  KillTargets = {}
  MaxAttempts = 4
  Runs = {r1, r2}
  Old = {r1}
  Kept = 1
  MaxReopens = 1
  MaxCrashes = 1
  MaxFailures = 1
  MaxTroubles = 2
  Launches = {l1, l2}
  Stops = {p1}
  Nobody = Nobody
  MaxKills = 1
  MaxStops = 2
  Callers = {c1}
  BootLookup = boot
  EndLookup = ending
  MaxMutations = 1
  MaxFlips = 1
  Flaky = TRUE
  MaxContents = 4
  MaxStalls = 2
  k1 = k1
  k2 = k2
  k3 = k3
  Clients <- MCClients
  Flows <- MCFlows
  CopyNames <- MCCopyNames
  Workspaces = {w1, w2}
  Known = {w1}
  f1 = f1
  f2 = f2
  Absent = Absent
  MaxFaults = 1
  Askers = {q1, q2}
  ml = ml
  mx = mx
  my = my
  mz = mz
  None = None
  Names <- MCNames
  Ids <- MCIds
  Slugs <- MCSlugs
  Latest = {ml}
  Variants = {mz}
  Times = {0, 1}
  MaxModels = 2
  MaxFetches = 2
  MaxChunks = 1
  Requests = {i1, i2}
  Probes = {t1, t2, t3}
  MaxVersion = 2
  MaxPieces = 3
  MaxTurns = 2
  Full = 2
  shipped = shipped
  Builtins = {shipped}
  Customs = {own}
  Sites = {d1, d2}
  FirstSites = {d1}
  Preferred <- MCPreferred
  NoSite = NoSite
  NoFlow = NoFlow
  MaxEdits = 2
  MaxActions = 2
  MaxLosses = 1
CHECK_DEADLOCK FALSE
INVARIANTS
  AloneTypeOK
  NoStageLost
  Recovered
  OrphansSwept
  
  NoServerLeft
  ResolveHeals
  GroupReaped
  
  NothingLost
  OrderIrrelevant
  
  TextIsWhole
  
PROPERTIES
  KillWins
