SPECIFICATION Spec
CONSTANTS
  t1 = t1
  t2 = t2
  thread = thread
  None = None
  Turns <- MCTurns
  SessionOf <- MCSessionOf
  Sessions = {thread}
  Resumed = {thread}
  KillTargets = {t1}
  EarlyRetire = FALSE
  MaxPairs = 2
  MaxFaults = 1
  MaxTries = 2
  Calls = {k1, k2}
  MaxSpawns = 3
  Logins = {l1, l2}
  CodexLogins = {l1}
  Accounts = {A, B}
  First = A
  Nobody = Nobody
  MaxVersion = 2
  Crashing = TRUE
INVARIANTS
  ThreadLoaded
  ResumedKeepsThread
  OwnReply
  
PROPERTIES
  OwnEnd
  KilledTurnEnds
  CeremonyEnds
CHECK_DEADLOCK FALSE
