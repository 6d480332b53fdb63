SPECIFICATION Spec
CONSTANTS
  Page = 2
  Ring = 2
  MaxEvents = 3
  MaxBreaks = 1
  t1 = t1
  t2 = t2
  t3 = t3
  a = a
  b = b
  Turns <- MCTurns
  SessionOf <- MCSessionOf
  NoTurn = NoTurn
  MaxGen = 1
INVARIANTS
  
  
  EvidenceImmutable
  OnlyKilledEndKilled
PROPERTIES
  RecoveringEnds
  KilledClaudeTurnEnds
CHECK_DEADLOCK FALSE
