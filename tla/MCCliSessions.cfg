SPECIFICATION PartSpec
CONSTANTS
  r1 = r1
  r2 = r2
  r3 = r3
  r4 = r4
  resumed = resumed
  fresh = fresh
  Runs = {r1, r2, r3, r4}
  Keys = {resumed, fresh}
  KeyOf <- MCKeyOf
  NoRun = NoRun
  Candidates = {n1}
  Applies = {x1, x2}
  MaxTries = 2
  MaxWork = 1
  MaxJams = 1
  MaxHeads = 2
  MaxFalls = 1
  w1 = w1
  w2 = w2
  Owner <- MCOwner
  NoSpace = NoSpace
  MaxRev = 3
  MaxCalls = 2
  MaxFrames = 1
  MaxBreaks = 1
  MaxLogins = 2
  MaxRequests = 4
CHECK_DEADLOCK FALSE
INVARIANTS
  OneChildPerKey
  
  PageIsOwn
  PageFollows
  
PROPERTIES
  KilledIsAnswered
  ImplementsFifo
