SPECIFICATION Spec
CONSTANTS
  Callers = {c1}
  BootLookup = boot
  EndLookup = ending
  MaxMutations = 1
  MaxFlips = 1
  Flaky = FALSE
INVARIANT RecheckIsCurrent
CHECK_DEADLOCK FALSE
