SPECIFICATION CodexSpec
CONSTANTS
    t1 = t1
    t2 = t2
    thread = thread
    None = None
    Turns <- MCTurns
    SessionOf <- MCSessionOf
    Sessions = {thread}
    Resumed = {thread}
    KillTargets = {t1}
    EarlyRetire = FALSE
    MaxPairs = 2
    MaxFaults = 1
    MaxTries = 2
INVARIANT Inherit
CHECK_DEADLOCK FALSE
