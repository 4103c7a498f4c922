CONSTANTS
    Callers = {c1, c2}
    MaxSessions = 3
SPECIFICATION FairSpec
INVARIANTS CurrentOpen FreshSession
PROPERTY StartReturns
CHECK_DEADLOCK FALSE
