CONSTANTS
    Requesters = {c1, c2}
    maxConsecutiveFailures = 3
SPECIFICATION BackplaneFair
INVARIANT BreakerConsistent
PROPERTY Recovers
