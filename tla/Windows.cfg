CONSTANTS
    Updaters = {u1, u2}
    Releases = {1, 2}
    Requests <- SomeRequests
    Starts = {0, 1, 2}
    MaxKills = 1
    None = None
SPECIFICATION Spec
INVARIANTS OldImageKept OneReceipt
PROPERTY ImplementsExchange
CHECK_DEADLOCK FALSE
