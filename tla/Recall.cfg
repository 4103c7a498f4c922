CONSTANTS
    s1 = s1
    Events = {e1, e2, e3}
    Shards = {s1}
    ShardOf <- OneShard
    Capacity = 2
    Retries = 2
    None = None
    Reliable = FALSE
SPECIFICATION FairSpec
INVARIANTS NoSilentLoss InOrder
PROPERTIES ClosedDisconnects FlushersExit
CHECK_DEADLOCK FALSE
