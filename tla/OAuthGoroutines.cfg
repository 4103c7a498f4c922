CONSTANTS
    Processes = {p1}
    Threads = {t1, t2}
    Nobody = Nobody
    MaxGrants = 4
    AlwaysRotates = FALSE
    Faults = {"response", "save", "chmod", "crash"}
SPECIFICATION FairSpec
INVARIANTS SingleFlight RetryUsesNewToken NeverReuses StoreInForce
PROPERTY FollowersReturn
