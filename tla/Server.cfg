CONSTANTS
    c1 = c1
    c2 = c2
    c3 = c3
    l1 = l1
    l2 = l2
    t = t
    t2 = t2
    p = p
    Calls = {c1, c2, c3}
    Tools = {t, t2}
    ToolOf <- TwoTools
    Serialized = {t}
    Paths = {p}
    PathOf <- OnePath
    Orchestrated = TRUE
    MaxChunks = 2
    Lines = {l1, l2}
    Sinks = 2
    Capacity = 1
    LineSize <- Sizes
    RingMax = 3
    RingTrim = 2
    Marker = Marker
    Workloads <- SomeWork
    None = None
SPECIFICATION FairSpec
INVARIANTS StreamInOrder EndAnnounced ArtifactReported LinesAccounted
PROPERTIES CallsReturn ShutdownCompletes
CHECK_DEADLOCK FALSE
