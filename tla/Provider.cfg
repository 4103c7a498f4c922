CONSTANTS
    Callers = {1, 2}
    Docs <- SomeDocs
    TTL = 2
    RetryAfter = 1
    Horizon = 2
    None = None
    Lower <- LowerOf
    Order <- OrderOf
    Facts <- FactsOf
    Static <- StaticOf
    Usable <- UsableOf
    Rank <- RankOf
    Score <- ScoreOf
    Managed = {"auto"}
    RegionGated = {"b"}
    MaxListed = 3
    MaxPerGroup = 2
    MaxPages = 2
    MaxAge = 10
    MinContext = 5
    MinExpiry = 3
    Tasks <- SomeTasks
    Replies <- SomeReplies
    Listings <- ListingsOf
    Cap = 6
    Width = 7
SPECIFICATION CallSpec
INVARIANT CatalogSound
PROPERTY RetriesJustified
CHECK_DEADLOCK FALSE
