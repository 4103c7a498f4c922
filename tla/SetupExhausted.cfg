CONSTANTS
    Ports = {p1}
    Blank = Blank
    Unfit = Unfit
    Broken = Broken
    None = None
    Second = 2
    DefaultInterval = 3
    SlowDown = 2
    Expiries = {7}
    Intervals = {0, 1, 4}
    Lower <- LowerOf
    Order <- OrderOf
    Facts <- FactsOf
    Static <- StaticOf
    Usable <- UsableOf
    Rank <- RankOf
    Score <- ScoreOf
    Managed = {}
    RegionGated = {}
    MaxListed = 3
    MaxPerGroup = 1
    MaxPages = 2
    MaxAge = 10
    MinContext = 5
    MinExpiry = 3
    MaxSearch = 2
    Queries = {"a", "z"}
    Typed = {"b"}
    Answers <- AnswersOf
    Picks <- SomePicks
    Attempts = {1}
    Runs <- PipedOllama
SPECIFICATION FairSpec
PROPERTY RepromptingEnds
CHECK_DEADLOCK FALSE
