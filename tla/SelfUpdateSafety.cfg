CONSTANTS
    Updaters = {u1, u2}
    Old = Old
    Corrupt = Corrupt
    Torn = Torn
    Down = Down
    Absent = Absent
    None = None
    PowerFails = FALSE
SPECIFICATION FairSpec
INVARIANTS Intact Recoverable BinaryUndone DefinitionUndone RecoveredRuns HealthyCommit
PROPERTIES ImplementsExchange RecoveryRestarts
CHECK_DEADLOCK FALSE
