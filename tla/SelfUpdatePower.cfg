CONSTANTS
    Updaters = {u1, u2}
    Old = Old
    Corrupt = Corrupt
    Torn = Torn
    Down = Down
    Absent = Absent
    None = None
    PowerFails = TRUE
SPECIFICATION Spec
INVARIANT OldNeverReturns
SYMMETRY UpdaterSymmetry
CHECK_DEADLOCK FALSE
