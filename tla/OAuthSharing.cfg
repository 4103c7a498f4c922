CONSTANTS
    Processes = {p1, p2}
    Threads = {t1}
    Nobody = Nobody
    MaxGrants = 4
    AlwaysRotates = FALSE
    Faults = {"response", "load", "save", "chmod", "crash"}
SPECIFICATION Spec
INVARIANT PersistBeforeUse
PROPERTY NeverReverts
SYMMETRY OAuthSymmetry
