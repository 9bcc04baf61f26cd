SPECIFICATION Spec
CONSTANTS
    u1 = u1
    u2 = u2
    Backends = {"file", "sqlite", "mysql"}
    BlobFields = {"dedicated", "label"}
    Updates = {u1, u2}
    Writes <- MCWrites
    Reserves = {r1, r2}
    Spends = {s1, s2}
    Days = {1, 2}
    OldCounter = 1
    MysqlOverlaps = TRUE
    Faults = {"flush", "migrate"}
    MaxCrashes = 2
INVARIANTS KeyFitsRows OldStateReachable CountersNeverRepeat SpendIsCounted
PROPERTIES ImplementsConnStore
CHECK_DEADLOCK FALSE
CONSTRAINT Together
SYMMETRY Symmetry
