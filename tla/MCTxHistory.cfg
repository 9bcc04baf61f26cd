SPECIFICATION HistFairSpec
CONSTANTS
    c1 = c1
    a0 = a0
    Numbered <- SmallNumbered
    Api = a0
    Txs = {1, 2, 3}
    Home <- SmallHome
    Type <- SmallType
    Stamp <- SmallStamp
    Latest = 3
    Early <- SmallEarly
    Rows = TRUE
    Queries <- SmallQueries
    Page = 2
    Default = 1
    More = 1
    Cap = 3
    Recent = 1
    Reads = {f1, f2}
    Clients = {"app", "browser", "watch", "cli"}
    Revocable = {c1}
    MaxRetries = 1
    MaxChanges = 1
    MaxStops = 1
CONSTRAINT Together
INVARIANTS
    HistoryComplete
PROPERTIES
    ViewCatchesUp
CHECK_DEADLOCK FALSE
