SPECIFICATION SrvFairSpec
CONSTANTS
    i1 = i1
    c1 = c1
    l1 = l1
    l2 = l2
    Initial = {i1}
    Creates = {c1}
    Shared = {}
    Links = {l1, l2}
    KeyOrder <- ByKey
    Revocable = {i1, c1}
    Limit = 1
    Window = 1
    MaxTime = 3
    MaxCrashes = 1
    Faults = {"storeWrite"}
INVARIANTS ReplyIsOwnKey HandedOutIsDedicated RateBound
PROPERTIES EveryCreationEnds
CHECK_DEADLOCK FALSE
