SPECIFICATION FairSpec
CONSTANTS
    NwcInvoices = {n1}
    ApiInvoices = {a1}
    Lookups = {l1, l2}
    WebSocket = TRUE
    InOrder = TRUE
    MaxTries = 2
    MaxPolls = 2
    MaxSilent = 1
    MaxCrashes = 1
    Faults = {"lostAnswer", "storeWrite"}
INVARIANTS CreditedOnce SettledMeansStored IssuedIsAccounted
PROPERTIES PaidIsMinted
CHECK_DEADLOCK FALSE
