SPECIFICATION PagesSpec
CONSTANTS
    i1 = i1
    i2 = i2
    c1 = c1
    Initial = {i1, i2}
    Creates = {c1}
    Shared = {}
    Links = {}
    KeyOrder <- ByKey
    Revocable = {i1, i2, c1}
    Limit = 1
    Window = 1
    MaxTime = 0
    MaxCrashes = 1
    Faults = {"storeWrite"}
    Fetches = {f1, f2}
    MaxOpens = 2
    Mints = {m1, m2}
    Receipts = {r1, r2}
    Invoices = {"i1"}
    Addresses = {"a1", "a2"}
    Payments = {"p1", "p2"}
    Tools = {"receivePage", "receiveCommand", "payPage", "payCommand"}
    MaxAttempts = 2
    MaxInputs = 2
    MaxSwitches = 1
    MoneyFaults = {"timeout", "unreachable", "mintSilent"}
    Keep = 2
    LogCap = 3
    PageLimit = 2
    TailLimit = 2
    LogFetches = {g1, g2}
    MaxEntries = 3
    MaxPicks = 2
    Used = {"warn", "debug"}
    Viewers = {"page", "command"}
PROPERTIES
    RevokeHitsChosen
    ListConverges
    PaidIsShown
CHECK_DEADLOCK FALSE
