SPECIFICATION ClientsSpec
CONSTANTS
    c1 = c1
    c2 = c2
    m1 = m1
    m2 = m2
    Twins = FALSE
    Sites <- TwoMints
    Conns = {c1, c2, c3}
    Api = Api
    Label <- Names
    Isolated = {c1, c3}
    FirstLog <- OldLog
    FirstRows <- OldRows
    FirstSats = 2
    FileStore = TRUE
    EnvFile = TRUE
    HistoryCap = 100
    MaxEvents = 2
    Opened = {"status", "balance", "connections", "history", "activity", "mints", "nuts", "relays", "fees", "config", "logs", "backup", "restore", "export", "revoke", "pay", "receive", "connect", "fund", "withdraw", "nutbits status", "nutbits balance", "nutbits mints", "nutbits nuts", "nutbits relays", "nutbits fees", "nutbits backup"}
    MaxPoints = 3
    ForChange = 1
    ForTrend = 2
    ForBars = 1
    MaxSamples = 3
    MaxOpened = 1
    Operators = {s1, s2}
    Commands = {"connections", "detail", "connect", "revoke", "fund", "withdraw", "restore"}
    Cancelled = Cancelled
    Amounts = {1}
    Waits = TRUE
    MaxCommands = 3
INVARIANTS
    ChartsInventNothing
PROPERTIES
    ActsOnShown
SYMMETRY Symmetry
CHECK_DEADLOCK FALSE
