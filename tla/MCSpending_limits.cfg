SPECIFICATION Spec
CONSTANTS
    i1 = i1
    i2 = i2
    Api = Api
    Sats <- MCSats
    Conns = {d1, d2, s1}
    Dedicated = {d1, d2}
    Invoices = {i1, i2}
    Requests = {r1, r2}
    Admins = {a1, a2}
    AdminKinds = {"fund", "withdraw", "revoke"}
    PayCallers = {d1, s1, Api}
    InitialPool = 5
    InitialFunds = 2
    FundSats = 1
    MintReserve = 2
    FeeReservePct = 1
    ServiceFeePpm = 500000
    ServiceFeeBase = 0
    MaxPaymentSats = 2
    DailyLimitSats = 4
    ConnMaxPaymentSats = 0
    ConnMaxDailySats = 1
    LiveConns = FALSE
    StoreFails = TRUE
    LargestSats = 2
    MaxRunning = 3
CHECK_DEADLOCK FALSE
SYMMETRY Symmetry
INVARIANTS DailyOverrunBounded
PROPERTIES OverdraftBounded ShortfallHasCause
