SPECIFICATION OrderedSpec
CONSTANTS
    i1 = i1
    i2 = i2
    Api = Api
    Sats <- MCSats
    Conns = {d1, s1}
    Dedicated = {d1}
    Invoices = {i1}
    Requests = {r1, r2, r3}
    Admins = {a1}
    AdminKinds = {"revoke"}
    PayCallers = {d1, s1, Api}
    InitialPool = 8
    InitialFunds = 4
    FundSats = 2
    MintReserve = 1
    FeeReservePct = 25
    ServiceFeePpm = 500000
    ServiceFeeBase = 0
    MaxPaymentSats = 0
    DailyLimitSats = 0
    ConnMaxPaymentSats = 0
    ConnMaxDailySats = 0
    LiveConns = TRUE
    StoreFails = TRUE
    LargestSats = 2
    MaxRunning = 3
CHECK_DEADLOCK FALSE
INVARIANTS PaidIsRecorded SuccessMeansPaid
PROPERTIES PaidIsForever EveryRequestAnswered
