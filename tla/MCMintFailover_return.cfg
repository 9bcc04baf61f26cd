SPECIFICATION CastSpec
CONSTANTS
    NumMints = 3
    Invoices = {o1}
    Payments = {p1}
    Checkers = {k1}
    Admins = {a1}
    StoreFails = TRUE
    MaxCrashes = 1
INVARIANTS ActiveWalletLoaded
PROPERTIES  FailoverExhaustive PrimaryReturns EveryCallAnswered
