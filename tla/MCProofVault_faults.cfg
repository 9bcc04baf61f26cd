SPECIFICATION Spec
CONSTANTS
    Proofs = {x1, x2, x3, x4, x5}
    InitialProofs = {x1, x2}
    Payers = {p1, p2}
    Minters = {m1}
    Amount = 1
    FeeReserve = 1
    MintAmount = 1
    MaxRestores = 1
    MaxCrashes = 1
    LiveArray = FALSE
    Faults = {"lostAnswer", "pendingMelt", "storeWrite", "recoveryWrite"}
SYMMETRY Symmetry
INVARIANTS NoDoubleSelection NoSilentLoss
