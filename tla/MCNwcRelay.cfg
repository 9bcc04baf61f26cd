SPECIFICATION FairSpec
CONSTANTS
    NumRelays = 2
    Requests = {e1}
    MaxForeign = 2
    Lifetime = 1
    Skew = 1
    DedupMax = 2
    DedupTTL = 0
    MaxTime = 2
    MaxDrops = 1
    MaxCrashes = 1
PROPERTIES ReplayIsExcused RevokedStaysQuiet RelaysComeBack
CHECK_DEADLOCK FALSE
