SPECIFICATION FairSpec
CONSTANTS
    Consoles = {g1}
    Shells = {t1, t2}
    Tui = t1
    Hot = {"SERVICE_FEE_PPM", "LOG_LEVEL"}
    Fee = "SERVICE_FEE_PPM"
    Fees <- FeeTextsBad
    Levels <- LevelTexts
    Urls = {}
    Entered <- EnteredAll
    Default <- DefaultAll
    Refused <- Bad
    Ignored <- Bad
    Mints = {}
    Installed <- Example
    ReadOnly = FALSE
    Interactive = TRUE
    StaticToken = TRUE
    MaxEdits = 2
    MaxStops = 2
    MaxWizards = 2
    MaxKeys = 3
    MaxEvents = 3
CONSTRAINT Together
 
PROPERTIES SeedLostBySecondSetup LivePanelCatchesUp
CHECK_DEADLOCK FALSE
