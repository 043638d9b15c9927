CONSTANTS
    W = 2
    MW = 1
    Addr <- MCAddr
    CodeAddr <- MCCodeAddr
    Programs <- ZeroProgramSet
    Campaigns <- PermanentLockupCampaigns
    MaxTime = 1
    NoAddr = NoAddr
    DivByZeroTraps = TRUE
SPECIFICATION Spec
PROPERTIES
    LockupRefinement
