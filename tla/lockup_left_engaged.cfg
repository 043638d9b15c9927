CONSTANTS
    W = 2
    MW = 1
    Addr <- MCAddr
    CodeAddr <- HighCodeAddr
    Programs <- HighProgramSet
    Campaigns <- TransientLockupCampaigns
    MaxTime = 3
    NoAddr = NoAddr
    DivByZeroTraps = TRUE
SPECIFICATION Spec
PROPERTIES
    LockupRestoredOnLeave
