CONSTANTS
    W = 2
    MW = 1
    Spaces <- MemSpace
    Addr <- MCAddr
    Campaigns <- MemCampaigns
    MaxTime = 2
    NoAddr = NoAddr
    DivByZeroTraps = TRUE
SPECIFICATION Spec
PROPERTIES
    PermanentFaultActiveAfterAccess
