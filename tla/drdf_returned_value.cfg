CONSTANTS
    W = 2
    MW = 1
    Spaces <- RegSpace
    Addr <- MCAddr
    Campaigns <- RegCampaigns
    MaxTime = 2
    NoAddr = NoAddr
    DivByZeroTraps = TRUE
SPECIFICATION Spec
PROPERTIES
    DeceptiveReadReturnsForced
