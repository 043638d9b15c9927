CONSTANTS
    W = 2
    MW = 1
    Spaces <- RegSpace
    Addr <- MCAddr
    Campaigns <- IntermittentCampaigns
    MaxTime = 3
    NoAddr = NoAddr
    DivByZeroTraps = TRUE
SPECIFICATION FairSpec
PROPERTIES
    AccessCompletes
CHECK_DEADLOCK FALSE
