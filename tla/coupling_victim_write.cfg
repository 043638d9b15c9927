CONSTANTS
    W = 2
    MW = 1
    Spaces <- RegSpace
    Addr <- MCAddr
    Campaigns <- VictimWriteCampaigns
    MaxTime = 2
    NoAddr = NoAddr
    DivByZeroTraps = TRUE
SPECIFICATION Spec
PROPERTIES
    CouplingConfined
