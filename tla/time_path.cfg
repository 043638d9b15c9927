CONSTANTS
    W = 2
    MW = 1
    Addr <- MCAddr
    CodeAddr <- MCCodeAddr
    Programs <- ProgramSet
    Campaigns <- TimeCampaigns
    MaxTime = 3
    NoAddr = NoAddr
    DivByZeroTraps = TRUE
SPECIFICATION Spec
INVARIANTS
    TimeTypeOK
PROPERTIES
    LockupRefinement
