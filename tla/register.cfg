CONSTANTS
    W = 2
    MW = 1
    Spaces <- RegSpace
    Addr <- MCAddr
    Campaigns <- RegisterCampaigns
    MaxTime = 2
    NoAddr = NoAddr
    DivByZeroTraps = TRUE
SPECIFICATION Spec
INVARIANTS
    CountersConsistent
PROPERTIES
    AccessAltersOnlyMaskedBits
    DynamicFiresOnlyOnHistory
    CouplingConfined
