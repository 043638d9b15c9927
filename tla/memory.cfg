CONSTANTS
    W = 2
    MW = 1
    Spaces <- MemSpace
    Addr <- MCAddr
    Campaigns <- MemoryCampaigns
    MaxTime = 2
    NoAddr = NoAddr
    DivByZeroTraps = FALSE
SPECIFICATION Spec
INVARIANTS
    TypeOK
    CountersConsistent
PROPERTIES
    AccessAltersOnlyMaskedBits
    DynamicFiresOnlyOnHistory
    CouplingConfined
