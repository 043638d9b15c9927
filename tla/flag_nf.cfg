CONSTANTS
    W = 2
    MW = 1
    Addr <- MCAddr
    CodeAddr <- MCCodeAddr
    Programs <- ProgramSet
    Campaigns <- NFCampaigns
    MaxTime = 0
    NoAddr = NoAddr
    DivByZeroTraps = TRUE
SPECIFICATION Spec
PROPERTIES
    ConditionFlagInjected
