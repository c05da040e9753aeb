SPECIFICATION FairSpec
CONSTANTS
    Period <- MCPeriod
    Modes <- MCModes
    TickModulus = 12
INVARIANTS
    TypeOK
    CriticalSection
PROPERTIES
    ImplementsService
    TimersServed
    LinkConverges
