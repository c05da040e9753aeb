SPECIFICATION FairSpec
CONSTANTS
    c1 = c1
    c2 = c2
    Clients <- AllClients
    Bound = {c1}
    Calls <- AllCalls
    Strays <- AllStrays
    None = None
    COUNT_WRAP = 2
INVARIANTS
    TypeOK
    AnswersAreAsked
PROPERTIES
    ImplementsLightService
    Served
CHECK_DEADLOCK FALSE
