SPECIFICATION Spec
CONSTANTS
    c1 = c1
    c2 = c2
    Clients <- AllClients
    Bound = {c1}
    Calls <- OddCalls
    Strays <- AllStrays
    None = None
    COUNT_WRAP = 2
INVARIANT OnOnlyForOne
