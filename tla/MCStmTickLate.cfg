SPECIFICATION Spec
CONSTANTS
    Modulus = 62
    TicksPerMs = 4
    MaxHandler = 6
INVARIANT TickWithinMs
