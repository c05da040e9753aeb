SPECIFICATION Spec
CONSTANTS
    Modulus = 62
    TicksPerMs = 4
    MaxHandler = 4
INVARIANTS
    TickWithinMs
    ClockIsRight
