SPECIFICATION Spec
CONSTANTS
    Printers = {"main", "isr"}
    MaxChars = 3
    FifoSize = 3
INVARIANT WaitsForSpace
CHECK_DEADLOCK FALSE
