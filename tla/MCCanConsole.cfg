SPECIFICATION FairConsoleSpec
CONSTANTS
    Printers = {"main", "isr"}
    MaxChars = 3
    FifoSize = 3
    RX_FIFO0_SIZE = 3
    MaxLen = 2
INVARIANTS
    TypeOK
    NoOverrun
    WaitsForSpaceUnlessCaught
    ReadFindsMessage
    FlagIsAnnounced
PROPERTIES
    PrintReturns
    AnnouncedIsRead
    RoomUnlessDeaf
CHECK_DEADLOCK FALSE
