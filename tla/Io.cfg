SPECIFICATION Spec
CHECK_DEADLOCK FALSE
CONSTANTS
    Consoles <- OnePort
    Chars = {"CR", "BS", "ESC", "CAN", "[", "A", "1", " "}
    Commands <- TwoCommands
    ExitName <- Exit
    LineSize = 2
    MaxArgc = 1
    CsSize = 2
    PumpLimit = 2
    RxMax = 2
    NPackets = 4
    DataHas = {"EOT"}
    MaxLineFaults = 2
    Faults = {"data", "piece", "reply"}
    LineMax = 3
    SaveFails = TRUE
    NBlocks = 2
    MaxCalls = 2
    MaxFaults = 1
    StateRetries = 2
    OpCondRetries = 2
    Word = 2
    Fifo = 4
    Tran = 8
    Page = 8
    Sector = 16
    Low = 48
    U8 = 16
    Total = 64
    Reads <- SomeReads
    Programs <- SomePrograms
    MaxSlow = 2
    Idx = 4
    QMaxes = {0, 3, 5}
    QSize = 4
    NSectors = 2
    Capacities = {0, 2}
    MaxRequests = 5
INVARIANT CommandsAsTyped
INVARIANT DownloadExact
INVARIANT CardExact
INVARIANT FlashExact
INVARIANT RingSound
PROPERTY MediaKept
PROPERTY IoCompletes
