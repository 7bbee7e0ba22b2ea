SPECIFICATION Spec
CHECK_DEADLOCK FALSE
CONSTANTS
    Trees <- SomeTrees
    Drivers <- DriverOrder
    IrqCount = 2
    HandledBy = {2}
    MaxRaise = 1
    MaxNoMem = 1
    Boards <- SomeBoards
    Files = {"conf", "image"}
    Config = "conf"
    Volumes = 7
    Priorities = {0, 1, 2}
    MaxPrio = 2
    MaxFaults = 1
    BootBoards <- SomeBootBoards
    FileNames <- SomeNames
    Harts = {0, 1, 2}
    Cells = 18
    Space = 65536
    TreeRoom = 2
    TpCores = {0, 1, 3}
    RamSize = 8
    Stride = 4
    TtyLen = 2
    Missing <- SomeMissing
    Word = 2
    CellCount = 2
    Bits = {0, 1}
    Bytes <- SomeBytes
    FuseStarts <- SomeFuses
    MaxFuse = 4
    MaxCalls = 1
INVARIANT DevicesSound
INVARIANT BootDevicesSound
INVARIANT HandOverSound
INVARIANT EfuseExact
PROPERTY BootCompletes
