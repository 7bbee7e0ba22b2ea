SPECIFICATION Spec
CONSTANTS
    root = root
    n1 = n1
    n2 = n2
    n3 = n3
    n4 = n4
    m1 = m1
    m2 = m2
    Nodes = {root, n1, n2, n3, n4}
    Root = root
    Null = Null
    Mounts = {m1, m2}
    Names = {"d", "f", "devices"}
    Paths <- ShortPaths
    FsTypes = {"fatfs"}
    BlockBacked = {"fatfs"}
    OnDemand = {"fatfs"}
    Partitions = {}
    WithSubdir = {}
    Regular = {"f"}
    FdMax = 1
    MaxOpen = 1
    FileSize = 0
    ReadLens = {}
    Offsets = {}
    PosMax = 0
    MayNest = TRUE
SYMMETRY Symmetry
INVARIANT OpenFilesReachable
