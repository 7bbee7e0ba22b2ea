SPECIFICATION Spec
CONSTANTS
    root = root
    n1 = n1
    n2 = n2
    n3 = n3
    m1 = m1
    m2 = m2
    Nodes = {root, n1, n2, n3}
    Root = root
    Null = Null
    Mounts = {m1, m2}
    Names = {"d", "f", "devices"}
    Paths <- ShortPaths
    FsTypes = {"fatfs", "sysfs"}
    BlockBacked = {"fatfs"}
    OnDemand = {"fatfs"}
    Partitions = {"f"}
    WithSubdir = {"sysfs"}
    Regular = {"f"}
    FdMax = 1
    MaxOpen = 3
    FileSize = 1
    ReadLens = {2}
    Offsets = {1}
    PosMax = 1
    MayNest = FALSE
SYMMETRY Symmetry
INVARIANT OpenFilesReachable
INVARIANT NamespaceSound
INVARIANT NothingLeaks
