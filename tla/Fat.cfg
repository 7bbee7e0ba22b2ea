SPECIFICATION FatSpec
CHECK_DEADLOCK FALSE
CONSTANTS
    SS = 4
    SZDIRE = 2
    Nib = 4
    MaxFat12 = 9
    MaxFat16 = 12
    MaxDir = 32
    MinTot16 = 8
    MinTot32 = 60
    BodyLen = 2
    ExtLen = 1
    LfnPer = 3
    MaxLfn = 4
    Disks <- SomeDisks
    Paths <- SomePaths
    Seeks = {0, 3, 4, 9}
    ReadSizes = {1, 5, 9}
    Fils = {1}
    PathMax = 9
    MaxLookups = 2
    MaxReads = 2
    MaxDiskFaults = 1
INVARIANT VolumeExact
