SPECIFICATION MCSpec
CHECK_DEADLOCK FALSE
CONSTANTS
    TagSize = 2
    HdrSize = 4
    MaxNcells = 4
    FdtBlobs <- SomeBlobs
    FdtPaths <- SomePaths
    PropNames <- SomeProps
    NodeNames <- SomeNodes
    PropValues <- SomeValues
    FdtSizes = {100, 126, 240}
    FdtCuts = {3}
    MaxEdits = 2
    SwSizes = {3, 26, 40}
    SwNodes <- SwNodeNames
    SwNames <- SwPropNames
    SwValues <- SwPropValues
    SwMaxCalls = 9
    OvBases <- SomeBases
    Overlays <- SomeOverlays
    MaxCell = 15
INVARIANT TreesExact
PROPERTY EditsExact
