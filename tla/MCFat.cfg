CONSTANTS
    NClusters = 4
    SLOTS = 2
    NumFats = 2
    Paths <- MCPaths
    Contents <- MCContents
    MaxFaults = 2
SPECIFICATION Spec
INVARIANTS FatTypeOK NoCrossLink NothingLeaks
PROPERTY ImplementsTree
