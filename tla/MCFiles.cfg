SPECIFICATION FilesSpec
CONSTANTS
    Procs = {sh, ch}
    Shell = sh
    sh = sh
    ch = ch
    MAX_FDS = 2
    Paths <- const_Paths
    Contents <- const_Contents
    Image <- const_Image
    UserPaths <- const_UserPaths
    Buffers <- const_Buffers
    Offsets <- const_Offsets
    MaxCount = 4
    MaxLen = 2
    MaxWrites = 2
    MaxFaults = 1
    MaxCalls = 4
INVARIANTS
    FilesTypeOK
    Durable
    CopiesCurrent
    ListingExact
CHECK_DEADLOCK FALSE
