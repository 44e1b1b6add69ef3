CONSTANTS
    MaxThreads = 3
    Codes = {0}
    Sent = {11}
    MAX_FDS = 3
    PipeIds = {p}
    MaxData = 1
SPECIFICATION PipesFairSpec
INVARIANTS
    PipesTypeOK
    CountsExact
    
PROPERTY ReadReturns
