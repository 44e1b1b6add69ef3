CONSTANTS
    MaxThreads = 3
    Codes = {0}
    Sent = {11}
    MAX_FDS = 2
    PipeIds = {p}
    MaxData = 1
SPECIFICATION PipesFairSpec
PROPERTY DeadWritersGiveEof
