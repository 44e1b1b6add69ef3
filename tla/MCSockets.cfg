SPECIFICATION SocketsSpec
CONSTANTS
    Procs <- MCProcs
    First = "p"
    MAX_FDS = 2
    EPHEMERAL_SPAN = 2
    BindPorts <- MCBindPorts
    Capacity = 1
    TIMEOUT = 1
    Kinds <- MCKinds
    MaxSockets = 2
    MaxPorts = 2
    MaxSteps = 6
INVARIANTS
    SocketsTypeOK
    HandlesSound
    OwnAnswers
    

    
CHECK_DEADLOCK FALSE
