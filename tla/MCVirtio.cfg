SPECIFICATION VirtioSpec
CONSTANTS
    Machines <- const_Machines
    RX_BUF_COUNT = 2
    queue_size = 2
    MaxIdx = 3
    MaxSpins = 1
    MaxSends = 4
    MaxArrivals = 4
    MaxTimeouts = 3
    MaxBogus = 1
    Lbas = {l1, l2, l3}
    Capacity = {l1, l2}
    Values = {a, b}
    MAX_IDX = 3
INVARIANTS
    VirtioTypeOK
    TxSound
    RxSound
PROPERTIES
    ImplementsSectors
    CallsReturn
