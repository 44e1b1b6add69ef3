CONSTANTS
    MaxThreads = 3
    Codes = {0}
    Sent = {}
    NFrames = 4
    ImageSizes = {0}
    PAGE = 2
    MaxHeap = 1
SPECIFICATION RegistryFairSpec
PROPERTY SpinResolves
CHECK_DEADLOCK FALSE
