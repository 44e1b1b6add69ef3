CONSTANTS
    MaxThreads = 3
    Codes = {0}
    Sent = {}
    NFrames = 4
    ImageSizes = {0}
    PAGE = 2
    MaxHeap = 2
SPECIFICATION RegistrySpec
INVARIANTS RegistryTypeOK FramesPartition OwnStateIfCalm HeapMapped
CHECK_DEADLOCK FALSE
