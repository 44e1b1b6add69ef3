CONSTANTS
    MaxThreads = 3
    Codes = {0}
    Sent = {}
    QUEUE_SIZE = 2
    TASK_QUEUE = 100
    Keys = {"a", "Newline", "Backspace"}
    MaxKeys = 3
    MaxPending = 2
SPECIFICATION InputFairSpec
INVARIANTS InputTypeOK TypedIsRead StdinSound HaltSound
PROPERTY LineIsRead
