CONSTANTS
    MaxThreads = 3
    Codes = {258}
    Sent = {9, 17}
SPECIFICATION FairSpec
PROPERTIES
    ImplementsLife
    Scheduled
    WaitReturns
    Buried
