CONSTANTS
    MaxThreads = 4
    Codes = {258}
    Sent = {0, 9, 17}
SPECIFICATION Spec
INVARIANTS
    TypeOK
    CurrentRunnable
    PidsDistinct
    FamilyTree
    WaitSound
