CONSTANTS
    Keys <- TheKeys
    Values = {1}
    Absent = Absent
    Keep = Keep
    Torn = Torn
    NoFile = NoFile
    CacheSize = 1
    MaxCalls = 1
    MaxQueue = 3
    MaxLog = 2
    MaxFails = 1
SPECIFICATION Spec
INVARIANTS
    TypeOK
    CacheCoherent
    NothingMissing
    QuietWhenClosed
    FallbackInv
PROPERTIES
    CloseEnds
