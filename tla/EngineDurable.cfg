CONSTANTS
    Keys = {k1}
    Values = {v1}
    Absent = Absent
    Keep = Keep
    Torn = Torn
    NoFile = NoFile
    NoJob = NoJob
    CompactMode = "segments"
    LegacyThreshold = 0
    MergeEvery = 2
    BackupCount = 0
    FlushAt = 2
    Jobs = {j1}
    CrashAt = {"flush", "reset", "segman", "dropsegs", "commit"}
    TornWrites = FALSE
    MaxWal = 2
    MaxSeg = 2
SPECIFICATION Spec
INVARIANTS
    BufferBounded
PROPERTIES
    ImplementsDurableMap
