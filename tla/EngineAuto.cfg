CONSTANTS
    Keys = {k1, k2}
    Values = {v1}
    Absent = Absent
    Keep = Keep
    Torn = Torn
    NoFile = NoFile
    NoJob = NoJob
    CompactMode = "auto"
    LegacyThreshold = 1
    MergeEvery = 2
    BackupCount = 0
    FlushAt = 1
    Jobs = {}
    CrashAt = {}
    TornWrites = FALSE
    MaxWal = 3
    MaxSeg = 3
SPECIFICATION Spec
SYMMETRY Symmetry
INVARIANTS
    AckedDurable
