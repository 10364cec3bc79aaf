CONSTANTS
    Keys = {k1, k2}
    Values = {v1}
    Absent = Absent
    Keep = Keep
    Torn = Torn
    NoFile = NoFile
    NoJob = NoJob
    CompactMode = "legacy"
    LegacyThreshold = 0
    MergeEvery = 2
    BackupCount = 1
    FlushAt = 1
    Jobs = {}
    CrashAt = {"flush"}
    TornWrites = TRUE
    MaxWal = 2
    MaxSeg = 1
SPECIFICATION Spec
SYMMETRY Symmetry
INVARIANTS
    AckedDurable
