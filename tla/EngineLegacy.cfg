CONSTANTS
    Keys = {k1, k2}
    Values = {v1}
    Absent = Absent
    Keep = Keep
    Torn = Torn
    NoFile = NoFile
    NoJob = NoJob
    CompactMode = "legacy"
    LegacyThreshold = 0
    MergeEvery = 2
    BackupCount = 2
    FlushAt = 2
    Jobs = {j1}
    CrashAt = {"flush", "run", "rotate", "snap", "reset", "closing"}
    TornWrites = TRUE
    MaxWal = 2
    MaxSeg = 1
SPECIFICATION Spec
SYMMETRY Symmetry
INVARIANTS
    AckedRepairable
    LegacyInv
    NewestSnapshotKept
PROPERTIES
    CleanShutdown
