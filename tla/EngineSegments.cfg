CONSTANTS
    Keys = {k1, k2}
    Values = {v1}
    Absent = Absent
    Keep = Keep
    Torn = Torn
    NoFile = NoFile
    NoJob = NoJob
    CompactMode = "segments"
    LegacyThreshold = 0
    MergeEvery = 2
    BackupCount = 0
    FlushAt = 1
    Jobs = {j1}
    CrashAt = {"flush", "reset", "segman", "commit"}
    TornWrites = FALSE
    MaxWal = 2
    MaxSeg = 2
SPECIFICATION Spec
SYMMETRY Symmetry
INVARIANTS
    TypeOK
    SegmentsRedundant
    AckedDurable
    LiveIsRecoverable
    DurabilityInv
