CONSTANTS
    Keys = {k1, k2}
    Values = {v1}
    Absent = Absent
    Keep = Keep
    Torn = Torn
    Batches <- MCBatches
    Modes = {"v2", "json"}
    NoHead = NoHead
    CutHead = CutHead
    FlushAt = 2
    MaxLog = 3
    MaxLsn = 3
    MaxFails = 2
SPECIFICATION Spec
SYMMETRY Symmetry
INVARIANTS
    TypeOK
    AckedKeys
    AckedMaps
    LiveAgrees
    LsnNamesFrame
    LogInv
PROPERTIES
    CloseDurable
