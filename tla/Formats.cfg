CONSTANTS
    Keys = {k}
    Values = {a, b}
    Absent = Absent
    Keep = Keep
    Torn = Torn
    NoFile = NoFile
    Bad = Bad
    BackupCount = 2
    FormatOpts = {"auto", "v2", "json"}
    Options <- TheOptions
    MaxLog = 2
    MaxCalls = 3
    MaxFaults = 1
    MaxFails = 1
SPECIFICATION Spec
SYMMETRY Symmetry
INVARIANTS
    TypeOK
    AckedKept
    AutoFindsFormat
    BackupsInOrder
    FormatsInv
PROPERTIES
    RestoreKeepsLog
