CONSTANTS
    Procs = {p1, p2, p3}
    Fallback = {p3}
    Protected = {p1}
    Stranger = Stranger
    NoLock = NoLock
    Polls = 1
    DieAt = {"out", "create", "write", "look", "probe", "remove", "wait", "own"}
    Fails = {"write", "remove", "own"}
SPECIFICATION FairSpec
INVARIANTS
    SoleOwner
    OwnerNamed
    NoOrphan
PROPERTIES
    AcquireEnds
CHECK_DEADLOCK FALSE
