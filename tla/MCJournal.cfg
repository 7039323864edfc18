SPECIFICATION FairSpec
CONSTANTS
    w1 = w1
    w2 = w2
    k1 = k1
    k2 = k2
    k3 = k3
    NoWriter = NoWriter
    Writers <- MCWriters
    Keys <- MCKeys
    Oversized <- MCOversized
    DiskMayFill = TRUE
    MaxCalls = 3
    MaxPowerLosses = 1
INVARIANTS
    UniqueKeys
    OnlyTailTorn
    AckedKept
PROPERTIES
    ImplementsUniqueLog
    AppendIsAtomic
    CallEnds
CHECK_DEADLOCK FALSE
