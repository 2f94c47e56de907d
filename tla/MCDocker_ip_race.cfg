SPECIFICATION Spec
CONSTANTS
    Procs = {p1, p2}
    NoProc = NoProc
    Keys = {k1, k2}
    NoKey = NoKey
    Foreign = {}
    ForeignAddress <- MCForeignAddress
    PoolSize = 3
    ServerAddress = 1
    Truncated <- MCTruncated
    MaxTorn = 1
INVARIANT
    AddressUnique
CHECK_DEADLOCK FALSE
