SPECIFICATION Spec
CONSTANTS
    Procs = {p1}
    NoProc = NoProc
    Keys = {f1, k1, k2}
    NoKey = NoKey
    Foreign = {f1}
    ForeignAddress <- MCForeignAddress
    PoolSize = 4
    ServerAddress = 1
    Truncated <- MCTruncated
    MaxTorn = 1
SYMMETRY KeySymmetry
INVARIANTS
    TypeOK
    AddressUnique
    ServedUntilTold
PROPERTIES
    ActivationServed
    OnlyOwnPeerChanges
