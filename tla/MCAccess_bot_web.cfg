CONSTANTS
    Procs = {bot, web}
    Resident = {bot}
    Serial = FALSE
    Users = {u1}
    Orders = {o1, o2}
    Devices = {d1, d2}
    External = {}
    MaxDevices = 1
    Owner <- MCOwner
    NoUser = NoUser
    NoDevice = NoDevice
    NoProc = NoProc
    NoOrder = NoOrder
SPECIFICATION Spec
SYMMETRY KeySymmetry
VIEW WithoutOutcome
INVARIANTS OrderLinkSound ProtocolInvariant
PROPERTIES RevokedIsFinal GrantWithinQuota GrantImpliesPeer ImplementsLedger
