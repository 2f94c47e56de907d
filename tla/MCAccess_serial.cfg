CONSTANTS
    Procs = {bot, web}
    Resident = {bot}
    Serial = TRUE
    Users = {u1}
    Orders = {o1}
    Devices = {d1, d2, x1}
    External = {x1}
    MaxDevices = 1
    Owner <- MCOwner
    NoUser = NoUser
    NoDevice = NoDevice
    NoProc = NoProc
    NoOrder = NoOrder
SPECIFICATION Spec
SYMMETRY KeySymmetry
INVARIANTS TypeOK PeersMatchRegistry
PROPERTIES OrderGrantedOnce
