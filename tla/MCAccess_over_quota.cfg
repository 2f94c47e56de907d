CONSTANTS
    Procs = {web}
    Resident = {}
    Serial = FALSE
    Users = {u1}
    Orders = {o1}
    Devices = {d1, d2}
    External = {}
    MaxDevices = 1
    Owner <- MCOwner
    NoUser = NoUser
    NoDevice = NoDevice
    NoProc = NoProc
    NoOrder = NoOrder
SPECIFICATION Spec
SYMMETRY KeySymmetry
INVARIANTS QuotaHolds
