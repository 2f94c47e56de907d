CONSTANTS
    Procs = {web}
    Resident = {}
    Serial = FALSE
    Users = {u1}
    Orders = {o1}
    Devices = {x1}
    External = {x1}
    MaxDevices = 1
    Owner <- MCOwner
    NoUser = NoUser
    NoDevice = NoDevice
    NoProc = NoProc
    NoOrder = NoOrder
SPECIFICATION Spec
PROPERTIES EnableRestoresPeer
