CONSTANTS
    Procs = {bot, web}
    Resident = {bot}
    Serial = FALSE
    Users = {u1}
    Orders = {o1}
    Devices = {d1}
    External = {}
    MaxDevices = 1
    Owner <- MCOwner
    NoUser = NoUser
    NoDevice = NoDevice
    NoProc = NoProc
    NoOrder = NoOrder
SPECIFICATION Spec
PROPERTIES DisableRemovesPeer
