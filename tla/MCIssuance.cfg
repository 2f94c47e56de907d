SPECIFICATION Spec
CONSTANTS
    NoRequest = NoRequest
    r1 = r1
    r2 = r2
    anna = anna
    boris = boris
    Runs = {p1, p2}
    Requests = {r1, r2}
    Items <- MCItems
    Recipients = {anna, boris}
    MaxDevices = 2
    Assignments = {a1, a2}
    MaxTotal = 4
SYMMETRY RunSymmetry
INVARIANTS
    TypeOK
    ItemGrantedOnce
    GrantHasReceipt
    ItemsInOrder
    CompletedDelivered
    RecipientWithinQuota
    PassportRevokedWithDevice
PROPERTY AssignmentFinal
CHECK_DEADLOCK FALSE
