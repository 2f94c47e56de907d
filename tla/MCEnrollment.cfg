SPECIFICATION Spec
CONSTANTS
    Tickets = {t1}
    Passports = {q1, q2, q3}
    Devices = {d1, d2}
    Clients = {c1, c2}
    Keys = {k1, k2}
    NoTicket = NoTicket
    NoPassport = NoPassport
    NoDevice = NoDevice
    NoKey = NoKey
SYMMETRY Interchangeable
INVARIANTS
    TypeOK
    FreshAnswerOnce
    ClaimComplete
PROPERTIES
    TicketClaimedOnce
    RevokedPassportFinal
CHECK_DEADLOCK FALSE
