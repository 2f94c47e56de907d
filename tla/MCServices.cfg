\* No deadlock check: the bounded histories (tokens, codes, commits, updates) run out.
SPECIFICATION Spec
CONSTANTS
    Off = Off
    Token = {x1, x2, x3}
    ApiCall = {r1}
    Scope = {y1, y2}
    NoToken = NoToken
    Address = {y1, y2}
    Code = {x1, x2, x3}
    NoAddress = NoAddress
    Opener = {y1, y2}
    OldDevice = {d1, d2}
    Rows0 = {d1}
    Pages = 2
    MaxCommit = 2
    Unrestorable = {2}
    PeerDevice = {y1, y2}
    Foreign = {f}
    NoDevice = NoDevice
    Proc = {y1, y2}
    NoProc = NoProc
    MaxUpdate = 3
    ChatUser = {a, u, v}
    Configured = {a}
    ChatDevice = {y1, y2}
    NoUser = NoUser
    Name = {n1, n2}
    Node = {y1, y2}
    ServerId = {x1, x2, x3}
    ServedDevice = {d1}
    Process = {b, c}
    Bot = b
    BotServer = n1
    Id = {y1, y2}
    Person = {a, u}
    AdminIds = {a}
    Label = {l}
    Quota = {q}
    None = None
    MaxFaults = 1
INVARIANTS
    TypeOK
    RevokedStaysShut
    ProvenMailOnce
    RowsSurviveMigration
    BackupIsSnapshot
    
    UpdateHandledOnce
    BotActsForOwner
    ServedWhereNamed
    DecisionsStand
    VerdictHolds
SYMMETRY Symmetry
CHECK_DEADLOCK FALSE
