SPECIFICATION Spec
CONSTANTS
    UserIds = {zero, ann, ben}
    SERVER_ID = zero
    Addrs = {a1, a2}
    ServerAddr = ServerAddr
    NoAddr = NoAddr
    InitialUserLimit = 1
    INCREMENT_USERS = 1
    MaxInbox = 1
    MaxOutbox = 1
    MaxUsers = 4
SYMMETRY Symmetry
INVARIANTS
    TypeOK
    OneSessionPerUser
    LoggedInReachable
PROPERTIES
    ImplementsPresence
    ChangesAnnounced
    WhoListsOthersOnce
CHECK_DEADLOCK FALSE
