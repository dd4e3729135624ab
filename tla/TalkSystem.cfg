SPECIFICATION SystemSpec
CONSTANTS
    a1 = a1
    a2 = a2
    ann = ann
    ben = ben
    UserIds = {zero, ann, ben}
    SERVER_ID = zero
    Addrs = {a1, a2}
    ServerAddr = ServerAddr
    NoAddr = NoAddr
    Ephemeral = Ephemeral
    InitialUserLimit = 2
    INCREMENT_USERS = 2
    MaxInbox = 1
    MaxOutbox = 1
    MaxUsers = 4
    Names <- OwnNames
    Lossy = FALSE
    MaxTyped <- Typed31
INVARIANTS
    SystemTypeOK
    
    ListsAwaited
PROPERTIES
    OneRequestAtATime
    HandshakeSound
CHECK_DEADLOCK FALSE
