SPECIFICATION FairSystemSpec
CONSTANTS
    ClientIds = {alice}
    Addrs = {a1, a2}
    NoAddr = NoAddr
    Texts = {hello}
    InitialUserLimit = 1
    INCREMENT_USERS = 1
    INCREMENT_MESSAGE = 1
    StackInts <- MCStackInts
    MaxInbox = 2
    MaxOutbox = 2
    MaxStored = 2
    NotSet = NotSet
    Lossy = FALSE
PROPERTIES
    AnswerArrives
    SocketKeepsMoving
CHECK_DEADLOCK FALSE
