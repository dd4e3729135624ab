SPECIFICATION Spec
CONSTANTS
    ClientIds = {alice, bob}
    Addrs = {a1, a2}
    NoAddr = NoAddr
    Texts = {hello}
    InitialUserLimit = 1
    INCREMENT_USERS = 1
    INCREMENT_MESSAGE = 1
    StackInts <- MCStackInts
    MaxInbox = 1
    MaxOutbox = 1
    MaxStored = 2
INVARIANTS
    TypeOK
    UniqueIds
    WithinLimits
    LoggedInHasAddress
    NewFlagExact
    MailboxesOwned
PROPERTIES
    ImplementsMailbox
    MailIsAnnounced
CHECK_DEADLOCK FALSE
