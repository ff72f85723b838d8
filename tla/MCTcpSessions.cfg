SPECIFICATION FairSpec
CONSTANTS
    c1 = c1
    c2 = c2
    c3 = c3
    Clients <- ThreeClients
    NoClient = NoClient
    ListenBacklog = 1
    FdLimit = 2
    MaxKids = 3
INVARIANTS
    TypeOK
    OneChildEach
    InTurns
PROPERTIES
    ServesEcho
    NobodyWaits
    ChildrenEnd
\* The server waits for ever when the clients have gone.
CHECK_DEADLOCK FALSE
