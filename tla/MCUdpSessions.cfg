SPECIFICATION FairSpec
CONSTANTS
    c1 = c1
    c2 = c2
    c3 = c3
    Clients <- ThreeClients
    NoClient = NoClient
    MaxKids = 3
    Room = 2
    MaxFaults = 1
INVARIANTS
    TypeOK
    SessionsApart
    InTurns
    OneChildEach
PROPERTIES
    Answered
    ServesEcho
\* The server waits for ever when the clients have gone.
CHECK_DEADLOCK FALSE
