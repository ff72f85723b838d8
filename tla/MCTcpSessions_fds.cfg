SPECIFICATION Spec
CONSTANTS
    c1 = c1
    c2 = c2
    c3 = c3
    Clients <- TwoClients
    NoClient = NoClient
    ListenBacklog = 1
    FdLimit = 1
    MaxKids = 2
INVARIANTS
    ChildrenHaveClients
CHECK_DEADLOCK FALSE
