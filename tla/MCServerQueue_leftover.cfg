SPECIFICATION Spec
CONSTANTS
    t1 = t1  t2 = t2  u1 = u1  w1 = w1  w2 = w2
    None = None
    Short = {}
    TcpClients <- OneTcp
    UdpClients <- OneUdp
    Workers <- TwoWorkers
    QueueCap = 1
    ListenBacklog = 1
    FdLimit = 2
    LateRead <- Good
    AfterOverrun <- Good
    SendtoMayFail = FALSE
    MaxSignals = 1
    MaxStarts = 1
INVARIANTS
    QueueDeleted
CHECK_DEADLOCK FALSE
