SPECIFICATION Spec
CONSTANTS
    t1 = t1  t2 = t2  u1 = u1  w1 = w1  w2 = w2
    None = None
    Short = {}
    TcpClients <- OneTcp
    UdpClients <- OneUdp
    Workers <- TwoWorkers
    QueueCap = 1
    ListenBacklog = 1
    FdLimit = 2
    LateRead <- GoodOrBad
    AfterOverrun <- Good
    SendtoMayFail = FALSE
    MaxSignals = 0
    MaxStarts = 1
INVARIANTS
    ThreadsServe
CHECK_DEADLOCK FALSE
