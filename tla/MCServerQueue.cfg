SPECIFICATION Spec
CONSTANTS
    t1 = t1  t2 = t2  u1 = u1  w1 = w1  w2 = w2
    None = None
    Short <- OneUdp
    TcpClients <- TwoTcp
    UdpClients <- OneUdp
    Workers <- TwoWorkers
    QueueCap = 2
    ListenBacklog = 1
    FdLimit = 2
    LateRead <- Good
    AfterOverrun <- GoodOrBad
    SendtoMayFail = TRUE
    MaxSignals = 1
    MaxStarts = 2
INVARIANTS
    TypeOK
    AnsweredOnce
    DescriptorsKeepTheirClient
    LeaksOnlyAfterFailure
    EventsAreReal
    TextIsOwn
PROPERTIES
    ServiceSpec
SYMMETRY Alike
CHECK_DEADLOCK FALSE
