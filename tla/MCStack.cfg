SPECIFICATION MCSpec
CONSTANTS
    AddrBits = 1
    InnerLists <- MCInnerLists
    MustLists <- MCMustLists
    Rules = {{"h"}}
    Hosts = {"h"}
    Ports = {1}
    MaxConns = 2
    MaxSetups = 1
    Clients = {"a", "b"}
    Ids = {1, 2}
    Threads = {1, 2}
    MaxSockets = 3
    MaxQueries = 2
    M = 14
    Cyclic = {"reass", "nd6"}
    Interval <- Every
    User = {"user"}
    Msecs = {3}
    MaxGap = 1
    MaxRun = 1
    Hellos <- MCHellos
    NULL = NULL
    NONE = NONE
    Pcbs = {p1, p2, p3}
    Few = {p1, p2}
INVARIANTS
    RoutingCorrect
    DnsCorrect
    HelloCorrect
    TimeoutsCorrect
    PbufsCorrect
    SenderCorrect
    ReceiverCorrect
    BlocksCorrect
PROPERTIES
    TimersKeepTime
    TcpStepsCorrect
CHECK_DEADLOCK FALSE
