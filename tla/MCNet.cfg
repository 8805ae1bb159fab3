SPECIFICATION MCSpec
CONSTANTS
    NumConns = 1
    NumSlots = 2
    Socks = {1, 2}
    Procs = {1}
    SeqSpace = 16
    RxSize = 1
    TxSize = 2
    MaxWindow = 1
    MaxPayload = 2
    MaxRings = 1
    MaxRetries = 1
    MaxBacklog = 2
    EphFirst = 101
    EphLast = 102
    IsnConnect = 13
    IsnAccept = 6
    ServerPort = 5
    ListenPort = 3
    MaxWire = 2
    MaxCalls = 2
    Programs <- AllPrograms
    MaxFaults = 1
    Lengths = {2}
    Backlogs = {1}
    Servers = {"a", "b"}
    Stations = {"a"}
    Callers = {"p"}
    BootTask = "boot"
    NetTask = "tcp"
    DhcpAttempts = 2
    PingAttempts = 2
    LanCalls = 1
    LanFaults = 1
    TxRing = 2
    RxRing = 3
    RxBytes = 5
    PacketLens = {1, 2}
    MaxTx = 3
    MaxRx = 3
    DSocks = {1, 2}
    DProcs = {1, 2}
    UdpQueue = 2
    NetlinkQueue = 1
    Ports = {3}
    EphemeralLo = 7
    EphemeralHi = 8
    Remotes = {"x"}
    DgramOps = 5
CONSTRAINT Bounded
VIEW Distinct
INVARIANTS  FramesDelivered DatagramsOwned
PROPERTIES  LeaseWhole
CHECK_DEADLOCK FALSE
