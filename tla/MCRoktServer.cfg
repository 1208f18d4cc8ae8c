\* A signal, with the fairness under which SyncService stops when stop() is called.
SPECIFICATION ServerFairSpec
CONSTANTS
    c1 = c1
    Conn = {c1}
    Fd = {"f1"}
    Worker = {"w1"}
    NoConn = NoConn
    ServerFd = ServerFd
    NoFd = NoFd
    Command <- MCCommand
    MayThrow = {}
    MaxTaskQueueSize = 1
    BackpressureFactor = 10
    MaxEvents = 128
CHECK_DEADLOCK FALSE
PROPERTIES
    SignalStopsServer
