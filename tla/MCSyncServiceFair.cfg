\* Liveness and backpressure: one worker, a queue of two, a threshold of one.
SPECIFICATION FairSpec
CONSTANTS
    c1 = c1
    c2 = c2
    Conn = {c1, c2}
    Fd = {"f1", "f2"}
    Worker = {"w1"}
    NoConn = NoConn
    ServerFd = ServerFd
    NoFd = NoFd
    Command <- MCCommand
    MayThrow = {}
    MaxTaskQueueSize = 2
    BackpressureFactor = 1
    MaxEvents = 128
CHECK_DEADLOCK FALSE
PROPERTIES
    EveryRequestAnswered
    LeaversAreClosed
    StopReturns
