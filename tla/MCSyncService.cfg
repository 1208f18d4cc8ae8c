\* Two workers, a queue of one task: three clients fill it, and two
\* descriptors for three clients make numbers run out and be reused.  The
\* threshold is 0: the listening thread sleeps before every push, the case in
\* which most happens between its test of the queue and the push.
SPECIFICATION Spec
CONSTANTS
    c1 = c1
    c2 = c2
    c3 = c3
    f1 = f1
    f2 = f2
    w1 = w1
    w2 = w2
    Conn = {c1, c2, c3}
    Fd = {f1, f2}
    Worker = {w1, w2}
    NoConn = NoConn
    ServerFd = ServerFd
    NoFd = NoFd
    Command <- MCCommand
    MayThrow <- MCMayThrow
    MaxTaskQueueSize = 1
    BackpressureFactor = 0
    MaxEvents = 128
SYMMETRY Symmetry
CHECK_DEADLOCK FALSE
INVARIANTS
    TypeOK
    OneHolder
    TaskOnItsOwnSocket
    NoIdleWorkerBesideWork
    QueueWithinLimit
    StopDrains
PROPERTIES
    PromiseKept
