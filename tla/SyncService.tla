---------------------------- MODULE SyncService -----------------------------
(***************************************************************************)
(* The network front end of the ROKT server, src/app/lib/SyncService.cpp:  *)
(* one thread waits on epoll, accepts clients, reads one request from each *)
(* and pushes it on a bounded priority queue; a pool of workers pops the   *)
(* requests, runs the handlers, answers and closes.  The queue is shared   *)
(* under queueMutex_ and queueCond_; stop() may be called by one more      *)
(* thread.                                                                 *)
(*                                                                         *)
(* A file descriptor number is reused as soon as it is closed, so the      *)
(* model keeps descriptors (Fd) and connections (Conn) apart: sock[f] is   *)
(* the connection that descriptor f designates at this moment.  A request  *)
(* is named by the connection that sent it.                                *)
(*                                                                         *)
(* queueMutex_ is held from one step to the next at two places only: in    *)
(* the backpressure sleep of handleClientData and between the predicate    *)
(* check and the sleep of queueCond_.wait; see MutexFree.                  *)
(***************************************************************************)
EXTENDS Integers, Sequences, FiniteSets

CONSTANTS
    Conn,                   \* client connections
    NoConn,                 \* no connection: the value of sock[f] for a closed f
    Fd,                     \* descriptors the process may give to connections
    ServerFd,               \* server_fd_, the listening socket
    NoFd,                   \* -1, the socket of an empty Task
    Worker,                 \* the threads of workers_
    Command,                \* Command[c]: the keyword of the request of c
    MayThrow,               \* the connections whose handler may throw
    MaxTaskQueueSize,       \* maxTaskQueueSize_
    BackpressureFactor,     \* BACKPRESSURE_THRESHOLD_FACTOR
    MaxEvents               \* the size of the array given to epoll_wait

Keyword == {"CREATE", "ADD", "GET", "REMOVE", "EMPTY", "DELETE", "COUNT",
            "CHANGE"}

ASSUME ConnAssumption == NoConn \notin Conn /\ Command \in [Conn -> STRING]
ASSUME FdAssumption == ServerFd \notin Fd /\ NoFd \notin Fd
ASSUME WorkerAssumption == IsFiniteSet(Worker)
ASSUME LimitAssumption ==
    /\ MaxTaskQueueSize \in Int
    /\ BackpressureFactor \in Nat
    /\ MaxEvents \in Nat \ {0}

VARIABLES
    phase,       \* phase[c]: "new", "backlog", "open" or "closed"
    sent,        \* the clients that have written their request
    gone,        \* the clients that have hung up
    sock,        \* sock[f]: the connection descriptor f designates
    armed,       \* the descriptors epoll still reports (EPOLLONESHOT)
    batch,       \* the events of the last epoll_wait not yet handled
    io,          \* where the thread in processEpollEvents stands
    cur,         \* the request handleClientData is about to push
    queue,       \* taskQueue_
    wpc,         \* wpc[w]: where worker w stands in workerLoop
    wtask,       \* wtask[w]: the local task of worker w
    wcode,       \* wcode[w]: the code of the response it has built
    running,     \* running_
    stopper,     \* where the thread in stop() stands
    up,          \* FALSE once an exception has terminated the process
    runs,        \* history: runs[c], how many times the request of c ran
    replies      \* history: replies[c], what was written on connection c

clientVars == <<phase, sent, gone>>
ioVars     == <<sock, armed, batch, io, cur>>
workVars   == <<wpc, wtask, wcode>>
history    == <<runs, replies>>
vars == <<clientVars, ioVars, queue, workVars, running, stopper, up, history>>

-----------------------------------------------------------------------------
Task == [socket : Fd, request : Conn, priority : {0, 1, 5, 10}]
NoTask == [socket |-> NoFd, request |-> NoConn, priority |-> 0]

\* Variant: a mistyped priority.
getCommandPriorityTypo(c) == IF Command[c] = "CREATE" THEN 100 ELSE 0

getCommandPriority(c) ==
    CASE Command[c] \in {"CREATE", "DELETE"}         -> 10
      [] Command[c] \in {"ADD", "REMOVE", "CHANGE"}  -> 5
      [] Command[c] \in {"GET", "COUNT", "EMPTY"}    -> 1
      [] OTHER                                       -> 0

Known == {c \in Conn : Command[c] \in Keyword}

Answer(c, code) == [request |-> c, code |-> code]

QueueFullLate == Cardinality(queue) > MaxTaskQueueSize   \* variant: off by one

\* queue_is_full and backpressure_threshold_exceeded.
QueueFull == Cardinality(queue) >= MaxTaskQueueSize
QueueLong == Cardinality(queue) >= Cardinality(Worker) * BackpressureFactor

MutexFree == io # "sleep" /\ \A w \in Worker : wpc[w] # "blocking"

\* TaskComparator orders by priority alone: among equals the heap may give any.
Tops == {t \in queue : \A u \in queue : u.priority <= t.priority}

Open == {f \in Fd : sock[f] # NoConn}

Ready == {f \in armed : sock[f] \in sent \cup gone}
         \cup {f \in {ServerFd} : \E c \in Conn : phase[c] = "backlog"}

-----------------------------------------------------------------------------
Init ==
    /\ phase = [c \in Conn |-> "new"] /\ sent = {} /\ gone = {}
    /\ sock = [f \in Fd |-> NoConn] /\ armed = {} /\ batch = {}
    /\ io = "loop" /\ cur = NoTask /\ queue = {}
    /\ wpc = [w \in Worker |-> "top"]
    /\ wtask = [w \in Worker |-> NoTask]
    /\ wcode = [w \in Worker |-> 0]
    /\ running = TRUE /\ stopper = "idle" /\ up = TRUE
    /\ runs = [c \in Conn |-> 0]
    /\ replies = [c \in Conn |-> <<>>]

\* close(f): the number is free at once and epoll forgets it.
CloseFd(f) ==
    /\ phase' = [phase EXCEPT ![sock[f]] = "closed"]
    /\ sock' = [sock EXCEPT ![f] = NoConn]
    /\ armed' = armed \ {f}

\* send(f, ...): the bytes reach whichever connection f designates now.
SendTo(f, request, code) ==
    replies' = [replies EXCEPT ![sock[f]] = Append(@, Answer(request, code))]

-----------------------------------------------------------------------------
(* Variants: plausible mistakes in the actions below, used by no           *)
(* specification; a property is worth its run when one of them breaks it.  *)

\* Without EPOLLONESHOT: a reported descriptor stays armed.
EpollWaitNotOneShot ==
    /\ io = "wait" /\ Ready # {}
    /\ batch' = Ready
    /\ io' = "loop"
    /\ UNCHANGED <<clientVars, sock, armed, cur, queue, workVars, running,
                   stopper, up, history>>

\* Leaving the loop over the events after an accept: the others are lost.
AcceptDropsBatch(c, f) ==
    /\ io = "loop" /\ ServerFd \in batch
    /\ phase[c] = "backlog" /\ sock[f] = NoConn
    /\ phase' = [phase EXCEPT ![c] = "open"]
    /\ sock' = [sock EXCEPT ![f] = c]
    /\ armed' = armed \cup {f}
    /\ batch' = {}
    /\ UNCHANGED <<sent, gone, io, cur, queue, workVars, running, stopper, up,
                   history>>

\* The return without the close: the descriptor leaks.
ReadFailsNoClose(f) ==
    /\ io = "loop" /\ f \in batch \ {ServerFd}
    /\ sock[f] \in gone
    /\ batch' = batch \ {f}
    /\ UNCHANGED <<clientVars, sock, armed, io, cur, queue, workVars, running,
                   stopper, up, history>>

\* The close without the return: the refused request is pushed as well.
RejectNoReturn ==
    /\ io = "lock" /\ MutexFree
    /\ QueueFull
    /\ SendTo(cur.socket, cur.request, 503)
    /\ CloseFd(cur.socket)
    /\ queue' = queue \cup {cur}
    /\ cur' = NoTask /\ io' = "loop"
    /\ UNCHANGED <<sent, gone, batch, workVars, running, stopper, up, runs>>

\* The push without notify_one.
PushNoNotify ==
    /\ \/ io = "sleep"
       \/ io = "lock" /\ MutexFree /\ ~QueueFull /\ ~QueueLong
    /\ queue' = queue \cup {cur}
    /\ cur' = NoTask /\ io' = "loop"
    /\ UNCHANGED <<clientVars, sock, armed, batch, workVars, running, stopper,
                   up, history>>

\* top without pop.
TakeNoPop(w) ==
    /\ wpc[w] = "lock" /\ MutexFree
    /\ \E t \in Tops : wtask' = [wtask EXCEPT ![w] = t]
    /\ wpc' = [wpc EXCEPT ![w] = "run"]
    /\ UNCHANGED <<clientVars, ioVars, queue, wcode, running, stopper, up,
                   history>>

\* notify_all without the lock: it may fall between a worker's test of the
\* predicate and its sleep.
StopNotifyNoLock ==
    /\ stopper = "notify"
    /\ wpc' = [w \in Worker |-> IF wpc[w] = "waiting" THEN "lock" ELSE wpc[w]]
    /\ stopper' = "join"
    /\ UNCHANGED <<clientVars, ioVars, queue, wtask, wcode, running, up,
                   history>>

\* The workers are not joined.
StopNoJoin ==
    /\ stopper = "join"
    /\ stopper' = "done"
    /\ UNCHANGED <<clientVars, ioVars, queue, workVars, running, up, history>>

-----------------------------------------------------------------------------
(* The clients and the kernel's accept queue.                              *)

ClientConnect(c) ==
    /\ phase[c] = "new"
    /\ phase' = [phase EXCEPT ![c] = "backlog"]
    /\ UNCHANGED <<sent, gone, ioVars, queue, workVars, running, stopper, up,
                   history>>

ClientSend(c) ==
    /\ phase[c] \in {"backlog", "open"} /\ c \notin sent \cup gone
    /\ sent' = sent \cup {c}
    /\ UNCHANGED <<phase, gone, ioVars, queue, workVars, running, stopper, up,
                   history>>

ClientHangUp(c) ==
    /\ phase[c] \in {"backlog", "open"} /\ c \notin gone
    /\ gone' = gone \cup {c}
    /\ UNCHANGED <<phase, sent, ioVars, queue, workVars, running, stopper, up,
                   history>>

-----------------------------------------------------------------------------
(* processEpollEvents.                                                     *)

\* The test of the while, reached when every event of the batch is handled.
TestRunning ==
    /\ io = "loop" /\ batch = {}
    /\ io' = IF running THEN "wait" ELSE "returned"
    /\ UNCHANGED <<clientVars, sock, armed, batch, cur, queue, workVars,
                   running, stopper, up, history>>

\* epoll_wait reports what is ready, at most MaxEvents of it, and disarms the
\* one-shot descriptors it reports.
EpollWait ==
    /\ io = "wait" /\ Ready # {}
    /\ \E events \in SUBSET Ready :
          /\ \/ Cardinality(events) = MaxEvents
             \/ Cardinality(Ready) <= MaxEvents /\ events = Ready
          /\ batch' = events
          /\ armed' = armed \ events
    /\ io' = "loop"
    /\ UNCHANGED <<clientVars, sock, cur, queue, workVars, running, stopper,
                   up, history>>

\* Nothing became ready: the 1000 ms are over, or a signal interrupted the wait.
EpollTimeout ==
    /\ io = "wait" /\ Ready = {}
    /\ io' = "loop"
    /\ UNCHANGED <<clientVars, sock, armed, batch, cur, queue, workVars,
                   running, stopper, up, history>>

Accept(c, f) ==
    /\ io = "loop" /\ ServerFd \in batch
    /\ phase[c] = "backlog" /\ sock[f] = NoConn
    /\ phase' = [phase EXCEPT ![c] = "open"]
    /\ sock' = [sock EXCEPT ![f] = c]
    /\ armed' = armed \cup {f}
    /\ batch' = batch \ {ServerFd}
    /\ UNCHANGED <<sent, gone, io, cur, queue, workVars, running, stopper, up,
                   history>>

\* accept fails: no descriptor is free.  The client stays in the backlog.
AcceptFails ==
    /\ io = "loop" /\ ServerFd \in batch
    /\ Open = Fd
    /\ batch' = batch \ {ServerFd}
    /\ UNCHANGED <<clientVars, sock, armed, io, cur, queue, workVars, running,
                   stopper, up, history>>

\* epoll_ctl refuses the new socket: it is closed, the client gets no answer.
EpollAddFails(c) ==
    /\ io = "loop" /\ ServerFd \in batch
    /\ phase[c] = "backlog" /\ Open # Fd
    /\ phase' = [phase EXCEPT ![c] = "closed"]
    /\ batch' = batch \ {ServerFd}
    /\ UNCHANGED <<sent, gone, sock, armed, io, cur, queue, workVars, running,
                   stopper, up, history>>

\* handleClientData up to the lock: end of file or a reset connection.
ReadFails(f) ==
    /\ io = "loop" /\ f \in batch \ {ServerFd}
    /\ sock[f] \in gone
    /\ CloseFd(f)
    /\ batch' = batch \ {f}
    /\ UNCHANGED <<sent, gone, io, cur, queue, workVars, running, stopper, up,
                   history>>

\* handleClientData up to the lock: the request is read.
ReadRequest(f) ==
    /\ io = "loop" /\ f \in batch \ {ServerFd}
    /\ sock[f] \in sent
    /\ cur' = [socket |-> f, request |-> sock[f],
               priority |-> getCommandPriority(sock[f])]
    /\ batch' = batch \ {f}
    /\ io' = "lock"
    /\ UNCHANGED <<clientVars, sock, armed, queue, workVars, running, stopper,
                   up, history>>

\* The queue is full: 503 and close, under the lock.
Reject ==
    /\ io = "lock" /\ MutexFree
    /\ QueueFull
    /\ SendTo(cur.socket, cur.request, 503)
    /\ CloseFd(cur.socket)
    /\ cur' = NoTask /\ io' = "loop"
    /\ UNCHANGED <<sent, gone, batch, queue, workVars, running, stopper, up,
                   runs>>

\* The queue is long: sleep BACKPRESSURE_DELAY_MS with the mutex held.
Backpressure ==
    /\ io = "lock" /\ MutexFree
    /\ ~QueueFull
    /\ QueueLong
    /\ io' = "sleep"
    /\ UNCHANGED <<clientVars, sock, armed, batch, cur, queue, workVars,
                   running, stopper, up, history>>

\* Push and notify_one: one of the waiting workers, if any, is woken.
Push ==
    /\ \/ io = "sleep"
       \/ /\ io = "lock" /\ MutexFree
          /\ ~QueueFull
          /\ ~QueueLong
    /\ queue' = queue \cup {cur}
    /\ cur' = NoTask /\ io' = "loop"
    /\ \/ /\ \A w \in Worker : wpc[w] # "waiting"
          /\ UNCHANGED wpc
       \/ \E w \in Worker : /\ wpc[w] = "waiting"
                            /\ wpc' = [wpc EXCEPT ![w] = "lock"]
    /\ UNCHANGED <<clientVars, sock, armed, batch, wtask, wcode, running,
                   stopper, up, history>>

IoThread ==
    \/ TestRunning \/ EpollWait \/ EpollTimeout
    \/ \E c \in Conn, f \in Fd : Accept(c, f)
    \/ AcceptFails
    \/ \E c \in Conn : EpollAddFails(c)
    \/ \E f \in Fd : ReadFails(f) \/ ReadRequest(f)
    \/ Reject \/ Backpressure \/ Push

-----------------------------------------------------------------------------
(* workerLoop.                                                             *)

\* The test of the while, made without the mutex.
Top(w) ==
    /\ wpc[w] = "top"
    /\ wpc' = [wpc EXCEPT ![w] = IF running THEN "lock" ELSE "exit"]
    /\ UNCHANGED <<clientVars, ioVars, queue, wtask, wcode, running, stopper,
                   up, history>>

\* With the mutex: take a task of the highest priority.
Take(w) ==
    /\ wpc[w] = "lock" /\ MutexFree
    /\ \E t \in Tops : /\ wtask' = [wtask EXCEPT ![w] = t]
                       /\ queue' = queue \ {t}
    /\ wpc' = [wpc EXCEPT ![w] = "run"]
    /\ UNCHANGED <<clientVars, ioVars, wcode, running, stopper, up, history>>

\* With the mutex: nothing to do.  The predicate of queueCond_.wait is
\* evaluated here and the mutex is kept until the worker sleeps.
FindEmpty(w) ==
    /\ wpc[w] = "lock" /\ MutexFree
    /\ queue = {}
    /\ wpc' = [wpc EXCEPT ![w] = IF running THEN "blocking" ELSE "exit"]
    /\ UNCHANGED <<clientVars, ioVars, queue, wtask, wcode, running, stopper,
                   up, history>>

\* queueCond_.wait releases the mutex and sleeps in one step.
Block(w) ==
    /\ wpc[w] = "blocking"
    /\ wpc' = [wpc EXCEPT ![w] = "waiting"]
    /\ UNCHANGED <<clientVars, ioVars, queue, wtask, wcode, running, stopper,
                   up, history>>

SpuriousWakeup(w) ==
    /\ wpc[w] = "waiting"
    /\ wpc' = [wpc EXCEPT ![w] = "lock"]
    /\ UNCHANGED <<clientVars, ioVars, queue, wtask, wcode, running, stopper,
                   up, history>>

\* The handler runs; an answer that comes too late is replaced by 504, the
\* effects of the handler remain.
Handle(w) ==
    LET c == wtask[w].request IN
    /\ wpc[w] = "run"
    /\ \E late \in BOOLEAN :
          wcode' = [wcode EXCEPT ![w] = IF late THEN 504
                                        ELSE IF c \in Known THEN 0 ELSE 1]
    /\ runs' = IF c \in Known THEN [runs EXCEPT ![c] = @ + 1] ELSE runs
    /\ wpc' = [wpc EXCEPT ![w] = "send"]
    /\ UNCHANGED <<clientVars, ioVars, queue, wtask, running, stopper, up,
                   replies>>

\* workerLoop has no try: an exception of a handler ends the process.
HandlerThrows(w) ==
    /\ wpc[w] = "run" /\ wtask[w].request \in Known \cap MayThrow
    /\ up' = FALSE
    /\ UNCHANGED <<clientVars, ioVars, queue, workVars, running, stopper,
                   history>>

SendReply(w) ==
    /\ wpc[w] = "send"
    /\ SendTo(wtask[w].socket, wtask[w].request, wcode[w])
    /\ wpc' = [wpc EXCEPT ![w] = "close"]
    /\ UNCHANGED <<clientVars, ioVars, queue, wtask, wcode, running, stopper,
                   up, runs>>

\* close, and the local task goes out of scope.
CloseSocket(w) ==
    /\ wpc[w] = "close"
    /\ CloseFd(wtask[w].socket)
    /\ wtask' = [wtask EXCEPT ![w] = NoTask]
    /\ wcode' = [wcode EXCEPT ![w] = 0]
    /\ wpc' = [wpc EXCEPT ![w] = "top"]
    /\ UNCHANGED <<sent, gone, batch, io, cur, queue, running, stopper, up,
                   history>>

WorkerThread(w) ==
    \/ Top(w) \/ Take(w) \/ FindEmpty(w) \/ Block(w) \/ SpuriousWakeup(w)
    \/ Handle(w) \/ HandlerThrows(w) \/ SendReply(w) \/ CloseSocket(w)

-----------------------------------------------------------------------------
(* stop().                                                                 *)

\* running_ is cleared before the mutex is taken.
StopRunning ==
    /\ stopper = "idle"
    /\ running' = FALSE /\ stopper' = "notify"
    /\ UNCHANGED <<clientVars, ioVars, queue, workVars, up, history>>

StopNotify ==
    /\ stopper = "notify" /\ MutexFree
    /\ wpc' = [w \in Worker |-> IF wpc[w] = "waiting" THEN "lock" ELSE wpc[w]]
    /\ stopper' = "join"
    /\ UNCHANGED <<clientVars, ioVars, queue, wtask, wcode, running, up,
                   history>>

StopJoin ==
    /\ stopper = "join" /\ \A w \in Worker : wpc[w] = "exit"
    /\ stopper' = "done"
    /\ UNCHANGED <<clientVars, ioVars, queue, workVars, running, up, history>>

-----------------------------------------------------------------------------
Client == \E c \in Conn : ClientConnect(c) \/ ClientSend(c) \/ ClientHangUp(c)

Serve == up /\ (Client \/ IoThread \/ \E w \in Worker : WorkerThread(w))

Stop == up /\ (StopRunning \/ StopNotify \/ StopJoin)

Next == Serve \/ Stop

Spec == Init /\ [][Next]_vars

-----------------------------------------------------------------------------
(* What must hold.                                                         *)

\* Types of the variables.
TypeOK ==
    /\ phase \in [Conn -> {"new", "backlog", "open", "closed"}]
    /\ sent \subseteq Conn /\ gone \subseteq Conn
    /\ sock \in [Fd -> Conn \cup {NoConn}]
    /\ armed \subseteq Fd /\ batch \subseteq Fd \cup {ServerFd}
    /\ io \in {"loop", "wait", "lock", "sleep", "returned"}
    /\ cur \in Task \cup {NoTask} /\ queue \subseteq Task
    /\ wpc \in [Worker -> {"top", "lock", "blocking", "waiting", "run", "send",
                           "close", "exit"}]
    /\ wtask \in [Worker -> Task \cup {NoTask}]
    /\ wcode \in [Worker -> {0, 1, 504}]
    /\ running \in BOOLEAN /\ up \in BOOLEAN
    /\ stopper \in {"idle", "notify", "join", "done"}
    /\ runs \in [Conn -> Nat]
    /\ replies \in [Conn -> Seq([request : Conn, code : {0, 1, 503, 504}])]

\* The descriptors of the requests that are read but not yet answered: in the
\* hands of handleClientData, in the queue, in the hands of a worker.
InPush    == {f \in Fd : cur.socket = f}
InQueue   == {t.socket : t \in queue}
InWorkers == {f \in Fd : \E w \in Worker : wtask[w].socket = f}

\* Every open descriptor has exactly one responsible - the epoll set, the batch
\* being dispatched, the request being pushed, one queued task or one worker -
\* and a closed one has none.  So no descriptor leaks, and no thread reads,
\* answers on or closes a number that was closed, and perhaps given to another
\* client, meanwhile.
OneHolder ==
    /\ Open = armed \cup (batch \ {ServerFd}) \cup InPush \cup InQueue \cup InWorkers
    /\ armed \cap batch = {}
    /\ InPush \cap (armed \cup batch) = {}
    /\ InQueue \cap (armed \cup batch \cup InPush) = {}
    /\ InWorkers \cap (armed \cup batch \cup InPush \cup InQueue) = {}
    /\ \A t, u \in queue : t.socket = u.socket => t = u
    /\ \A v, w \in Worker : wtask[v] # NoTask /\ wtask[v].socket = wtask[w].socket
                             => v = w

\* A task still designates the connection that sent its request: the number
\* kept in Task.socket was not closed and reused while the task waited, ran
\* or was answered.
TaskOnItsOwnSocket ==
    \A t \in queue \cup {cur} \cup {wtask[w] : w \in Worker} :
        t # NoTask => sock[t.socket] = t.request

\* The wake-ups of queueCond_ are never lost: while some worker sleeps on it,
\* each queued task has a worker of its own already woken to take it, so no
\* request waits for an idle pool (push and notify_one, stop's notify_all and
\* the predicate, all under the mutex).
NoIdleWorkerBesideWork ==
    (\E w \in Worker : wpc[w] = "waiting") =>
        Cardinality(queue) <= Cardinality({w \in Worker : wpc[w] = "lock"})

\* The queue respects maxTaskQueueSize_ although its size is read, the thread
\* may sleep, and only then the task is pushed.
QueueWithinLimit ==
    queue # {} => Cardinality(queue) <= MaxTaskQueueSize

\* After stop() has returned no worker holds a request any more: each request
\* was either answered and its connection closed, or never started.
StopDrains ==
    stopper = "done" =>
        \A c \in Conn : (runs[c] > 0 \/ replies[c] # <<>>) => phase[c] = "closed"

\* The connections as their clients see them: one is open before it is accepted.
Seen == [c \in Conn |-> IF phase[c] = "backlog" THEN "open" ELSE phase[c]]

\* The front end keeps the promise made to each client (module RequestReply).
Promise == INSTANCE RequestReply WITH conn <- Seen
PromiseKept == Promise!Spec

-----------------------------------------------------------------------------
(* Fairness: each thread keeps running, and a thread that asks for         *)
(* queueMutex_ again and again finally gets it.  Nothing is assumed of the *)
(* clients, of spurious wake-ups or of exceptions.                         *)

IoSteps ==
    TestRunning \/ EpollWait \/ EpollTimeout \/ AcceptFails
    \/ (\E c \in Conn, f \in Fd : Accept(c, f))
    \/ (\E f \in Fd : ReadFails(f) \/ ReadRequest(f))

Fairness ==
    /\ WF_vars(up /\ IoSteps)
    /\ SF_vars(up /\ (Reject \/ Backpressure \/ Push))
    /\ \A w \in Worker :
          /\ WF_vars(up /\ (Top(w) \/ Block(w) \/ Handle(w) \/ SendReply(w)
                            \/ CloseSocket(w)))
          /\ SF_vars(up /\ (Take(w) \/ FindEmpty(w)))
    /\ SF_vars(up /\ (StopNotify \/ StopJoin))

FairSpec == Spec /\ Fairness

\* A request that reached the server on an accepted connection is finally
\* answered, unless its client left or the service was stopped.
EveryRequestAnswered ==
    \A c \in Conn :
        (phase[c] = "open" /\ c \in sent)
            ~> (replies[c] # <<>> \/ c \in gone \/ ~running \/ ~up)

\* No descriptor is kept for ever by a client that has left: its connection
\* is finally closed, answered or not.
LeaversAreClosed ==
    \A c \in Conn : (phase[c] = "open" /\ c \in gone)
                        ~> (phase[c] = "closed" \/ ~running \/ ~up)

\* stop() called by another thread returns: every worker wakes up, finishes
\* the request it holds and leaves its loop.
StopReturns == stopper = "notify" ~> (stopper = "done" \/ ~up)
=============================================================================
