------------------------- MODULE SyncServiceProofs --------------------------
(***************************************************************************)
(* Proofs about SyncService for every set of clients, descriptors and      *)
(* workers and every limit.                                                *)
(***************************************************************************)
EXTENDS SyncService, FiniteSetTheorems, TLAPS

\* The program counters say who holds a task.
Holding ==
    /\ cur # NoTask <=> io \in {"lock", "sleep"}
    /\ \A w \in Worker : wtask[w] # NoTask <=> wpc[w] \in {"run", "send", "close"}
    /\ io \in {"wait", "returned"} => batch = {}

-----------------------------------------------------------------------------
(* Types.                                                                  *)

\* The empty task is none of the tasks: its socket is no descriptor.
LEMMA NoTaskFacts ==
    /\ NoTask \notin Task
    /\ NoTask.socket \notin Fd
    /\ \A t \in Task : t.socket \in Fd /\ t.request \in Conn
BY FdAssumption DEF NoTask, Task

\* getCommandPriority gives one of the four priorities of Task.
LEMMA PriorityType == \A c \in Conn : getCommandPriority(c) \in {0, 1, 5, 10}
BY DEF getCommandPriority

\* An open descriptor designates a connection.
LEMMA OpenFacts ==
    ASSUME TypeOK
    PROVE  /\ Open \subseteq Fd
           /\ \A f \in Open : sock[f] \in Conn
BY DEF TypeOK, Open

\* Nothing is connected, queued or held at the start.
LEMMA InitTypeOK == Init => TypeOK
BY NoTaskFacts DEF Init, TypeOK

\* close and send keep the types of what they change.
LEMMA CloseFdType ==
    ASSUME TypeOK, NEW f \in Fd, CloseFd(f)
    PROVE  /\ phase' \in [Conn -> {"new", "backlog", "open", "closed"}]
           /\ sock' \in [Fd -> Conn \cup {NoConn}]
           /\ armed' \subseteq Fd
BY DEF TypeOK, CloseFd

\* A history that gets one more entry is still a history.
LEMMA AppendType ==
    ASSUME NEW R, NEW h \in [Conn -> Seq(R)], NEW x \in Conn, NEW a \in R
    PROVE  [h EXCEPT ![x] = Append(h[x], a)] \in [Conn -> Seq(R)]
<1>1. Append(h[x], a) \in Seq(R)
    OBVIOUS
<1> QED
    BY <1>1

\* The clients keep the types.
LEMMA ClientType == TypeOK /\ Client => TypeOK'
<1>1. ASSUME TypeOK, NEW c \in Conn, ClientConnect(c) PROVE TypeOK'
    BY <1>1 DEF ClientConnect, TypeOK, ioVars, workVars, history
<1>2. ASSUME TypeOK, NEW c \in Conn, ClientSend(c) PROVE TypeOK'
    <2>1. sent' \subseteq Conn
        BY <1>2 DEF ClientSend, TypeOK
    <2> QED
        BY <1>2, <2>1, ZenonT(60) DEF ClientSend, TypeOK, ioVars, workVars, history
<1>3. ASSUME TypeOK, NEW c \in Conn, ClientHangUp(c) PROVE TypeOK'
    <2>1. gone' \subseteq Conn
        BY <1>3 DEF ClientHangUp, TypeOK
    <2> QED
        BY <1>3, <2>1, ZenonT(60) DEF ClientHangUp, TypeOK, ioVars, workVars, history
<1> QED
    BY <1>1, <1>2, <1>3 DEF Client

\* The I/O thread keeps the types: it queues the task of an open descriptor.
LEMMA IoType == TypeOK /\ Holding /\ TaskOnItsOwnSocket /\ IoThread => TypeOK'
<1> SUFFICES ASSUME TypeOK, Holding, TaskOnItsOwnSocket, IoThread PROVE TypeOK'
    OBVIOUS
<1>1. CASE TestRunning
    BY <1>1, ZenonT(60) DEF TestRunning, TypeOK, clientVars, workVars, history
<1>2. CASE EpollWait
    <2>1. Ready \subseteq Fd \cup {ServerFd}
        BY DEF Ready, TypeOK
    <2>2. armed' \subseteq Fd /\ batch' \subseteq Fd \cup {ServerFd} /\ io' = "loop"
        BY <1>2, <2>1 DEF EpollWait, TypeOK
    <2> QED
        BY <1>2, <2>2, ZenonT(60) DEF EpollWait, TypeOK, clientVars, workVars, history
<1>3. CASE EpollTimeout
    BY <1>3, ZenonT(60) DEF EpollTimeout, TypeOK, clientVars, workVars, history
<1>4. ASSUME NEW c \in Conn, NEW f \in Fd, Accept(c, f) PROVE TypeOK'
    BY <1>4 DEF Accept, TypeOK, workVars, history
<1>5. CASE AcceptFails
    BY <1>5, ZenonT(60) DEF AcceptFails, TypeOK, clientVars, workVars, history
<1>6. ASSUME NEW c \in Conn, EpollAddFails(c) PROVE TypeOK'
    BY <1>6 DEF EpollAddFails, TypeOK, workVars, history
<1>7. ASSUME NEW f \in Fd, ReadFails(f) PROVE TypeOK'
    BY <1>7, CloseFdType, ZenonT(60) DEF ReadFails, TypeOK, workVars, history
<1>8. ASSUME NEW f \in Fd, ReadRequest(f) PROVE TypeOK'
    <2>1. sock[f] \in Conn
        BY <1>8 DEF ReadRequest, TypeOK
    <2>2. cur' \in Task
        BY <1>8, <2>1, PriorityType DEF ReadRequest, Task
    <2> QED
        BY <1>8, <2>2 DEF ReadRequest, TypeOK, clientVars, workVars, history
<1>9. CASE Reject
    <2>1. cur \in Task
        BY <1>9 DEF Reject, Holding, TypeOK
    <2>2. cur.socket \in Fd /\ cur.request \in Conn
        BY <2>1, NoTaskFacts
    <2>3. /\ phase' \in [Conn -> {"new", "backlog", "open", "closed"}]
          /\ sock' \in [Fd -> Conn \cup {NoConn}]
          /\ armed' \subseteq Fd
        BY <1>9, <2>2, CloseFdType DEF Reject
    <2>4. replies' \in [Conn -> Seq([request : Conn, code : {0, 1, 503, 504}])]
        <3>1. sock[cur.socket] = cur.request
            BY <2>1, NoTaskFacts DEF TaskOnItsOwnSocket
        <3>2. replies' = [replies EXCEPT ![cur.request] =
                            Append(replies[cur.request], Answer(cur.request, 503))]
            BY <1>9, <3>1 DEF Reject, SendTo
        <3>3. Answer(cur.request, 503) \in [request : Conn, code : {0, 1, 503, 504}]
            BY <2>2 DEF Answer
        <3> QED
            BY <2>2, <3>2, <3>3, AppendType DEF TypeOK
    <2> QED
        BY <1>9, <2>3, <2>4, ZenonT(60) DEF Reject, TypeOK, workVars
<1>10. CASE Backpressure
    BY <1>10, ZenonT(60) DEF Backpressure, TypeOK, clientVars, workVars, history
<1>11. CASE Push
    <2>1. cur \in Task
        BY <1>11 DEF Push, Holding, TypeOK
    <2>2. queue' \subseteq Task /\ cur' = NoTask /\ io' = "loop"
        BY <1>11, <2>1 DEF Push, TypeOK
    <2>3. wpc' \in [Worker -> {"top", "lock", "blocking", "waiting", "run", "send",
                              "close", "exit"}]
        <3>1. CASE UNCHANGED wpc
            BY <3>1 DEF TypeOK
        <3>2. ASSUME NEW w \in Worker, wpc' = [wpc EXCEPT ![w] = "lock"]
              PROVE  wpc' \in [Worker -> {"top", "lock", "blocking", "waiting", "run",
                                         "send", "close", "exit"}]
            BY <3>2 DEF TypeOK
        <3> QED
            BY <1>11, <3>1, <3>2 DEF Push
    <2> QED
        BY <1>11, <2>2, <2>3 DEF Push, TypeOK, clientVars, history
<1> QED
    BY <1>1, <1>2, <1>3, <1>4, <1>5, <1>6, <1>7, <1>8, <1>9, <1>10, <1>11
       DEF IoThread

\* The workers keep the types.
LEMMA WorkerType ==
    ASSUME TypeOK, Holding, TaskOnItsOwnSocket, NEW w \in Worker, WorkerThread(w)
    PROVE  TypeOK'
<1>1. CASE Top(w)
    BY <1>1, ZenonT(60) DEF Top, TypeOK, clientVars, ioVars, history
<1>2. CASE Take(w)
    <2>1. PICK t \in queue : /\ wtask' = [wtask EXCEPT ![w] = t]
                             /\ queue' = queue \ {t}
        BY <1>2 DEF Take, Tops
    <2>2. wtask' \in [Worker -> Task \cup {NoTask}] /\ queue' \subseteq Task
        BY <2>1 DEF TypeOK
    <2> QED
        BY <1>2, <2>2, ZenonT(60) DEF Take, TypeOK, clientVars, ioVars, history
<1>3. CASE FindEmpty(w)
    BY <1>3, ZenonT(60) DEF FindEmpty, TypeOK, clientVars, ioVars, history
<1>4. CASE Block(w)
    BY <1>4, ZenonT(60) DEF Block, TypeOK, clientVars, ioVars, history
<1>5. CASE SpuriousWakeup(w)
    BY <1>5, ZenonT(60) DEF SpuriousWakeup, TypeOK, clientVars, ioVars, history
<1>6. CASE Handle(w)
    <2>1. runs' \in [Conn -> Nat]
        <3>1. runs \in [Conn -> Nat]
            BY DEF TypeOK
        <3>2. runs' = runs
              \/ \E c \in Conn : runs' = [runs EXCEPT ![c] = runs[c] + 1]
            BY <1>6 DEF Handle, Known
        <3> QED
            BY <3>1, <3>2
    <2>2. wcode' \in [Worker -> {0, 1, 504}]
        BY <1>6 DEF Handle, TypeOK
    <2> QED
        BY <1>6, <2>1, <2>2, ZenonT(60) DEF Handle, TypeOK, clientVars, ioVars
<1>7. CASE HandlerThrows(w)
    BY <1>7, ZenonT(60) DEF HandlerThrows, TypeOK, clientVars, ioVars, workVars, history
<1>8. CASE SendReply(w)
    <2>1. wtask[w] \in Task
        BY <1>8 DEF SendReply, Holding, TypeOK
    <2>2. wtask[w].socket \in Fd /\ wtask[w].request \in Conn
        BY <2>1, NoTaskFacts
    <2>3. wcode[w] \in {0, 1, 503, 504}
        BY DEF TypeOK
    <2>4. replies' \in [Conn -> Seq([request : Conn, code : {0, 1, 503, 504}])]
        <3>1. sock[wtask[w].socket] = wtask[w].request
            BY <2>1, NoTaskFacts DEF TaskOnItsOwnSocket
        <3>2. replies' = [replies EXCEPT ![wtask[w].request] =
                    Append(replies[wtask[w].request], Answer(wtask[w].request, wcode[w]))]
            BY <1>8, <3>1 DEF SendReply, SendTo
        <3>3. Answer(wtask[w].request, wcode[w])
                    \in [request : Conn, code : {0, 1, 503, 504}]
            BY <2>2, <2>3 DEF Answer
        <3> QED
            BY <2>2, <3>2, <3>3, AppendType DEF TypeOK
    <2> QED
        BY <1>8, <2>4, ZenonT(60) DEF SendReply, TypeOK, clientVars, ioVars
<1>9. CASE CloseSocket(w)
    <2>1. wtask[w] \in Task
        BY <1>9 DEF CloseSocket, Holding, TypeOK
    <2>2. /\ phase' \in [Conn -> {"new", "backlog", "open", "closed"}]
          /\ sock' \in [Fd -> Conn \cup {NoConn}]
          /\ armed' \subseteq Fd
        BY <1>9, <2>1, CloseFdType, NoTaskFacts DEF CloseSocket
    <2> QED
        BY <1>9, <2>2, ZenonT(60) DEF CloseSocket, TypeOK, history
<1> QED
    BY <1>1, <1>2, <1>3, <1>4, <1>5, <1>6, <1>7, <1>8, <1>9 DEF WorkerThread

\* stop() keeps the types.
LEMMA StopType == TypeOK /\ Stop => TypeOK'
<1>1. ASSUME TypeOK, StopRunning PROVE TypeOK'
    BY <1>1 DEF StopRunning, TypeOK, clientVars, ioVars, workVars, history
<1>2. ASSUME TypeOK, StopNotify PROVE TypeOK'
    <2>1. wpc' \in [Worker -> {"top", "lock", "blocking", "waiting", "run", "send",
                              "close", "exit"}]
        BY <1>2 DEF StopNotify, TypeOK
    <2>2. stopper' = "join" /\ running' \in BOOLEAN /\ up' \in BOOLEAN
        BY <1>2, Zenon DEF StopNotify, TypeOK
    <2> QED
        BY <1>2, <2>1, <2>2 DEF StopNotify, TypeOK, clientVars, ioVars, history
<1>3. ASSUME TypeOK, StopJoin PROVE TypeOK'
    BY <1>3, ZenonT(60) DEF StopJoin, TypeOK, clientVars, ioVars, workVars, history
<1> QED
    BY <1>1, <1>2, <1>3 DEF Stop

\* Every step keeps the types, given who holds what.
LEMMA NextTypeOK == TypeOK /\ Holding /\ TaskOnItsOwnSocket /\ [Next]_vars => TypeOK'
<1> SUFFICES ASSUME TypeOK, Holding, TaskOnItsOwnSocket, [Next]_vars PROVE TypeOK'
    OBVIOUS
<1>1. CASE Serve
    BY <1>1, ClientType, IoType, WorkerType DEF Serve
<1>2. CASE Stop
    BY <1>2, StopType
<1>3. CASE UNCHANGED vars
    BY <1>3, ZenonT(60) DEF vars, clientVars, ioVars, workVars, history, TypeOK
<1> QED
    BY <1>1, <1>2, <1>3 DEF Next

-----------------------------------------------------------------------------
(* Who holds a descriptor.  Each lemma is one way a step may move one.     *)

HolderInv == TypeOK /\ OneHolder /\ TaskOnItsOwnSocket /\ Holding

\* What the sets of holders are made of.
LEMMA HolderFacts ==
    ASSUME HolderInv
    PROVE  /\ armed \subseteq Fd /\ batch \subseteq Fd \cup {ServerFd}
           /\ InPush \subseteq Fd /\ InQueue \subseteq Fd /\ InWorkers \subseteq Fd
           /\ cur # NoTask => cur \in Task /\ InPush = {cur.socket}
           /\ cur = NoTask => InPush = {}
           /\ \A w \in Worker : wtask[w] # NoTask =>
                    wtask[w] \in Task /\ wtask[w].socket \in InWorkers
           /\ \A t \in queue : t \in Task /\ t.socket \in InQueue
<1> USE NoTaskFacts DEF HolderInv
<1>1. armed \subseteq Fd /\ batch \subseteq Fd \cup {ServerFd}
    BY DEF TypeOK
<1>2. InPush \subseteq Fd /\ InQueue \subseteq Fd /\ InWorkers \subseteq Fd
    BY DEF TypeOK, InPush, InQueue, InWorkers
<1>3. cur # NoTask => cur \in Task /\ InPush = {cur.socket}
    BY DEF TypeOK, InPush
<1>4. cur = NoTask => InPush = {}
    BY DEF InPush
<1>5. \A w \in Worker : wtask[w] # NoTask =>
            wtask[w] \in Task /\ wtask[w].socket \in InWorkers
    BY DEF TypeOK, InWorkers
<1>6. \A t \in queue : t \in Task /\ t.socket \in InQueue
    BY DEF TypeOK, InQueue
<1> QED
    BY <1>1, <1>2, <1>3, <1>4, <1>5, <1>6

\* A step that moves no descriptor.
LEMMA NoMove ==
    ASSUME HolderInv, UNCHANGED <<sock, armed, cur, queue, wtask>>,
           batch' \subseteq batch, batch \ {ServerFd} \subseteq batch'
    PROVE  OneHolder' /\ TaskOnItsOwnSocket'
<1>1. Open' = Open /\ InPush' = InPush /\ InQueue' = InQueue /\ InWorkers' = InWorkers
    BY DEF Open, InPush, InQueue, InWorkers
<1>2. ServerFd \notin armed \cup InPush \cup InQueue \cup InWorkers
    BY HolderFacts, FdAssumption
<1>3. OneHolder'
    BY <1>1, <1>2 DEF HolderInv, OneHolder
<1>4. TaskOnItsOwnSocket'
    BY DEF HolderInv, TaskOnItsOwnSocket
<1> QED
    BY <1>3, <1>4

\* From the epoll set to the batch.
LEMMA MoveToBatch ==
    ASSUME HolderInv, EpollWait
    PROVE  OneHolder' /\ TaskOnItsOwnSocket'
<1>1. PICK events \in SUBSET Ready : batch' = events /\ armed' = armed \ events
    BY DEF EpollWait
<1>2. Open' = Open /\ InPush' = InPush /\ InQueue' = InQueue /\ InWorkers' = InWorkers
    BY DEF EpollWait, Open, InPush, InQueue, InWorkers, workVars
<1>3. batch = {}
    BY DEF HolderInv, Holding, EpollWait
<1>4. batch' \subseteq armed \cup {ServerFd}
    BY <1>1 DEF Ready
<1>5. ServerFd \notin armed \cup InPush \cup InQueue \cup InWorkers
    BY HolderFacts, FdAssumption
<1>6. queue' = queue /\ wtask' = wtask
    BY DEF EpollWait, workVars
<1>7. OneHolder'
    BY <1>1, <1>2, <1>3, <1>4, <1>5, <1>6 DEF HolderInv, OneHolder
<1>8. TaskOnItsOwnSocket'
    BY DEF HolderInv, TaskOnItsOwnSocket, EpollWait, workVars
<1> QED
    BY <1>7, <1>8

\* A new descriptor enters the epoll set.
LEMMA MoveIn ==
    ASSUME HolderInv, NEW c \in Conn, NEW f \in Fd, Accept(c, f)
    PROVE  OneHolder' /\ TaskOnItsOwnSocket'
<1>1. f \notin Open /\ Open' = Open \cup {f}
    BY ConnAssumption DEF Accept, Open, HolderInv, TypeOK
<1>2. InPush' = InPush /\ InQueue' = InQueue /\ InWorkers' = InWorkers
    BY DEF Accept, InPush, InQueue, InWorkers, workVars
<1>3. armed' = armed \cup {f} /\ batch' = batch \ {ServerFd}
    BY DEF Accept
<1>4. f # ServerFd
    BY FdAssumption
<1>5. queue' = queue /\ wtask' = wtask /\ cur' = cur
    BY DEF Accept, workVars
<1>6. OneHolder'
    BY <1>1, <1>2, <1>3, <1>4, <1>5 DEF HolderInv, OneHolder
<1>7. \A g \in Open : sock'[g] = sock[g]
    BY <1>1 DEF Accept, HolderInv, TypeOK, Open
<1>8. TaskOnItsOwnSocket'
    BY <1>5, <1>7, HolderFacts DEF HolderInv, TaskOnItsOwnSocket, OneHolder
<1> QED
    BY <1>6, <1>8

\* close frees its descriptor and no other.
LEMMA CloseFdFacts ==
    ASSUME TypeOK, NEW f \in Fd, CloseFd(f)
    PROVE  /\ Open' = Open \ {f}
           /\ armed' = armed \ {f}
           /\ \A g \in Fd : g # f => sock'[g] = sock[g]
BY ConnAssumption DEF CloseFd, Open, TypeOK

\* From the batch to closed: the read failed.
LEMMA MoveOutOfBatch ==
    ASSUME HolderInv, NEW f \in Fd, ReadFails(f)
    PROVE  OneHolder' /\ TaskOnItsOwnSocket'
<1>1. f \in batch /\ f # ServerFd /\ batch' = batch \ {f}
    BY DEF ReadFails
<1>2. /\ Open' = Open \ {f} /\ armed' = armed \ {f}
      /\ \A g \in Fd : g # f => sock'[g] = sock[g]
    BY CloseFdFacts DEF ReadFails, HolderInv
<1>3. InPush' = InPush /\ InQueue' = InQueue /\ InWorkers' = InWorkers
    BY DEF ReadFails, InPush, InQueue, InWorkers, workVars
<1>4. queue' = queue /\ wtask' = wtask /\ cur' = cur
    BY DEF ReadFails, workVars
<1>5. OneHolder'
    BY <1>1, <1>2, <1>3, <1>4 DEF HolderInv, OneHolder
<1>6. f \notin InPush \cup InQueue \cup InWorkers
    BY <1>1 DEF HolderInv, OneHolder
<1>7. TaskOnItsOwnSocket'
    BY <1>2, <1>4, <1>6, HolderFacts DEF HolderInv, TaskOnItsOwnSocket
<1> QED
    BY <1>5, <1>7

\* From the batch to handleClientData.
LEMMA MoveToPush ==
    ASSUME HolderInv, NEW f \in Fd, ReadRequest(f)
    PROVE  OneHolder' /\ TaskOnItsOwnSocket'
<1>1. f \in batch /\ f # ServerFd /\ batch' = batch \ {f}
    BY DEF ReadRequest
<1>2. cur = NoTask
    BY DEF ReadRequest, HolderInv, Holding
<1>3. InPush = {} /\ InPush' = {f}
    BY <1>2, NoTaskFacts DEF ReadRequest, InPush
<1>4. Open' = Open /\ armed' = armed /\ InQueue' = InQueue /\ InWorkers' = InWorkers
    BY DEF ReadRequest, Open, InQueue, InWorkers, workVars
<1>5. queue' = queue /\ wtask' = wtask /\ sock' = sock
    BY DEF ReadRequest, workVars
<1>6. OneHolder'
    BY <1>1, <1>3, <1>4, <1>5 DEF HolderInv, OneHolder
<1>7. cur'.socket = f /\ cur'.request = sock[f]
    BY DEF ReadRequest
<1>8. TaskOnItsOwnSocket'
    BY <1>5, <1>7 DEF HolderInv, TaskOnItsOwnSocket
<1> QED
    BY <1>6, <1>8

\* From handleClientData to closed: the queue is full.
LEMMA MoveOutOfPush ==
    ASSUME HolderInv, Reject
    PROVE  OneHolder' /\ TaskOnItsOwnSocket'
<1>1. cur # NoTask
    BY DEF Reject, HolderInv, Holding
<1> DEFINE f == cur.socket
<1>2. f \in Fd /\ InPush = {f}
    BY <1>1, HolderFacts, NoTaskFacts
<1>3. /\ Open' = Open \ {f} /\ armed' = armed \ {f}
      /\ \A g \in Fd : g # f => sock'[g] = sock[g]
    BY <1>2, CloseFdFacts DEF Reject, HolderInv
<1>4. InPush' = {} /\ InQueue' = InQueue /\ InWorkers' = InWorkers
    BY NoTaskFacts DEF Reject, InPush, InQueue, InWorkers, workVars
<1>5. queue' = queue /\ wtask' = wtask /\ cur' = NoTask /\ batch' = batch
    BY DEF Reject, workVars
<1> HIDE DEF f
<1>6. OneHolder'
    BY <1>2, <1>3, <1>4, <1>5 DEF HolderInv, OneHolder
<1>7. f \notin InQueue \cup InWorkers
    BY <1>2 DEF HolderInv, OneHolder
<1>8. TaskOnItsOwnSocket'
    BY <1>3, <1>5, <1>7, HolderFacts DEF HolderInv, TaskOnItsOwnSocket
<1> QED
    BY <1>6, <1>8

\* From handleClientData to the queue.
LEMMA MoveToQueue ==
    ASSUME HolderInv, Push
    PROVE  OneHolder' /\ TaskOnItsOwnSocket'
<1>1. cur # NoTask
    BY DEF Push, HolderInv, Holding
<1>2. cur \in Task /\ cur.socket \in Fd /\ InPush = {cur.socket}
    BY <1>1, HolderFacts, NoTaskFacts
<1>3. InPush' = {} /\ InQueue' = InQueue \cup {cur.socket}
    BY NoTaskFacts DEF Push, InPush, InQueue
<1>4. Open' = Open /\ InWorkers' = InWorkers
    BY DEF Push, Open, InWorkers
<1>5. /\ armed' = armed /\ batch' = batch /\ wtask' = wtask /\ sock' = sock
      /\ queue' = queue \cup {cur} /\ cur' = NoTask
    BY DEF Push
<1>6. \A t \in queue : t.socket # cur.socket
    BY <1>2, HolderFacts DEF HolderInv, OneHolder
<1>7. OneHolder'
    BY <1>2, <1>3, <1>4, <1>5, <1>6 DEF HolderInv, OneHolder
<1>8. TaskOnItsOwnSocket'
    BY <1>5 DEF HolderInv, TaskOnItsOwnSocket
<1> QED
    BY <1>7, <1>8

\* From the queue to a worker.
LEMMA MoveToWorker ==
    ASSUME HolderInv, NEW w \in Worker, Take(w)
    PROVE  OneHolder' /\ TaskOnItsOwnSocket'
<1>1. PICK t \in queue : wtask' = [wtask EXCEPT ![w] = t] /\ queue' = queue \ {t}
    BY DEF Take, Tops
<1>2. wtask[w] = NoTask
    BY DEF Take, HolderInv, Holding
<1>3. t \in Task /\ t.socket \in Fd /\ t # NoTask
    BY HolderFacts, NoTaskFacts
<1>4. \A v \in Worker : wtask'[v] = IF v = w THEN t ELSE wtask[v]
    BY <1>1 DEF HolderInv, TypeOK
<1>5. InWorkers' = InWorkers \cup {t.socket}
    BY <1>2, <1>3, <1>4, NoTaskFacts DEF InWorkers
<1>6. InQueue' = InQueue \ {t.socket}
    BY <1>1 DEF InQueue, HolderInv, OneHolder
<1>7. Open' = Open /\ InPush' = InPush
    BY DEF Take, Open, InPush, ioVars
<1>8. armed' = armed /\ batch' = batch /\ cur' = cur /\ sock' = sock
    BY DEF Take, ioVars
<1>9. t.socket \in InQueue
    BY HolderFacts
<1>10. \A v \in Worker : v # w => wtask[v].socket # t.socket
    BY <1>3, <1>9 DEF HolderInv, OneHolder, InWorkers
<1>11. \A u, v \in Worker : wtask'[u] # NoTask /\ wtask'[u].socket = wtask'[v].socket
                             => u = v
    BY <1>4, <1>10 DEF HolderInv, OneHolder
<1>12. OneHolder'
    BY <1>1, <1>5, <1>6, <1>7, <1>8, <1>9, <1>11 DEF HolderInv, OneHolder
<1>13. TaskOnItsOwnSocket'
    BY <1>1, <1>4, <1>8 DEF HolderInv, TaskOnItsOwnSocket
<1> QED
    BY <1>12, <1>13

\* From a worker to closed: the request is answered.
LEMMA MoveOutOfWorker ==
    ASSUME HolderInv, NEW w \in Worker, CloseSocket(w)
    PROVE  OneHolder' /\ TaskOnItsOwnSocket'
<1>1. wtask[w] # NoTask
    BY DEF CloseSocket, HolderInv, Holding
<1> DEFINE f == wtask[w].socket
<1>2. f \in Fd /\ f \in InWorkers
    BY <1>1, HolderFacts, NoTaskFacts
<1>3. /\ Open' = Open \ {f} /\ armed' = armed \ {f}
      /\ \A g \in Fd : g # f => sock'[g] = sock[g]
    BY <1>2, CloseFdFacts DEF CloseSocket, HolderInv
<1>4. \A v \in Worker : wtask'[v] = IF v = w THEN NoTask ELSE wtask[v]
    BY DEF CloseSocket, HolderInv, TypeOK
<1>5. \A v \in Worker : v # w => wtask[v].socket # f
    BY <1>1 DEF HolderInv, OneHolder
<1>6. InPush' = InPush /\ InQueue' = InQueue
    BY DEF CloseSocket, InPush, InQueue
<1>7. InWorkers' = InWorkers \ {f}
    BY <1>4, <1>5, NoTaskFacts DEF InWorkers
<1>8. queue' = queue /\ cur' = cur /\ batch' = batch
    BY DEF CloseSocket
<1> HIDE DEF f
<1>9. \A u, v \in Worker : wtask'[u] # NoTask /\ wtask'[u].socket = wtask'[v].socket
                            => u = v
    <2> SUFFICES ASSUME NEW u \in Worker, NEW v \in Worker, wtask'[u] # NoTask,
                        wtask'[u].socket = wtask'[v].socket
                 PROVE  u = v
        OBVIOUS
    <2>1. u # w /\ wtask'[u] = wtask[u]
        BY <1>4
    <2>2. wtask[u].socket \in Fd
        BY <2>1, HolderFacts, NoTaskFacts
    <2>3. v # w
        BY <1>4, <2>1, <2>2, NoTaskFacts
    <2> QED
        BY <1>4, <2>1, <2>3 DEF HolderInv, OneHolder
<1>10. OneHolder'
    BY <1>2, <1>3, <1>6, <1>7, <1>8, <1>9 DEF HolderInv, OneHolder
<1>11. f \notin InQueue \cup InPush
    BY <1>2 DEF HolderInv, OneHolder
<1>12. TaskOnItsOwnSocket'
    BY <1>3, <1>4, <1>5, <1>8, <1>11, HolderFacts, NoTaskFacts
       DEF HolderInv, TaskOnItsOwnSocket
<1> QED
    BY <1>10, <1>12

-----------------------------------------------------------------------------
(* The holders are an inductive invariant.                                 *)

\* No task is held at the start.
LEMMA InitHolder == Init => HolderInv
<1> SUFFICES ASSUME Init PROVE HolderInv
    OBVIOUS
<1>1. TypeOK
    BY InitTypeOK
<1>2. Open = {} /\ InPush = {} /\ InQueue = {} /\ InWorkers = {}
    BY NoTaskFacts DEF Init, Open, InPush, InQueue, InWorkers
<1>3. OneHolder
    BY <1>2 DEF Init, OneHolder
<1>4. TaskOnItsOwnSocket
    BY DEF Init, TaskOnItsOwnSocket
<1>5. Holding
    BY DEF Init, Holding
<1> QED
    BY <1>1, <1>3, <1>4, <1>5 DEF HolderInv

\* The clients move no task.
LEMMA ClientHolder == HolderInv /\ Client => OneHolder' /\ TaskOnItsOwnSocket' /\ Holding'
<1> SUFFICES ASSUME HolderInv, Client
             PROVE  OneHolder' /\ TaskOnItsOwnSocket' /\ Holding'
    OBVIOUS
<1>1. UNCHANGED <<ioVars, queue, workVars>>
    BY DEF Client, ClientConnect, ClientSend, ClientHangUp
<1>2. Holding'
    BY <1>1 DEF HolderInv, Holding, ioVars, workVars
<1> QED
    BY <1>1, <1>2, NoMove DEF ioVars, workVars

\* The I/O thread hands each task on to one place.
LEMMA IoHolder == HolderInv /\ IoThread => OneHolder' /\ TaskOnItsOwnSocket' /\ Holding'
<1> SUFFICES ASSUME HolderInv, IoThread
             PROVE  OneHolder' /\ TaskOnItsOwnSocket' /\ Holding'
    OBVIOUS
<1> USE DEF HolderInv
<1>1. CASE TestRunning
    <2>1. Holding'
        BY <1>1 DEF TestRunning, Holding, workVars
    <2> QED
        BY <1>1, <2>1, NoMove DEF TestRunning, workVars
<1>2. CASE EpollWait
    BY <1>2, MoveToBatch DEF EpollWait, Holding, workVars
<1>3. CASE EpollTimeout
    <2>1. Holding'
        BY <1>3 DEF EpollTimeout, Holding, workVars
    <2> QED
        BY <1>3, <2>1, NoMove DEF EpollTimeout, workVars
<1>4. ASSUME NEW c \in Conn, NEW f \in Fd, Accept(c, f)
      PROVE  OneHolder' /\ TaskOnItsOwnSocket' /\ Holding'
    BY <1>4, MoveIn DEF Accept, Holding, workVars
<1>5. CASE AcceptFails
    <2>1. Holding'
        BY <1>5 DEF AcceptFails, Holding, workVars
    <2> QED
        BY <1>5, <2>1, NoMove DEF AcceptFails, workVars
<1>6. ASSUME NEW c \in Conn, EpollAddFails(c)
      PROVE  OneHolder' /\ TaskOnItsOwnSocket' /\ Holding'
    <2>1. Holding'
        BY <1>6 DEF EpollAddFails, Holding, workVars
    <2> QED
        BY <1>6, <2>1, NoMove DEF EpollAddFails, workVars
<1>7. ASSUME NEW f \in Fd, ReadFails(f)
      PROVE  OneHolder' /\ TaskOnItsOwnSocket' /\ Holding'
    BY <1>7, MoveOutOfBatch DEF ReadFails, Holding, workVars
<1>8. ASSUME NEW f \in Fd, ReadRequest(f)
      PROVE  OneHolder' /\ TaskOnItsOwnSocket' /\ Holding'
    <2>1. cur'.socket = f
        BY <1>8 DEF ReadRequest
    <2>2. cur' # NoTask
        BY <2>1, NoTaskFacts
    <2>3. Holding'
        BY <1>8, <2>2 DEF ReadRequest, Holding, workVars
    <2> QED
        BY <1>8, <2>3, MoveToPush
<1>9. CASE Reject
    BY <1>9, MoveOutOfPush DEF Reject, Holding, workVars
<1>10. CASE Backpressure
    <2>1. Holding'
        BY <1>10 DEF Backpressure, Holding, workVars
    <2> QED
        BY <1>10, <2>1, NoMove DEF Backpressure, workVars
<1>11. CASE Push
    <2>1. \A w \in Worker : wpc'[w] \in {"run", "send", "close"}
                            <=> wpc[w] \in {"run", "send", "close"}
        BY <1>11 DEF Push, TypeOK
    <2>2. Holding'
        BY <1>11, <2>1 DEF Push, Holding
    <2> QED
        BY <1>11, <2>2, MoveToQueue
<1> QED
    BY <1>1, <1>2, <1>3, <1>4, <1>5, <1>6, <1>7, <1>8, <1>9, <1>10, <1>11
       DEF IoThread

\* A worker that keeps its task, or goes on without one, moves no descriptor.
LEMMA WorkerStays ==
    ASSUME HolderInv, NEW w \in Worker, NEW pc,
           wpc' = [wpc EXCEPT ![w] = pc],
           pc \in {"run", "send", "close"} <=> wpc[w] \in {"run", "send", "close"},
           UNCHANGED <<ioVars, queue, wtask>>
    PROVE  OneHolder' /\ TaskOnItsOwnSocket' /\ Holding'
<1>1. \A v \in Worker : wpc'[v] \in {"run", "send", "close"}
                        <=> wpc[v] \in {"run", "send", "close"}
    BY DEF HolderInv, TypeOK
<1>2. Holding'
    BY <1>1 DEF HolderInv, Holding, ioVars
<1> QED
    BY <1>2, NoMove DEF ioVars

\* A worker takes a task off the queue, where no one else can find it then.
LEMMA WorkerHolder ==
    ASSUME HolderInv, NEW w \in Worker, WorkerThread(w)
    PROVE  OneHolder' /\ TaskOnItsOwnSocket' /\ Holding'
<1>1. CASE Top(w)
    BY <1>1, WorkerStays DEF Top
<1>2. CASE Take(w)
    <2>1. \A v \in Worker : v # w => wtask'[v] = wtask[v] /\ wpc'[v] = wpc[v]
        BY <1>2 DEF Take, HolderInv, TypeOK
    <2>2. wtask'[w] # NoTask /\ wpc'[w] = "run"
        BY <1>2, HolderFacts, NoTaskFacts DEF Take, Tops, HolderInv, TypeOK
    <2>3. Holding'
        BY <1>2, <2>1, <2>2 DEF Take, Holding, HolderInv, ioVars
    <2> QED
        BY <1>2, <2>3, MoveToWorker
<1>3. CASE FindEmpty(w)
    BY <1>3, WorkerStays DEF FindEmpty
<1>4. CASE Block(w)
    BY <1>4, WorkerStays DEF Block
<1>5. CASE SpuriousWakeup(w)
    BY <1>5, WorkerStays DEF SpuriousWakeup
<1>6. CASE Handle(w)
    BY <1>6, WorkerStays DEF Handle
<1>7. CASE HandlerThrows(w)
    <2>1. Holding'
        BY <1>7 DEF HandlerThrows, HolderInv, Holding, ioVars, workVars
    <2> QED
        BY <1>7, <2>1, NoMove DEF HandlerThrows, ioVars, workVars
<1>8. CASE SendReply(w)
    BY <1>8, WorkerStays DEF SendReply
<1>9. CASE CloseSocket(w)
    <2>1. \A v \in Worker : v # w => wtask'[v] = wtask[v] /\ wpc'[v] = wpc[v]
        BY <1>9 DEF CloseSocket, HolderInv, TypeOK
    <2>2. wtask'[w] = NoTask /\ wpc'[w] = "top"
        BY <1>9 DEF CloseSocket, HolderInv, TypeOK
    <2>3. Holding'
        BY <1>9, <2>1, <2>2 DEF CloseSocket, Holding, HolderInv
    <2> QED
        BY <1>9, <2>3, MoveOutOfWorker
<1> QED
    BY <1>1, <1>2, <1>3, <1>4, <1>5, <1>6, <1>7, <1>8, <1>9 DEF WorkerThread

\* stop() moves no task.
LEMMA StopHolder == HolderInv /\ Stop => OneHolder' /\ TaskOnItsOwnSocket' /\ Holding'
<1> SUFFICES ASSUME HolderInv, Stop
             PROVE  OneHolder' /\ TaskOnItsOwnSocket' /\ Holding'
    OBVIOUS
<1>1. UNCHANGED <<ioVars, queue, wtask>>
    BY DEF Stop, StopRunning, StopNotify, StopJoin, workVars
<1>2. \A w \in Worker : wpc'[w] \in {"run", "send", "close"}
                        <=> wpc[w] \in {"run", "send", "close"}
    BY DEF Stop, StopRunning, StopNotify, StopJoin, workVars
<1>3. Holding'
    BY <1>1, <1>2 DEF HolderInv, Holding, ioVars
<1> QED
    BY <1>1, <1>3, NoMove DEF ioVars

\* Every step keeps one holder per task.
LEMMA NextHolder == HolderInv /\ [Next]_vars => HolderInv'
<1> SUFFICES ASSUME HolderInv, [Next]_vars PROVE HolderInv'
    OBVIOUS
<1>1. TypeOK'
    BY NextTypeOK DEF HolderInv
<1>2. CASE Serve
    BY <1>1, <1>2, ClientHolder, IoHolder, WorkerHolder DEF Serve, HolderInv
<1>3. CASE Stop
    BY <1>1, <1>3, StopHolder DEF HolderInv
<1>4. CASE UNCHANGED vars
    <2>1. Holding'
        BY <1>4 DEF vars, ioVars, workVars, HolderInv, Holding
    <2>2. OneHolder' /\ TaskOnItsOwnSocket'
        BY <1>4, NoMove DEF vars, ioVars, workVars
    <2> QED
        BY <1>1, <2>1, <2>2 DEF HolderInv
<1> QED
    BY <1>2, <1>3, <1>4 DEF Next

\* In every reachable state each task has one holder.
LEMMA HolderInvariant == Spec => []HolderInv
BY InitHolder, NextHolder, PTL DEF Spec

\* The variables of SyncService keep their types.
THEOREM TypeCorrect == Spec => []TypeOK
<1>1. HolderInv => TypeOK
    BY DEF HolderInv
<1> QED
    BY <1>1, HolderInvariant, PTL

\* Every open descriptor has one responsible thread or structure and a closed
\* one has none, whatever the number of clients, descriptors and workers.
THEOREM DescriptorOwnership == Spec => []OneHolder
<1>1. HolderInv => OneHolder
    BY DEF HolderInv
<1> QED
    BY <1>1, HolderInvariant, PTL

\* A task's descriptor still designates the client that sent the request.
THEOREM TasksKeepTheirClient == Spec => []TaskOnItsOwnSocket
<1>1. HolderInv => TaskOnItsOwnSocket
    BY DEF HolderInv
<1> QED
    BY <1>1, HolderInvariant, PTL

-----------------------------------------------------------------------------
(* The task queue, its mutex and its condition variable.                   *)

\* The workers that are awake and ask for queueMutex_.
Locking == {w \in Worker : wpc[w] = "lock"}

\* queueMutex_ has one holder at most, and the worker that is about to sleep has
\* it: nobody pushes between its test of the queue and its sleep.
MutexInv ==
    /\ \A w \in Worker : wpc[w] = "blocking" => io # "sleep" /\ queue = {}
    /\ \A v, w \in Worker : wpc[v] = "blocking" /\ wpc[w] = "blocking" => v = w

\* The queue stays finite; the size that was read before the backpressure sleep
\* is still below the limit, as no other thread pushes.
LimitInv ==
    /\ IsFiniteSet(queue)
    /\ QueueWithinLimit
    /\ io = "sleep" => Cardinality(queue) < MaxTaskQueueSize

QueueInv == HolderInv /\ MutexInv /\ LimitInv /\ NoIdleWorkerBesideWork

-----------------------------------------------------------------------------
\* The workers that ask for the mutex are finitely many.
LEMMA LockingFinite ==
    IsFiniteSet(Locking) /\ Cardinality(Locking) \in Nat
<1>1. Locking \subseteq Worker
    BY DEF Locking
<1> QED
    BY <1>1, WorkerAssumption, FS_Subset, FS_CardinalityType

\* A step that adds nothing to the queue and after which nobody waits who did not
\* wait before, and everybody who asked for the mutex still does.
LEMMA StillCovered ==
    ASSUME QueueInv, queue' = queue,
           \A w \in Worker : wpc'[w] = "waiting" => wpc[w] = "waiting",
           \A w \in Worker : wpc[w] = "lock" => wpc'[w] = "lock"
    PROVE  NoIdleWorkerBesideWork'
<1> SUFFICES ASSUME NEW w \in Worker, wpc'[w] = "waiting"
             PROVE  Cardinality(queue) <= Cardinality(Locking')
    BY DEF NoIdleWorkerBesideWork, Locking
<1>1. Cardinality(queue) <= Cardinality(Locking)
    BY DEF QueueInv, NoIdleWorkerBesideWork, Locking
<1>2. Locking \subseteq Locking' /\ Locking' \subseteq Worker
    BY DEF Locking
<1>3. IsFiniteSet(Locking')
    BY <1>2, WorkerAssumption, FS_Subset
<1>4. Cardinality(Locking) <= Cardinality(Locking')
    BY <1>2, <1>3, FS_Subset
<1>5. /\ Cardinality(queue) \in Nat /\ Cardinality(Locking) \in Nat
      /\ Cardinality(Locking') \in Nat
    BY <1>3, LockingFinite, FS_CardinalityType DEF QueueInv, LimitInv
<1> QED
    BY <1>1, <1>4, <1>5

\* With an empty queue there is nothing to take.
LEMMA EmptyIsCovered == queue' = {} => NoIdleWorkerBesideWork'
<1> SUFFICES ASSUME queue' = {} PROVE NoIdleWorkerBesideWork'
    OBVIOUS
<1>1. Locking' \subseteq Worker
    BY DEF Locking
<1>2. Cardinality(Locking') \in Nat
    BY <1>1, WorkerAssumption, FS_Subset, FS_CardinalityType
<1> QED
    BY <1>2, FS_EmptySet DEF NoIdleWorkerBesideWork, Locking

\* A step that leaves the queue and the mutex alone: the program counters it
\* changes are neither those of a worker with the mutex nor become so.
LEMMA MutexKept ==
    ASSUME QueueInv, queue' = queue, io' = "sleep" => io = "sleep",
           \A w \in Worker : wpc'[w] = "blocking" => wpc[w] = "blocking"
    PROVE  MutexInv' /\ LimitInv'
BY DEF QueueInv, MutexInv, LimitInv, QueueWithinLimit

\* Both together: what most actions do.
LEMMA QueueKept ==
    ASSUME QueueInv, queue' = queue, io' = "sleep" => io = "sleep",
           \A w \in Worker : /\ wpc'[w] \in {"blocking", "waiting"} => wpc'[w] = wpc[w]
                             /\ wpc[w] = "lock" => wpc'[w] = "lock"
    PROVE  MutexInv' /\ LimitInv' /\ NoIdleWorkerBesideWork'
BY StillCovered, MutexKept

-----------------------------------------------------------------------------
\* handleClientData pushes one task and wakes one sleeper, if there is one.
LEMMA PushKept ==
    ASSUME QueueInv, Push
    PROVE  MutexInv' /\ LimitInv' /\ NoIdleWorkerBesideWork'
<1>1. Cardinality(queue) \in Nat
    BY FS_CardinalityType DEF QueueInv, LimitInv
<1>2. Cardinality(queue) < MaxTaskQueueSize
    <2>1. io = "sleep" => Cardinality(queue) < MaxTaskQueueSize
        BY DEF QueueInv, LimitInv
    <2>2. io = "sleep" \/ ~(Cardinality(queue) >= MaxTaskQueueSize)
        BY DEF Push, QueueFull
    <2> QED
        BY <1>1, <2>1, <2>2, LimitAssumption
<1>3. queue' = queue \cup {cur} /\ io' = "loop"
    BY DEF Push
<1>4. /\ IsFiniteSet(queue') /\ Cardinality(queue') \in Nat
      /\ Cardinality(queue') <= Cardinality(queue) + 1
    <2>1. IsFiniteSet(queue)
        BY DEF QueueInv, LimitInv
    <2>2. /\ IsFiniteSet(queue')
          /\ Cardinality(queue') = IF cur \in queue THEN Cardinality(queue)
                                                   ELSE Cardinality(queue) + 1
        BY <1>3, <2>1, FS_AddElement
    <2> QED
        BY <1>1, <2>2
<1>5. LimitInv'
    BY <1>1, <1>2, <1>3, <1>4, LimitAssumption DEF LimitInv, QueueWithinLimit
<1>6. \A w \in Worker : wpc[w] # "blocking"
    BY DEF Push, MutexFree, QueueInv, MutexInv
<1>7. CASE UNCHANGED wpc /\ \A w \in Worker : wpc[w] # "waiting"
    BY <1>5, <1>6, <1>7 DEF MutexInv, NoIdleWorkerBesideWork
<1>8. ASSUME NEW w \in Worker, wpc[w] = "waiting", wpc' = [wpc EXCEPT ![w] = "lock"]
      PROVE  MutexInv' /\ LimitInv' /\ NoIdleWorkerBesideWork'
    <2>1. wpc'[w] = "lock" /\ \A v \in Worker : v # w => wpc'[v] = wpc[v]
        BY <1>8 DEF QueueInv, HolderInv, TypeOK
    <2>2. Locking' = Locking \cup {w} /\ w \notin Locking
        BY <1>8, <2>1 DEF Locking
    <2>3. Cardinality(Locking') = Cardinality(Locking) + 1
        BY <2>2, LockingFinite, FS_AddElement
    <2>4. Cardinality(queue) <= Cardinality(Locking)
        BY <1>8 DEF QueueInv, NoIdleWorkerBesideWork, Locking
    <2>5. Cardinality(queue') <= Cardinality(Locking')
        BY <1>1, <1>4, <2>3, <2>4, LockingFinite
    <2>6. NoIdleWorkerBesideWork'
        BY <2>5 DEF NoIdleWorkerBesideWork, Locking
    <2>7. MutexInv'
        BY <1>6, <2>1 DEF MutexInv
    <2> QED
        BY <1>5, <2>6, <2>7
<1> QED
    BY <1>7, <1>8 DEF Push

\* A worker takes one task and asks for the mutex no longer.
LEMMA TakeKept ==
    ASSUME QueueInv, NEW w \in Worker, Take(w)
    PROVE  MutexInv' /\ LimitInv' /\ NoIdleWorkerBesideWork'
<1>1. PICK t \in queue : queue' = queue \ {t}
    BY DEF Take, Tops
<1>2. wpc[w] = "lock" /\ wpc'[w] = "run" /\ \A v \in Worker : v # w => wpc'[v] = wpc[v]
    BY DEF Take, QueueInv, HolderInv, TypeOK
<1>3. /\ IsFiniteSet(queue') /\ Cardinality(queue) \in Nat /\ Cardinality(queue') \in Nat
      /\ Cardinality(queue') = Cardinality(queue) - 1
    BY <1>1, FS_RemoveElement, FS_CardinalityType DEF QueueInv, LimitInv
<1>4. LimitInv'
    BY <1>1, <1>3, LimitAssumption
       DEF Take, ioVars, QueueInv, LimitInv, QueueWithinLimit
<1>5. MutexInv'
    BY <1>2 DEF Take, MutexFree, MutexInv
<1>6. Locking' = Locking \ {w} /\ w \in Locking
    BY <1>2 DEF Locking
<1>7. Cardinality(Locking') = Cardinality(Locking) - 1
    BY <1>6, LockingFinite, FS_RemoveElement
<1>8. NoIdleWorkerBesideWork'
    <2> SUFFICES ASSUME NEW v \in Worker, wpc'[v] = "waiting"
                 PROVE  Cardinality(queue') <= Cardinality(Locking')
        BY DEF NoIdleWorkerBesideWork, Locking
    <2>1. wpc[v] = "waiting"
        BY <1>2
    <2>2. Cardinality(queue) <= Cardinality(Locking)
        BY <2>1 DEF QueueInv, NoIdleWorkerBesideWork, Locking
    <2> QED
        BY <1>3, <1>7, <2>2, LockingFinite
<1> QED
    BY <1>4, <1>5, <1>8

-----------------------------------------------------------------------------
\* The clients and stop() before it notifies do not touch the queue; epoll and the
\* sockets neither.
LEMMA IoQueue ==
    ASSUME QueueInv, IoThread
    PROVE  MutexInv' /\ LimitInv' /\ NoIdleWorkerBesideWork'
<1>1. CASE Push
    BY <1>1, PushKept
<1>2. CASE Backpressure
    <2>1. Cardinality(queue) < MaxTaskQueueSize
        <3>1. Cardinality(queue) \in Nat
            BY FS_CardinalityType DEF QueueInv, LimitInv
        <3> QED
            BY <1>2, <3>1, LimitAssumption DEF Backpressure, QueueFull
    <2>2. UNCHANGED <<queue, wpc>> /\ \A w \in Worker : wpc[w] # "blocking"
        BY <1>2 DEF Backpressure, MutexFree, workVars
    <2>3. NoIdleWorkerBesideWork'
        BY <2>2, StillCovered
    <2>4. MutexInv' /\ LimitInv'
        BY <2>1, <2>2 DEF QueueInv, MutexInv, LimitInv, QueueWithinLimit
    <2> QED
        BY <2>3, <2>4
<1>3. CASE TestRunning \/ EpollWait \/ EpollTimeout \/ AcceptFails \/ Reject
    <2>1. UNCHANGED <<queue, wpc>> /\ (io' = "sleep" => io = "sleep")
        BY <1>3 DEF TestRunning, EpollWait, EpollTimeout, AcceptFails, Reject, workVars
    <2> QED
        BY <2>1, QueueKept
<1>4. ASSUME \/ \E c \in Conn, f \in Fd : Accept(c, f)
             \/ \E c \in Conn : EpollAddFails(c)
             \/ \E f \in Fd : ReadFails(f) \/ ReadRequest(f)
      PROVE  MutexInv' /\ LimitInv' /\ NoIdleWorkerBesideWork'
    <2>1. UNCHANGED <<queue, wpc>> /\ (io' = "sleep" => io = "sleep")
        BY <1>4 DEF Accept, EpollAddFails, ReadFails, ReadRequest, workVars
    <2> QED
        BY <2>1, QueueKept
<1> QED
    BY <1>1, <1>2, <1>3, <1>4 DEF IoThread

\* A worker takes from the queue, or goes to sleep only when it is empty.
LEMMA WorkerQueue ==
    ASSUME QueueInv, NEW w \in Worker, WorkerThread(w)
    PROVE  MutexInv' /\ LimitInv' /\ NoIdleWorkerBesideWork'
<1>1. CASE Take(w)
    BY <1>1, TakeKept
<1>2. CASE FindEmpty(w)
    <2>1. /\ queue = {} /\ io # "sleep" /\ \A v \in Worker : wpc[v] # "blocking"
          /\ UNCHANGED <<queue, io>>
          /\ \A v \in Worker : v # w => wpc'[v] = wpc[v]
        BY <1>2 DEF FindEmpty, MutexFree, ioVars, QueueInv, HolderInv, TypeOK
    <2> QED
        BY <2>1, EmptyIsCovered DEF QueueInv, MutexInv, LimitInv, QueueWithinLimit
<1>3. CASE Block(w)
    <2>1. /\ queue = {} /\ UNCHANGED <<queue, io>> /\ wpc'[w] = "waiting"
          /\ \A v \in Worker : v # w => wpc'[v] = wpc[v]
        BY <1>3 DEF Block, ioVars, QueueInv, MutexInv, HolderInv, TypeOK
    <2> QED
        BY <2>1, EmptyIsCovered, MutexKept
<1>4. CASE Top(w) \/ SpuriousWakeup(w) \/ Handle(w) \/ HandlerThrows(w)
           \/ SendReply(w) \/ CloseSocket(w)
    <2>1. UNCHANGED <<queue, io>>
        BY <1>4 DEF Top, SpuriousWakeup, Handle, HandlerThrows, SendReply, CloseSocket,
                    ioVars
    <2>2. /\ \/ wpc' = wpc
             \/ wpc[w] # "lock" /\ wpc'[w] \notin {"blocking", "waiting"}
          /\ \A v \in Worker : v # w => wpc'[v] = wpc[v]
        BY <1>4 DEF Top, SpuriousWakeup, Handle, HandlerThrows, SendReply, CloseSocket,
                    workVars, QueueInv, HolderInv, TypeOK
    <2> QED
        BY <2>1, <2>2, QueueKept
<1> QED
    BY <1>1, <1>2, <1>3, <1>4 DEF WorkerThread

\* notify_all leaves nobody asleep.
LEMMA StopQueue ==
    ASSUME QueueInv, Stop
    PROVE  MutexInv' /\ LimitInv' /\ NoIdleWorkerBesideWork'
<1>1. UNCHANGED <<queue, io>>
    BY DEF Stop, StopRunning, StopNotify, StopJoin, ioVars
<1>2. \A w \in Worker : /\ wpc'[w] \in {"blocking", "waiting"} => wpc'[w] = wpc[w]
                        /\ wpc[w] = "lock" => wpc'[w] = "lock"
    BY DEF Stop, StopRunning, StopNotify, StopJoin, workVars
<1> QED
    BY <1>1, <1>2, QueueKept

\* Every step keeps the invariant.
LEMMA NextQueue == QueueInv /\ [Next]_vars => QueueInv'
<1> SUFFICES ASSUME QueueInv, [Next]_vars PROVE QueueInv'
    OBVIOUS
<1> DEFINE Kept == MutexInv' /\ LimitInv' /\ NoIdleWorkerBesideWork'
<1>1. HolderInv'
    BY NextHolder DEF QueueInv
<1>2. ASSUME Client \/ UNCHANGED vars PROVE Kept
    <2>1. UNCHANGED <<queue, io, wpc>>
        BY <1>2 DEF Client, ClientConnect, ClientSend, ClientHangUp, vars, ioVars, workVars
    <2> QED
        BY <2>1, QueueKept
<1>3. Kept
    BY <1>2, IoQueue, WorkerQueue, StopQueue DEF Next, Serve
<1> QED
    BY <1>1, <1>3 DEF QueueInv

\* The queue is empty and all workers are awake when the service starts.
LEMMA InitQueue == Init => QueueInv
<1> SUFFICES ASSUME Init PROVE QueueInv
    OBVIOUS
<1>1. queue = {} /\ io = "loop" /\ \A w \in Worker : wpc[w] = "top"
    BY DEF Init
<1> QED
    BY <1>1, InitHolder, FS_EmptySet
       DEF QueueInv, MutexInv, LimitInv, QueueWithinLimit, NoIdleWorkerBesideWork

-----------------------------------------------------------------------------
\* QueueInv is an invariant.
LEMMA QueueInvariant == Spec => []QueueInv
BY InitQueue, NextQueue, PTL DEF Spec

\* The queue never holds more than maxTaskQueueSize_ tasks, although
\* handleClientData reads its size, may sleep, and pushes afterwards.
THEOREM QueueIsBounded == Spec => []QueueWithinLimit
<1>1. QueueInv => QueueWithinLimit
    BY DEF QueueInv, LimitInv
<1> QED
    BY <1>1, QueueInvariant, PTL

\* No wake-up of queueCond_ is lost: while a worker sleeps, each queued task has
\* a worker of its own that is awake and asks for the mutex.
THEOREM WakeUpsAreNotLost == Spec => []NoIdleWorkerBesideWork
<1>1. QueueInv => NoIdleWorkerBesideWork
    BY DEF QueueInv
<1> QED
    BY <1>1, QueueInvariant, PTL
=============================================================================
