----------------------- MODULE SyncServiceRefinement ------------------------
(***************************************************************************)
(* SyncService implements RequestReply: proof, for every set of clients,   *)
(* descriptors and workers.                                                *)
(***************************************************************************)
EXTENDS SyncServiceProofs

\* A descriptor that is not closed designates an open connection, which no other
\* one designates.
SocketsAreOpen ==
    /\ \A f \in Open : phase[sock[f]] = "open"
    /\ \A f, g \in Open : sock[f] = sock[g] => f = g

Started(c) == runs[c] > 0 \/ replies[c] # <<>>

AtReply == {"send", "close"}

\* What was run or answered is closed, or with a worker that has got that far.
StartedIsAnswered ==
    \A c \in Conn : Started(c) =>
        \/ phase[c] = "closed"
        \/ \E w \in Worker : wpc[w] \in AtReply /\ wtask[w].request = c

\* A worker that is to answer answers first, and says what happened.
ReadyToSend ==
    \A w \in Worker : wpc[w] = "send" =>
        /\ replies[wtask[w].request] = <<>>
        /\ wcode[w] = 0 => runs[wtask[w].request] = 1
        /\ wcode[w] = 1 => wtask[w].request \notin Known

Promising == SocketsAreOpen /\ StartedIsAnswered /\ ReadyToSend

PromiseInv == HolderInv /\ Promising

-----------------------------------------------------------------------------
\* The task of a worker that has one, and the request being pushed, are those of
\* an open connection.
LEMMA TaskFacts ==
    ASSUME PromiseInv, NEW t \in {cur} \cup {wtask[w] : w \in Worker}, t # NoTask
    PROVE  /\ t.socket \in Open /\ sock[t.socket] = t.request
           /\ t.request \in Conn /\ phase[t.request] = "open"
<1>1. sock[t.socket] = t.request
    BY DEF PromiseInv, HolderInv, TaskOnItsOwnSocket
<1>2. t \in Task
    BY DEF PromiseInv, HolderInv, TypeOK
<1>3. t.request \in Conn /\ t.socket \in Fd
    BY <1>2, NoTaskFacts
<1>4. t.socket \in Open
    BY <1>1, <1>3, ConnAssumption DEF Open
<1> QED
    BY <1>1, <1>3, <1>4 DEF PromiseInv, Promising, SocketsAreOpen

\* A worker's request is no other worker's, and not the one being pushed.
LEMMA OneTask ==
    ASSUME PromiseInv, NEW w \in Worker, wtask[w] # NoTask
    PROVE  /\ \A v \in Worker : wtask[v] # NoTask /\ wtask[v].request = wtask[w].request
                                 => v = w
           /\ cur # NoTask => cur.request # wtask[w].request
<1> USE DEF PromiseInv
<1>1. \A t, u \in {cur} \cup {wtask[v] : v \in Worker} :
          t # NoTask /\ u # NoTask /\ t.request = u.request => t.socket = u.socket
    BY TaskFacts DEF Promising, SocketsAreOpen
<1>2. \A v \in Worker : wtask[v] # NoTask /\ wtask[v].socket = wtask[w].socket => v = w
    BY DEF HolderInv, OneHolder
<1>3. cur # NoTask => cur.socket # wtask[w].socket
    BY HolderFacts DEF HolderInv, OneHolder
<1> QED
    BY <1>1, <1>2, <1>3

\* Nothing was run or written yet for the request that is being pushed, nor for
\* one that a worker is about to run.
LEMMA NotStarted ==
    ASSUME PromiseInv
    PROVE  /\ cur # NoTask =>
                 runs[cur.request] = 0 /\ replies[cur.request] = <<>>
           /\ \A w \in Worker : wpc[w] = "run" =>
                 runs[wtask[w].request] = 0 /\ replies[wtask[w].request] = <<>>
<1> USE DEF PromiseInv
<1>1. \A v \in Worker : wpc[v] \in AtReply => wtask[v] # NoTask
    BY DEF HolderInv, Holding, AtReply
<1>2. ASSUME NEW c \in Conn, ~Started(c)
      PROVE  runs[c] = 0 /\ replies[c] = <<>>
    BY <1>2 DEF Started, HolderInv, TypeOK
<1>3. ASSUME cur # NoTask
      PROVE  runs[cur.request] = 0 /\ replies[cur.request] = <<>>
    <2>1. cur.request \in Conn /\ phase[cur.request] = "open"
        BY <1>3, TaskFacts
    <2>2. ~Started(cur.request)
        BY <1>1, <1>3, <2>1, OneTask DEF Promising, StartedIsAnswered
    <2> QED
        BY <1>2, <2>1, <2>2
<1>4. ASSUME NEW w \in Worker, wpc[w] = "run"
      PROVE  runs[wtask[w].request] = 0 /\ replies[wtask[w].request] = <<>>
    <2>1. wtask[w] # NoTask
        BY <1>4 DEF HolderInv, Holding
    <2>2. wtask[w].request \in Conn /\ phase[wtask[w].request] = "open"
        BY <2>1, TaskFacts
    <2>3. \A v \in Worker : wpc[v] \in AtReply => v # w
        BY <1>4 DEF AtReply
    <2>4. ~Started(wtask[w].request)
        BY <1>1, <2>1, <2>2, <2>3, OneTask DEF Promising, StartedIsAnswered
    <2> QED
        BY <1>2, <2>2, <2>4
<1> QED
    BY <1>3, <1>4

-----------------------------------------------------------------------------
(* What a step may do to a connection, and that the promise allows it.     *)

Stutter == UNCHANGED Promise!vars

\* A step that no client sees.
LEMMA UnseenStep ==
    ASSUME PromiseInv, UNCHANGED <<phase, sock, runs, replies>>,
           \A w \in Worker : wpc[w] \in AtReply \/ wpc'[w] \in AtReply =>
               wpc'[w] = wpc[w] /\ wtask'[w] = wtask[w] /\ wcode'[w] = wcode[w]
    PROVE  Promising' /\ Stutter
<1>1. SocketsAreOpen'
    BY DEF PromiseInv, Promising, SocketsAreOpen, Open
<1>2. StartedIsAnswered'
    BY DEF PromiseInv, Promising, StartedIsAnswered, Started
<1>3. ReadyToSend'
    BY DEF PromiseInv, Promising, ReadyToSend, AtReply
<1>4. Stutter
    BY DEF Stutter, Promise!vars, Seen
<1> QED
    BY <1>1, <1>2, <1>3, <1>4 DEF Promising

\* A step that changes the phase of one connection, as its client sees it.
LEMMA SeenStep ==
    ASSUME TypeOK, NEW c \in Conn, NEW p \in {"backlog", "open", "closed"},
           phase' = [phase EXCEPT ![c] = p]
    PROVE  /\ Seen[c] = IF phase[c] = "backlog" THEN "open" ELSE phase[c]
           /\ p = "backlog" => Seen' = [Seen EXCEPT ![c] = "open"]
           /\ p # "backlog" => Seen' = [Seen EXCEPT ![c] = p]
<1>1. \A x \in Conn : x # c => phase'[x] = phase[x]
    BY DEF TypeOK
<1>2. phase'[c] = p
    BY DEF TypeOK
<1> QED
    BY <1>1, <1>2 DEF Seen

\* A client that connects is seen as open at once; nothing else changes for it.
LEMMA ConnectStep ==
    ASSUME PromiseInv, NEW c \in Conn, ClientConnect(c)
    PROVE  Promising' /\ Promise!Connect(c)
<1>1. phase[c] = "new" /\ phase' = [phase EXCEPT ![c] = "backlog"]
      /\ UNCHANGED <<sock, wpc, wtask, wcode, runs, replies>>
    BY DEF ClientConnect, ioVars, workVars, history
<1>2. SocketsAreOpen'
    BY <1>1, OpenFacts DEF PromiseInv, HolderInv, TypeOK, Promising, SocketsAreOpen, Open
<1>3. StartedIsAnswered'
    BY <1>1 DEF PromiseInv, HolderInv, TypeOK, Promising, StartedIsAnswered, Started
<1>4. ReadyToSend'
    BY <1>1 DEF PromiseInv, Promising, ReadyToSend
<1>5. Promise!Connect(c)
    BY <1>1, SeenStep DEF Promise!Connect, PromiseInv, HolderInv
<1> QED
    BY <1>2, <1>3, <1>4, <1>5 DEF Promising

\* accept gives the connection a descriptor that no other one has; its client
\* sees no difference.
LEMMA AcceptStep ==
    ASSUME PromiseInv, NEW c \in Conn, NEW f \in Fd, Accept(c, f)
    PROVE  Promising' /\ Stutter
<1>1. /\ phase[c] = "backlog" /\ phase' = [phase EXCEPT ![c] = "open"]
      /\ sock[f] = NoConn /\ sock' = [sock EXCEPT ![f] = c]
      /\ UNCHANGED <<wpc, wtask, wcode, runs, replies>>
    BY DEF Accept, workVars, history
<1>2. \A g \in Open : sock[g] # c
    BY <1>1 DEF PromiseInv, Promising, SocketsAreOpen
<1>3. Open' = Open \cup {f} /\ f \notin Open
    BY <1>1, ConnAssumption DEF Open, PromiseInv, HolderInv, TypeOK
<1>4. sock'[f] = c /\ \A g \in Open : sock'[g] = sock[g] /\ sock[g] \in Conn
    BY <1>1, <1>3, OpenFacts DEF PromiseInv, HolderInv, TypeOK, Open
<1>5. SocketsAreOpen'
    BY <1>1, <1>2, <1>3, <1>4 DEF PromiseInv, HolderInv, TypeOK, Promising, SocketsAreOpen
<1>6. StartedIsAnswered'
    BY <1>1 DEF PromiseInv, HolderInv, TypeOK, Promising, StartedIsAnswered, Started
<1>7. ReadyToSend'
    BY <1>1 DEF PromiseInv, Promising, ReadyToSend
<1>8. Stutter
    <2>1. \A x \in Conn : x # c => phase'[x] = phase[x]
        BY <1>1 DEF PromiseInv, HolderInv, TypeOK
    <2>2. phase'[c] = "open"
        BY <1>1 DEF PromiseInv, HolderInv, TypeOK
    <2> QED
        BY <1>1, <2>1, <2>2 DEF Stutter, Promise!vars, Seen
<1> QED
    BY <1>5, <1>6, <1>7, <1>8 DEF Promising

\* The connection is closed before it has a descriptor.
LEMMA AddFailsStep ==
    ASSUME PromiseInv, NEW c \in Conn, EpollAddFails(c)
    PROVE  Promising' /\ Promise!Close(c)
<1>1. /\ phase[c] = "backlog" /\ phase' = [phase EXCEPT ![c] = "closed"]
      /\ UNCHANGED <<sock, wpc, wtask, wcode, runs, replies>>
    BY DEF EpollAddFails, workVars, history
<1>2. SocketsAreOpen'
    BY <1>1, OpenFacts DEF PromiseInv, HolderInv, TypeOK, Promising, SocketsAreOpen, Open
<1>3. StartedIsAnswered'
    BY <1>1 DEF PromiseInv, HolderInv, TypeOK, Promising, StartedIsAnswered, Started
<1>4. ReadyToSend'
    BY <1>1 DEF PromiseInv, Promising, ReadyToSend
<1>5. Promise!Close(c)
    BY <1>1, SeenStep DEF Promise!Close, PromiseInv, HolderInv
<1> QED
    BY <1>2, <1>3, <1>4, <1>5 DEF Promising

\* The connection of a descriptor that is closed was open and is closed; the other
\* descriptors keep theirs.
LEMMA CloseStep ==
    ASSUME PromiseInv, NEW f \in Open, CloseFd(f)
    PROVE  /\ SocketsAreOpen'
           /\ sock[f] \in Conn /\ phase[sock[f]] = "open"
           /\ phase' = [phase EXCEPT ![sock[f]] = "closed"]
<1>1. sock[f] \in Conn /\ phase[sock[f]] = "open"
    BY OpenFacts DEF PromiseInv, HolderInv, Promising, SocketsAreOpen
<1>2. phase' = [phase EXCEPT ![sock[f]] = "closed"]
    BY DEF CloseFd
<1>3. Open' = Open \ {f} /\ \A g \in Open : g # f => sock'[g] = sock[g]
    BY CloseFdFacts, OpenFacts DEF PromiseInv, HolderInv
<1>4. \A g \in Open : g # f => sock[g] # sock[f] /\ sock[g] \in Conn
    BY OpenFacts DEF PromiseInv, HolderInv, Promising, SocketsAreOpen
<1>5. SocketsAreOpen'
    <2>1. \A g \in Open : phase[sock[g]] = "open"
              /\ \A h \in Open : sock[g] = sock[h] => g = h
        BY DEF PromiseInv, Promising, SocketsAreOpen
    <2>2. \A x \in Conn : x # sock[f] => phase'[x] = phase[x]
        BY <1>2 DEF PromiseInv, HolderInv, TypeOK
    <2> QED
        BY <1>3, <1>4, <2>1, <2>2 DEF SocketsAreOpen
<1> QED
    BY <1>1, <1>2, <1>5

\* The read of a client that hung up closes its connection, and nothing was run
\* or answered for it that is not with a worker.
LEMMA ReadFailsStep ==
    ASSUME PromiseInv, NEW f \in Fd, ReadFails(f)
    PROVE  Promising' /\ Promise!Close(sock[f])
<1>1. f \in Open /\ CloseFd(f) /\ UNCHANGED <<wpc, wtask, wcode, runs, replies>>
    BY DEF ReadFails, workVars, history, PromiseInv, HolderInv, OneHolder
<1>2. /\ SocketsAreOpen' /\ sock[f] \in Conn /\ phase[sock[f]] = "open"
      /\ phase' = [phase EXCEPT ![sock[f]] = "closed"]
    BY <1>1, CloseStep
<1>3. StartedIsAnswered'
    BY <1>1, <1>2 DEF PromiseInv, HolderInv, TypeOK, Promising, StartedIsAnswered, Started
<1>4. ReadyToSend'
    BY <1>1 DEF PromiseInv, Promising, ReadyToSend
<1>5. Promise!Close(sock[f])
    BY <1>1, <1>2, SeenStep DEF Promise!Close, PromiseInv, HolderInv
<1> QED
    BY <1>2, <1>3, <1>4, <1>5 DEF Promising

\* The refusal: 503 and the close in one step, for a request that never ran.
LEMMA RejectStep ==
    ASSUME PromiseInv, Reject
    PROVE  Promising' /\ Promise!Refuse(cur.request)
<1> DEFINE c == cur.request
<1>1. cur # NoTask
    BY DEF Reject, PromiseInv, HolderInv, Holding
<1>2. /\ cur.socket \in Open /\ sock[cur.socket] = c /\ c \in Conn
      /\ runs[c] = 0 /\ replies[c] = <<>>
    BY <1>1, TaskFacts, NotStarted
<1>3. /\ CloseFd(cur.socket) /\ UNCHANGED <<wpc, wtask, wcode, runs>>
      /\ replies' = [replies EXCEPT ![c] = <<Answer(c, 503)>>]
    BY <1>2 DEF Reject, SendTo, workVars
<1>4. /\ SocketsAreOpen' /\ phase[c] = "open"
      /\ phase' = [phase EXCEPT ![c] = "closed"]
    BY <1>2, <1>3, CloseStep
<1>5. \A w \in Worker : wpc[w] = "send" => wtask[w] # NoTask /\ wtask[w].request # c
    BY <1>1, OneTask DEF PromiseInv, HolderInv, Holding
<1> HIDE DEF c
<1>6. StartedIsAnswered'
    BY <1>2, <1>3, <1>4 DEF PromiseInv, HolderInv, TypeOK, Promising, StartedIsAnswered, Started
<1>7. ReadyToSend'
    BY <1>2, <1>3, <1>5 DEF PromiseInv, HolderInv, TypeOK, Promising, ReadyToSend
<1>8. Promise!Refuse(c)
    BY <1>2, <1>3, <1>4, SeenStep
       DEF Promise!Refuse, Promise!Answer, Answer, PromiseInv, HolderInv
<1> QED
    BY <1>4, <1>6, <1>7, <1>8 DEF Promising, c

\* The handler runs once: nothing was run for the request before.
LEMMA HandleStep ==
    ASSUME PromiseInv, NEW w \in Worker, Handle(w)
    PROVE  Promising' /\ (Stutter \/ Promise!Execute(wtask[w].request))
<1> DEFINE c == wtask[w].request
<1>1. wtask[w] # NoTask /\ wpc[w] = "run"
    BY DEF Handle, PromiseInv, HolderInv, Holding
<1>2. /\ c \in Conn /\ phase[c] = "open"
      /\ runs[c] = 0 /\ replies[c] = <<>>
    BY <1>1, TaskFacts, NotStarted
<1>3. /\ UNCHANGED <<phase, sock, wtask, replies>>
      /\ wpc' = [wpc EXCEPT ![w] = "send"]
      /\ runs' = IF c \in Known THEN [runs EXCEPT ![c] = 1] ELSE runs
      /\ wcode'[w] = 0 => c \in Known
      /\ wcode'[w] = 1 => c \notin Known
      /\ \A v \in Worker : v # w => wcode'[v] = wcode[v]
    BY <1>2 DEF Handle, clientVars, ioVars, PromiseInv, HolderInv, TypeOK
<1>4. \A v \in Worker : wpc[v] = "send" => wtask[v] # NoTask /\ wtask[v].request # c
    BY <1>1, OneTask DEF PromiseInv, HolderInv, Holding
<1> HIDE DEF c
<1>5. SocketsAreOpen'
    BY <1>3 DEF PromiseInv, Promising, SocketsAreOpen, Open
<1>6. /\ wpc'[w] = "send" /\ \A v \in Worker : v # w => wpc'[v] = wpc[v]
      /\ \A x \in Conn : x # c => runs'[x] = runs[x]
      /\ c \in Known => runs'[c] = 1
    BY <1>2, <1>3 DEF PromiseInv, HolderInv, TypeOK
<1>7. StartedIsAnswered'
    <2> SUFFICES ASSUME NEW x \in Conn, Started(x)'
                 PROVE  (\/ phase[x] = "closed"
                         \/ \E v \in Worker : wpc[v] \in AtReply /\ wtask[v].request = x)'
        BY DEF StartedIsAnswered
    <2>1. CASE x = c
        BY <1>6, <1>3, <2>1 DEF AtReply, c
    <2>2. CASE x # c
        <3>1. Started(x)
            BY <1>3, <1>6, <2>2 DEF Started
        <3>2. \/ phase[x] = "closed"
              \/ \E v \in Worker : wpc[v] \in AtReply /\ wtask[v].request = x
            BY <3>1 DEF PromiseInv, Promising, StartedIsAnswered
        <3>3. wpc[w] \notin AtReply
            BY <1>1 DEF AtReply
        <3> QED
            BY <1>3, <1>6, <3>2, <3>3
    <2> QED
        BY <2>1, <2>2
<1>8. ReadyToSend'
    <2> SUFFICES ASSUME NEW v \in Worker, wpc'[v] = "send"
                 PROVE  /\ replies[wtask[v].request] = <<>>
                        /\ wcode'[v] = 0 => runs'[wtask[v].request] = 1
                        /\ wcode'[v] = 1 => wtask[v].request \notin Known
        BY <1>3 DEF ReadyToSend, Known
    <2>1. CASE v = w
        BY <1>2, <1>3, <1>6, <2>1 DEF c
    <2>2. CASE v # w
        <3>1. wpc[v] = "send" /\ wtask[v].request # c /\ wtask[v].request \in Conn
            BY <1>4, <1>6, <2>2, TaskFacts
        <3> QED
            BY <1>3, <1>6, <2>2, <3>1 DEF PromiseInv, Promising, ReadyToSend
    <2> QED
        BY <2>1, <2>2
<1>9. CASE c \in Known
    <2>1. Seen[c] = "open"
        BY <1>2 DEF Seen
    <2>2. Promise!Execute(c)
        BY <1>2, <1>3, <1>9, <2>1 DEF Promise!Execute, Seen
    <2> QED
        BY <1>5, <1>7, <1>8, <2>2 DEF Promising, c
<1>10. CASE c \notin Known
    BY <1>3, <1>5, <1>7, <1>8, <1>10 DEF Promising, Stutter, Promise!vars, Seen
<1> QED
    BY <1>9, <1>10

\* The worker writes the only reply, on the connection that asked, and says what
\* the handler did.
LEMMA SendStep ==
    ASSUME PromiseInv, NEW w \in Worker, SendReply(w)
    PROVE  Promising' /\ Promise!Reply(wtask[w].request)
<1> DEFINE c == wtask[w].request
<1>1. wtask[w] # NoTask /\ wpc[w] = "send"
    BY DEF SendReply, PromiseInv, HolderInv, Holding
<1>2. c \in Conn /\ phase[c] = "open" /\ sock[wtask[w].socket] = c
    BY <1>1, TaskFacts
<1>3. /\ replies[c] = <<>> /\ wcode[w] \in {0, 1, 504}
      /\ wcode[w] = 0 => runs[c] = 1
      /\ wcode[w] = 1 => c \notin Known
    BY <1>1 DEF PromiseInv, Promising, ReadyToSend, HolderInv, TypeOK
<1>4. /\ UNCHANGED <<phase, sock, wtask, wcode, runs>>
      /\ wpc' = [wpc EXCEPT ![w] = "close"]
      /\ replies' = [replies EXCEPT ![c] = <<Answer(c, wcode[w])>>]
    BY <1>2, <1>3 DEF SendReply, SendTo, clientVars, ioVars
<1>5. \A v \in Worker : wpc[v] = "send" /\ v # w =>
          wtask[v] # NoTask /\ wtask[v].request # c
    BY <1>1, OneTask DEF PromiseInv, HolderInv, Holding
<1> HIDE DEF c
<1>6. SocketsAreOpen'
    BY <1>4 DEF PromiseInv, Promising, SocketsAreOpen, Open
<1>7. /\ wpc'[w] = "close" /\ \A v \in Worker : v # w => wpc'[v] = wpc[v]
      /\ \A x \in Conn : x # c => replies'[x] = replies[x]
    BY <1>2, <1>4 DEF PromiseInv, HolderInv, TypeOK
<1>8. StartedIsAnswered'
    <2> SUFFICES ASSUME NEW x \in Conn, Started(x)'
                 PROVE  (\/ phase[x] = "closed"
                         \/ \E v \in Worker : wpc[v] \in AtReply /\ wtask[v].request = x)'
        BY DEF StartedIsAnswered
    <2>1. CASE x = c
        BY <1>4, <1>7, <2>1 DEF AtReply, c
    <2>2. CASE x # c
        <3>1. Started(x)
            BY <1>4, <1>7, <2>2 DEF Started
        <3>2. \/ phase[x] = "closed"
              \/ \E v \in Worker : wpc[v] \in AtReply /\ wtask[v].request = x
            BY <3>1 DEF PromiseInv, Promising, StartedIsAnswered
        <3> QED
            BY <1>4, <1>7, <2>2, <3>2 DEF c
    <2> QED
        BY <2>1, <2>2
<1>9. ReadyToSend'
    <2> SUFFICES ASSUME NEW v \in Worker, wpc'[v] = "send"
                 PROVE  /\ replies'[wtask[v].request] = <<>>
                        /\ wcode[v] = 0 => runs[wtask[v].request] = 1
                        /\ wcode[v] = 1 => wtask[v].request \notin Known
        BY <1>4 DEF ReadyToSend, Known
    <2>1. wpc[v] = "send" /\ v # w
        BY <1>7
    <2>2. wtask[v].request # c /\ wtask[v].request \in Conn
        BY <1>5, <2>1, TaskFacts
    <2> QED
        BY <1>7, <2>1, <2>2 DEF PromiseInv, Promising, ReadyToSend
<1>10. Promise!Reply(c)
    <2>1. Seen[c] = "open" /\ Seen' = Seen
        BY <1>2, <1>4 DEF Seen
    <2> DEFINE Written(code) ==
                   /\ code = 0 => runs[c] = 1
                   /\ code = 1 => c \notin Known
                   /\ replies' = [replies EXCEPT ![c] = <<Promise!Answer(c, code)>>]
    <2>2. Written(wcode[w])
        BY <1>3, <1>4 DEF Promise!Answer, Answer
    <2>3. (\E code \in {0, 1, 504} : Written(code)) /\ UNCHANGED runs
          => Promise!Reply(c)
        BY <1>3, <2>1 DEF Promise!Reply
    <2> HIDE DEF Written
    <2>4. \E code \in {0, 1, 504} : Written(code)
        BY <1>3, <2>2
    <2> QED
        BY <1>4, <2>3, <2>4
<1> QED
    BY <1>6, <1>8, <1>9, <1>10 DEF Promising, c

\* The worker closes the connection it has answered.
LEMMA CloseSocketStep ==
    ASSUME PromiseInv, NEW w \in Worker, CloseSocket(w)
    PROVE  Promising' /\ Promise!Close(wtask[w].request)
<1> DEFINE c == wtask[w].request
<1>1. wtask[w] # NoTask
    BY DEF CloseSocket, PromiseInv, HolderInv, Holding
<1>2. wtask[w].socket \in Open /\ sock[wtask[w].socket] = c
    BY <1>1, TaskFacts
<1>3. /\ SocketsAreOpen' /\ c \in Conn /\ phase[c] = "open"
      /\ phase' = [phase EXCEPT ![c] = "closed"]
    BY <1>2, CloseStep DEF CloseSocket
<1>4. /\ UNCHANGED <<runs, replies>>
      /\ wpc'[w] = "top"
      /\ \A v \in Worker : v # w => /\ wpc'[v] = wpc[v] /\ wtask'[v] = wtask[v]
                                     /\ wcode'[v] = wcode[v]
    BY DEF CloseSocket, history, PromiseInv, HolderInv, TypeOK
<1> HIDE DEF c
<1>5. phase'[c] = "closed" /\ \A x \in Conn : x # c => phase'[x] = phase[x]
    BY <1>3 DEF PromiseInv, HolderInv, TypeOK
<1>6. StartedIsAnswered'
    <2> SUFFICES ASSUME NEW x \in Conn, x # c, Started(x)'
                 PROVE  (\/ phase[x] = "closed"
                         \/ \E v \in Worker : wpc[v] \in AtReply /\ wtask[v].request = x)'
        BY <1>5 DEF StartedIsAnswered
    <2>1. Started(x)
        BY <1>4 DEF Started
    <2>2. \/ phase[x] = "closed"
          \/ \E v \in Worker : wpc[v] \in AtReply /\ wtask[v].request = x
        BY <2>1 DEF PromiseInv, Promising, StartedIsAnswered
    <2> QED
        BY <1>4, <1>5, <2>2 DEF c
<1>7. ReadyToSend'
    BY <1>4 DEF PromiseInv, Promising, ReadyToSend
<1>8. Promise!Close(c)
    BY <1>3, <1>4, SeenStep DEF Promise!Close, PromiseInv, HolderInv
<1> QED
    BY <1>3, <1>6, <1>7, <1>8 DEF Promising, c

-----------------------------------------------------------------------------
(* Every step keeps the invariant and is a step of the promise or none.    *)

Kept == Promising' /\ [Promise!Next]_(Promise!vars)

\* A step that no client sees keeps the promise.
LEMMA KeptByUnseen ==
    ASSUME Promising' /\ Stutter
    PROVE  Kept
BY DEF Kept, Stutter

\* A step the promise allows keeps it.
LEMMA KeptByPromise ==
    ASSUME Promising', NEW c \in Conn,
           \/ Promise!Connect(c) \/ Promise!Execute(c) \/ Promise!Reply(c)
           \/ Promise!Refuse(c) \/ Promise!Close(c)
    PROVE  Kept
BY DEF Kept, Promise!Next

\* Each action of the clients keeps the promise.
LEMMA ClientKept == PromiseInv /\ Client => Kept
<1>1. ASSUME PromiseInv, NEW c \in Conn, ClientConnect(c)
      PROVE  Kept
    BY <1>1, ConnectStep, KeptByPromise
<1>2. ASSUME PromiseInv, NEW c \in Conn, ClientSend(c) \/ ClientHangUp(c)
      PROVE  Kept
    BY <1>2, UnseenStep, KeptByUnseen DEF ClientSend, ClientHangUp, ioVars, workVars, history
<1> QED
    BY <1>1, <1>2 DEF Client

\* Each action of the thread in processEpollEvents keeps the promise.
LEMMA IoKept == PromiseInv /\ IoThread => Kept
<1> SUFFICES ASSUME PromiseInv, IoThread PROVE Kept
    OBVIOUS
<1>1. CASE TestRunning \/ EpollWait \/ EpollTimeout \/ AcceptFails \/ Backpressure
    BY <1>1, UnseenStep, KeptByUnseen
       DEF TestRunning, EpollWait, EpollTimeout, AcceptFails, Backpressure,
           clientVars, workVars, history
<1>2. ASSUME NEW c \in Conn, NEW f \in Fd, Accept(c, f)
      PROVE  Kept
    BY <1>2, AcceptStep, KeptByUnseen
<1>3. ASSUME NEW c \in Conn, EpollAddFails(c)
      PROVE  Kept
    BY <1>3, AddFailsStep, KeptByPromise
<1>4. ASSUME NEW f \in Fd, ReadFails(f)
      PROVE  Kept
    <2>1. sock[f] \in Conn
        BY <1>4 DEF ReadFails, PromiseInv, HolderInv, TypeOK
    <2> QED
        BY <1>4, <2>1, ReadFailsStep, KeptByPromise
<1>5. ASSUME NEW f \in Fd, ReadRequest(f)
      PROVE  Kept
    BY <1>5, UnseenStep, KeptByUnseen DEF ReadRequest, clientVars, workVars, history
<1>6. CASE Reject
    <2>1. cur # NoTask
        BY <1>6 DEF Reject, PromiseInv, HolderInv, Holding
    <2>2. cur.request \in Conn
        BY <2>1, TaskFacts
    <2> QED
        BY <1>6, <2>2, RejectStep, KeptByPromise
<1>7. CASE Push
    <2>1. \A w \in Worker : wpc[w] \in AtReply \/ wpc'[w] \in AtReply => wpc'[w] = wpc[w]
        BY <1>7 DEF Push, AtReply, PromiseInv, HolderInv, TypeOK
    <2> QED
        BY <1>7, <2>1, UnseenStep, KeptByUnseen DEF Push, clientVars, history
<1> QED
    BY <1>1, <1>2, <1>3, <1>4, <1>5, <1>6, <1>7 DEF IoThread

\* Each action of a worker keeps the promise.
LEMMA WorkerKept ==
    ASSUME PromiseInv, NEW w \in Worker, WorkerThread(w)
    PROVE  Kept
<1> USE DEF PromiseInv
<1>1. CASE Top(w) \/ Take(w) \/ FindEmpty(w) \/ Block(w) \/ SpuriousWakeup(w)
    <2>1. UNCHANGED <<phase, sock, runs, replies, wcode>>
        BY <1>1 DEF Top, Take, FindEmpty, Block, SpuriousWakeup, clientVars, ioVars, history
    <2>2. \A v \in Worker : v # w => wpc'[v] = wpc[v] /\ wtask'[v] = wtask[v]
        BY <1>1 DEF Top, Take, FindEmpty, Block, SpuriousWakeup, HolderInv, TypeOK
    <2>3. wpc[w] \notin AtReply /\ wpc'[w] \notin AtReply
        BY <1>1 DEF Top, Take, FindEmpty, Block, SpuriousWakeup, HolderInv, TypeOK, AtReply
    <2> QED
        BY <2>1, <2>2, <2>3, UnseenStep, KeptByUnseen
<1>2. CASE Handle(w) \/ SendReply(w) \/ CloseSocket(w)
    <2>1. wtask[w] # NoTask
        BY <1>2 DEF Handle, SendReply, CloseSocket, HolderInv, Holding
    <2>2. wtask[w].request \in Conn
        BY <2>1, TaskFacts
    <2> QED
        BY <1>2, <2>2, HandleStep, SendStep, CloseSocketStep, KeptByUnseen, KeptByPromise
<1>3. CASE HandlerThrows(w)
    BY <1>3, UnseenStep, KeptByUnseen DEF HandlerThrows, clientVars, ioVars, workVars, history
<1> QED
    BY <1>1, <1>2, <1>3 DEF WorkerThread

\* Each action of stop() keeps the promise.
LEMMA StopKept == PromiseInv /\ Stop => Kept
<1> SUFFICES ASSUME PromiseInv, Stop PROVE Kept
    OBVIOUS
<1>1. UNCHANGED <<phase, sock, runs, replies, wtask, wcode>>
    BY DEF Stop, StopRunning, StopNotify, StopJoin, clientVars, ioVars, workVars, history
<1>2. \A w \in Worker : wpc[w] \in AtReply \/ wpc'[w] \in AtReply => wpc'[w] = wpc[w]
    BY DEF Stop, StopRunning, StopNotify, StopJoin, workVars, AtReply
<1> QED
    BY <1>1, <1>2, UnseenStep, KeptByUnseen

\* Every step keeps the invariant and is a step of the promise, or a stutter.
LEMMA NextKept == PromiseInv /\ [Next]_vars => PromiseInv' /\ Kept
<1> SUFFICES ASSUME PromiseInv, [Next]_vars PROVE PromiseInv' /\ Kept
    OBVIOUS
<1>1. HolderInv'
    BY NextHolder DEF PromiseInv
<1>2. ASSUME Serve PROVE Kept
    BY <1>2, ClientKept, IoKept, WorkerKept DEF Serve
<1>3. ASSUME Stop PROVE Kept
    BY <1>3, StopKept
<1>4. ASSUME UNCHANGED vars PROVE Kept
    BY <1>4, UnseenStep, KeptByUnseen DEF vars, clientVars, ioVars, workVars, history
<1>5. Kept
    BY <1>2, <1>3, <1>4 DEF Next
<1> QED
    BY <1>1, <1>5 DEF PromiseInv, Kept

\* At the start nothing is open, run or answered.
LEMMA InitPromise == Init => PromiseInv /\ Promise!Init
<1> SUFFICES ASSUME Init PROVE PromiseInv /\ Promise!Init
    OBVIOUS
<1>1. HolderInv
    BY InitHolder
<1>2. SocketsAreOpen
    BY DEF Init, SocketsAreOpen, Open
<1>3. StartedIsAnswered /\ ReadyToSend
    BY DEF Init, StartedIsAnswered, Started, ReadyToSend
<1>4. Promise!Init
    BY DEF Init, Promise!Init, Seen
<1> QED
    BY <1>1, <1>2, <1>3, <1>4 DEF PromiseInv, Promising

\* Whatever the threads, the queue and the reuse of descriptor numbers do, each
\* client is served as RequestReply says: its request runs at most once, at most
\* one reply is written, on its own connection, and a refused request never runs.
THEOREM KeepsThePromise == Spec => PromiseKept
<1>1. PromiseInv /\ [Next]_vars => [Promise!Next]_(Promise!vars)
    BY NextKept DEF Kept
<1>2. Init => PromiseInv
    BY InitPromise
<1>3. PromiseInv /\ [Next]_vars => PromiseInv'
    BY NextKept
<1>4. Init => Promise!Init
    BY InitPromise
<1> QED
    BY <1>1, <1>2, <1>3, <1>4, PTL DEF Spec, PromiseKept, Promise!Spec

-----------------------------------------------------------------------------
(* stop() has drained the service when it returns.                         *)

\* stop() joins the workers before it returns, and none starts again.
Joined == stopper = "done" => \A w \in Worker : wpc[w] = "exit"

\* No step undoes the join: a worker that has left its loop does nothing, and a
\* notification wakes only those that wait.
LEMMA NextJoined == TypeOK /\ Joined /\ [Next]_vars => Joined'
<1> SUFFICES ASSUME TypeOK, Joined, [Next]_vars PROVE Joined'
    OBVIOUS
<1>1. ASSUME stopper' = "done", stopper = "done", NEW w \in Worker
      PROVE  wpc'[w] = "exit"
    <2>1. \A v \in Worker : wpc[v] = "exit"
        BY <1>1 DEF Joined
    <2>2. ASSUME NEW v \in Worker, WorkerThread(v)
          PROVE  FALSE
        BY <2>1, <2>2 DEF WorkerThread, Top, Take, FindEmpty, Block, SpuriousWakeup,
                          Handle, HandlerThrows, SendReply, CloseSocket
    <2>3. ASSUME Client PROVE wpc' = wpc
        BY <2>3 DEF Client, ClientConnect, ClientSend, ClientHangUp, workVars
    <2>4. ASSUME IoThread PROVE wpc' = wpc
        BY <2>1, <2>4 DEF IoThread, TestRunning, EpollWait, EpollTimeout, Accept,
                          AcceptFails, EpollAddFails, ReadFails, ReadRequest, Reject,
                          Backpressure, Push, workVars
    <2>5. ASSUME Stop PROVE FALSE
        BY <1>1, <2>5 DEF Stop, StopRunning, StopNotify, StopJoin
    <2>6. wpc' = wpc
        BY <2>2, <2>3, <2>4, <2>5 DEF Next, Serve, vars, workVars
    <2> QED
        BY <2>1, <2>6
<1>2. ASSUME stopper' = "done", stopper # "done", NEW w \in Worker
      PROVE  wpc'[w] = "exit"
    <2>1. StopJoin
        <3>1. ASSUME NEW v \in Worker, WorkerThread(v)
              PROVE  stopper' = stopper
            BY <3>1 DEF WorkerThread, Top, Take, FindEmpty, Block, SpuriousWakeup,
                        Handle, HandlerThrows, SendReply, CloseSocket
        <3>2. ASSUME Client PROVE stopper' = stopper
            BY <3>2 DEF Client, ClientConnect, ClientSend, ClientHangUp
        <3>3. ASSUME IoThread PROVE stopper' = stopper
            BY <3>3 DEF IoThread, TestRunning, EpollWait, EpollTimeout, Accept,
                        AcceptFails, EpollAddFails, ReadFails, ReadRequest, Reject,
                        Backpressure, Push
        <3> QED
            BY <1>2, <3>1, <3>2, <3>3
               DEF Next, Serve, Stop, StopRunning, StopNotify, vars
    <2> QED
        BY <2>1 DEF StopJoin, workVars
<1> QED
    BY <1>1, <1>2 DEF Joined

\* After stop() has returned no worker holds a request: what was run or answered
\* was closed (workerLoop to its end, and the joins of stop()).
THEOREM StopDrainsAll == Spec => []StopDrains
<1>1. Init => PromiseInv /\ Joined
    BY InitPromise DEF Init, Joined
<1>2. PromiseInv /\ Joined /\ [Next]_vars => PromiseInv' /\ Joined'
    BY NextKept, NextJoined DEF PromiseInv, HolderInv
<1>3. PromiseInv /\ Joined => StopDrains
    BY DEF PromiseInv, Promising, StartedIsAnswered, Started, AtReply, Joined,
           StopDrains
<1> QED
    BY <1>1, <1>2, <1>3, PTL DEF Spec
=============================================================================
