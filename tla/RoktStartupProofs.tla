------------------------- MODULE RoktStartupProofs --------------------------
(***************************************************************************)
(* Proofs about RoktStartup, for any number of servers, tables, texts,     *)
(* settings and restarts.                                                  *)
(***************************************************************************)
EXTENDS RoktStartup, TLAPS

\* The heads of texts that leave no byte of a key to memory, and their key.
LongHeads == {Head[s] : s \in {x \in Str : Size[x] >= 15}}
KeyOf(h) == <<<<h[1], NoRest>>, <<h[2], NoRest>>>>

\* The keys texts give.
RealKeys == LET Bytes == UNION {KeyBytes(s) : s \in Str} IN Bytes \X Bytes

Texts(c) == c.passphrase \in Str /\ c.iv \in Str
AtWork == {"list", "socket", "sync", "waiting", "serving"}

Inits == [at : {"open", "write"}, op : {"init"}, list : SUBSET Table]
Commands == [at : {"open", "write", "answer"}, op : {"create", "drop"}, table : Table,
             list : SUBSET Table]
Repairs == [at : {"open", "write"}, op : {"repair"}, table : Table, list : SUBSET Table,
            create : BOOLEAN]

\* What a server may be doing to a list: the first one while it comes up, one with the
\* table of a create or without the table of a drop when it answers.
JobTypes(p) ==
    \/ job[p] = NoJob /\ pc[p] # "list"
    \/ job[p] \in Inits /\ pc[p] = "list"
    \/ /\ job[p] \in Commands /\ Answers(p)
       /\ job[p].op = "create" <=> job[p].table \in job[p].list
    \/ job[p] \in Repairs /\ Answers(p)

\* What a server holds: texts from its start, the key of its texts from the services
\* to its end.
ServerTypes ==
    /\ pc \in [Process -> {"down", "file", "env", "services"} \cup AtWork]
    /\ DOMAIN config = Process /\ DOMAIN key = Process /\ DOMAIN job = Process
    /\ DOMAIN workers = Process
    /\ \A p \in Process :
        /\ pc[p] # "down" => Texts(config[p])
        /\ IF pc[p] \in AtWork THEN key[p] \in Keys(config[p]) ELSE key[p] = Nothing
        /\ JobTypes(p)

\* Lists and what was asked and answered belong to keys that texts give.
DataTypes ==
    /\ database = [k \in DOMAIN database |-> database[k]]
    /\ DOMAIN database \subseteq RealKeys /\ harmed \subseteq RealKeys
    /\ \A k \in DOMAIN database :
          database[k] \in {Blank, Broken} \cup {List(S) : S \in SUBSET Table}
    /\ asked \cup acked \subseteq RealKeys \X Table

\* Behind the services, and once it was opened, there is a list.
Listed(p) ==
    pc[p] \in AtWork \ {"list"} \/ job[p].at = "write" => key[p] \in DOMAIN database

StoredTypes == DataTypes /\ \A p \in Process : Listed(p)

\* A list with all that was acknowledged and nothing that was not asked for.
Agrees(k, S) ==
    /\ \A t \in Table : <<k, t>> \in acked => t \in S
    /\ \A t \in S : <<k, t>> \in asked

At(p, k) == key[p] = k /\ job[p] # NoJob

\* An unharmed list has one command at a time, which keeps what was acknowledged: in
\* the list, or in what it writes when the list is truncated.
Sound(k) ==
    /\ \A p, q \in Process : At(p, k) /\ At(q, k) => p = q
    /\ (\E t \in Table : <<k, t>> \in acked) => k \in DOMAIN database
    /\ \A p \in Process : At(p, k) =>
          /\ job[p].op # "repair" /\ Agrees(k, job[p].list)
          /\ job[p].at = "write" => database[k] = Blank
          /\ job[p].at = "answer" => database[k] = List(job[p].list)
    /\ k \in DOMAIN database =>
          \/ database[k] = Blank /\ \E p \in Process : At(p, k) /\ job[p].at = "write"
          \/ \E S \in SUBSET Table : database[k] = List(S) /\ Agrees(k, S)

UnharmedAreSound == \A k \in RealKeys \ harmed : Sound(k)

IInv == ServerTypes /\ StoredTypes /\ UnharmedAreSound

-----------------------------------------------------------------------------
\* The default texts, and what a file or the environment puts over them.
LEMMA DefaultTexts == Texts(Defaults)
<1>1. {"default_passphrase", "default_iv"} \subseteq Str
    BY TextAssumption
<1> QED
    BY <1>1 DEF Texts, Defaults

\* A file gives texts where it names them.
LEMMA FileTexts ==
    ASSUME NEW c, Texts(c), NEW j \in Json
    PROVE  Texts(Override(c, j))
<1>1. \A n \in DOMAIN j \ Limits : j[n] \in Str
    BY JsonAssumption
<1>2. "passphrase" \notin Limits /\ "iv" \notin Limits
    BY DEF Limits
<1> QED
    BY <1>1, <1>2 DEF Texts, Override, Setting

\* The environment names no text.
LEMMA LimitsTexts ==
    ASSUME NEW c, Texts(c), NEW e, DOMAIN e \subseteq Limits
    PROVE  Texts(Override(c, e))
BY DEF Texts, Override, Setting, Limits

\* The bytes a text gives: its head, and nothing from memory for a long one.
LEMMA BytesOfTexts ==
    ASSUME NEW s \in Str, NEW x \in KeyBytes(s)
    PROVE  /\ x \in {Head[u] : u \in Str} \X (Rest \cup {NoRest})
           /\ x[1] = Head[s]
           /\ Head[s] \in LongHeads => x = <<Head[s], NoRest>>
<1>1. Head[s] \in LongHeads => Size[s] >= 15
    BY KeyAssumption DEF LongHeads
<1>2. PICK y \in Rest \cup {NoRest} : x = <<Head[s], y>> /\ (Size[s] >= 15 => y = NoRest)
    BY DEF KeyBytes
<1> QED
    BY <1>1, <1>2

\* Every key that texts give is one, and the one of its heads where they are long.
LEMMA KeyFacts ==
    ASSUME NEW k \in RealKeys
    PROVE  /\ k \in AllKeys /\ k # Nothing
           /\ HeadsOf(k) \in LongHeads \X LongHeads => k = KeyOf(HeadsOf(k))
<1>1. PICK a \in UNION {KeyBytes(s) : s \in Str} :
         \E b \in UNION {KeyBytes(s) : s \in Str} : k = <<a, b>>
    BY DEF RealKeys
<1>2. PICK b \in UNION {KeyBytes(s) : s \in Str} : k = <<a, b>>
    BY <1>1
<1>3. PICK s \in Str : a \in KeyBytes(s)
    BY <1>1
<1>4. PICK t \in Str : b \in KeyBytes(t)
    BY <1>2
<1>5. /\ a \in {Head[u] : u \in Str} \X (Rest \cup {NoRest}) /\ a[1] = Head[s]
      /\ Head[s] \in LongHeads => a = <<Head[s], NoRest>>
    BY <1>3, BytesOfTexts
<1>6. /\ b \in {Head[u] : u \in Str} \X (Rest \cup {NoRest}) /\ b[1] = Head[t]
      /\ Head[t] \in LongHeads => b = <<Head[t], NoRest>>
    BY <1>4, BytesOfTexts
<1>7. k \in AllKeys
    BY <1>2, <1>5, <1>6 DEF AllKeys
<1>8. HeadsOf(k) = <<Head[s], Head[t]>>
    BY <1>2, <1>5, <1>6 DEF HeadsOf
<1>9. HeadsOf(k) \in LongHeads \X LongHeads => k = KeyOf(HeadsOf(k))
    BY <1>2, <1>5, <1>6, <1>8 DEF KeyOf
<1> QED
    BY <1>7, <1>9, KeyAssumption

\* Every key of a configuration is one that texts give, and has its heads.
LEMMA KeysOfTexts ==
    ASSUME NEW c, Texts(c), NEW k \in Keys(c)
    PROVE  k \in RealKeys /\ HeadsOf(k) = Heads(c)
<1>1. PICK a \in KeyBytes(c.passphrase) : \E b \in KeyBytes(c.iv) : k = <<a, b>>
    BY DEF Keys
<1>2. PICK b \in KeyBytes(c.iv) : k = <<a, b>>
    BY <1>1
<1>3. a[1] = Head[c.passphrase] /\ b[1] = Head[c.iv]
    BY <1>1, <1>2, BytesOfTexts DEF Texts
<1>4. k \in RealKeys
    BY <1>1, <1>2 DEF RealKeys, Texts
<1> QED
    BY <1>2, <1>3, <1>4 DEF Heads, HeadsOf

\* An environment gives numbers to limits.
LEMMA EnvironmentFacts ==
    ASSUME NEW e \in Environment
    PROVE  DOMAIN e \subseteq Limits /\ \A n \in DOMAIN e : e[n] \in Int
BY EnvironmentAssumption

\* What the environment gives are numbers, over the texts there were.
LEMMA EnvironmentTexts ==
    ASSUME ServerTypes, NEW p \in Process, loadFromEnv(p)
    PROVE  \E c : Texts(c) /\ config' = [config EXCEPT ![p] = c]
<1>1. PICK e \in Environment :
         LET accepted == {n \in DOMAIN e : Accepted(n, e[n])}
         IN config' = [config EXCEPT ![p] = Override(@, [n \in accepted |-> e[n]])]
    BY DEF loadFromEnv
<1> DEFINE s == [n \in {n \in DOMAIN e : Accepted(n, e[n])} |-> e[n]]
           c == Override(config[p], s)
<1>2. DOMAIN s \subseteq Limits
    <2>1. DOMAIN e \subseteq Limits
        BY <1>1, EnvironmentFacts
    <2> QED
        BY <2>1
<1>3. Texts(config[p])
    BY DEF loadFromEnv, ServerTypes
<1>4. Texts(c)
    <2> HIDE DEF s
    <2> QED
        BY <1>2, <1>3, LimitsTexts
<1>5. config' = [config EXCEPT ![p] = c]
    BY <1>1
<1> HIDE DEF c
<1> QED
    BY <1>4, <1>5

-----------------------------------------------------------------------------
\* Nothing runs, nothing is stored and nothing was asked for at first.
LEMMA InitIInv == Init => IInv
<1> SUFFICES ASSUME Init
             PROVE  IInv
    OBVIOUS
<1>1. ServerTypes
    BY DEF Init, ServerTypes, JobTypes, AtWork
<1>2. StoredTypes
    BY DEF Init, StoredTypes, DataTypes, Listed, AtWork, NoJob
<1>3. UnharmedAreSound
    BY DEF Init, UnharmedAreSound, Sound, At
<1> QED
    BY <1>1, <1>2, <1>3 DEF IInv

-----------------------------------------------------------------------------
(* The servers.                                                            *)

\* Where only server p moves, the others stay what they are.
LEMMA OneMoves ==
    ASSUME ServerTypes, NEW p \in Process,
           pc' \in [Process -> {"down", "file", "env", "services"} \cup AtWork],
           (DOMAIN config = Process /\ DOMAIN key = Process /\ DOMAIN job = Process
               /\ DOMAIN workers = Process)',
           \A q \in Process \ {p} : /\ pc'[q] = pc[q] /\ config'[q] = config[q]
                                    /\ key'[q] = key[q] /\ job'[q] = job[q]
                                    /\ workers'[q] = workers[q],
           pc'[p] # "down" => Texts(config'[p]),
           IF pc'[p] \in AtWork THEN key'[p] \in Keys(config'[p]) ELSE key'[p] = Nothing,
           JobTypes(p)'
    PROVE  ServerTypes'
<1>1. ASSUME NEW q \in Process \ {p}
      PROVE  /\ pc'[q] # "down" => Texts(config'[q])
             /\ IF pc'[q] \in AtWork THEN key'[q] \in Keys(config'[q]) ELSE key'[q] = Nothing
             /\ JobTypes(q)'
    <2>1. /\ pc'[q] = pc[q] /\ config'[q] = config[q] /\ key'[q] = key[q]
          /\ job'[q] = job[q] /\ workers'[q] = workers[q]
        OBVIOUS
    <2>2. JobTypes(q)
        BY DEF ServerTypes
    <2>3. JobTypes(q)'
        BY <2>1, <2>2 DEF JobTypes, Answers
    <2> QED
        BY <2>1, <2>3 DEF ServerTypes
<1> QED
    BY <1>1 DEF ServerTypes

\* A server that is gone holds nothing.
LEMMA GoneServers ==
    ASSUME ServerTypes, NEW p \in Process, Gone(p)
    PROVE  ServerTypes'
<1>1. (job[p] = NoJob /\ pc[p] = "down" /\ key[p] = Nothing)'
    BY DEF Gone, ServerTypes
<1>2. JobTypes(p)'
    BY <1>1 DEF JobTypes
<1>3. pc'[p] \notin AtWork
    BY <1>1 DEF AtWork
<1>4. pc' \in [Process -> {"down", "file", "env", "services"} \cup AtWork]
    BY DEF Gone, ServerTypes
<1> QED
    BY <1>1, <1>2, <1>3, <1>4, OneMoves DEF Gone, ServerTypes

\* On the way, a server without a job keeps none.
LEMMA AdvanceServers ==
    ASSUME ServerTypes, NEW p \in Process, job[p] = NoJob, UNCHANGED job,
           NEW new \in {"file", "env", "services", "socket", "sync", "waiting", "serving"},
           pc' = [pc EXCEPT ![p] = new],
           (DOMAIN config = Process /\ DOMAIN key = Process /\ DOMAIN workers = Process)',
           \A q \in Process \ {p} : /\ config'[q] = config[q] /\ key'[q] = key[q]
                                    /\ workers'[q] = workers[q],
           Texts(config'[p]),
           IF new \in AtWork THEN key'[p] \in Keys(config'[p]) ELSE key'[p] = Nothing
    PROVE  ServerTypes'
<1>1. pc' \in [Process -> {"down", "file", "env", "services"} \cup AtWork] /\ pc'[p] = new
    BY DEF ServerTypes, AtWork
<1>2. JobTypes(p)'
    BY <1>1 DEF JobTypes
<1>3. \A q \in Process \ {p} : pc'[q] = pc[q]
    BY DEF ServerTypes
<1> QED
    BY <1>1, <1>2, <1>3, OneMoves DEF ServerTypes

\* No server has a job before the services, between them and the commands, or when it
\* takes a new one.
LEMMA NoJobThere ==
    ASSUME ServerTypes, NEW p \in Process, pc[p] \notin {"list", "serving"}
    PROVE  job[p] = NoJob
BY DEF ServerTypes, JobTypes, Answers

\* A server at work on its list stays where it is in main.
LEMMA JobServers ==
    ASSUME ServerTypes, NEW p \in Process, UNCHANGED server, NEW j,
           job' = [job EXCEPT ![p] = j],
           \/ pc[p] = "serving" /\ j = NoJob
           \/ j \in Inits /\ pc[p] = "list"
           \/ /\ j \in Commands /\ Answers(p)
              /\ j.op = "create" <=> j.table \in j.list
           \/ j \in Repairs /\ Answers(p)
    PROVE  ServerTypes'
<1>1. job'[p] = j /\ \A q \in Process \ {p} : job'[q] = job[q]
    BY DEF ServerTypes
<1>2. UNCHANGED <<pc, config, key, workers>>
    BY DEF server
<1>3. JobTypes(p)'
    BY <1>1, <1>2 DEF JobTypes, Answers
<1> QED
    BY <1>1, <1>2, <1>3, OneMoves DEF ServerTypes

\* The kinds of jobs, told apart by what they do.
LEMMA JobKinds ==
    /\ \A j \in Inits : /\ j # NoJob /\ j.op = "init" /\ j.at \in {"open", "write"}
                        /\ j.list \subseteq Table /\ [j EXCEPT !.at = "write"] \in Inits
    /\ \A j \in Commands :
          /\ j # NoJob /\ j.op \in {"create", "drop"} /\ j.at \in {"open", "write", "answer"}
          /\ j.list \subseteq Table /\ j.table \in Table
          /\ \A at \in {"write", "answer"} :
                /\ [j EXCEPT !.at = at] \in Commands
                /\ [j EXCEPT !.at = at].op = j.op
                /\ [j EXCEPT !.at = at].table = j.table
                /\ [j EXCEPT !.at = at].list = j.list
    /\ \A j \in Repairs :
          /\ j # NoJob /\ j.op = "repair" /\ j.at \in {"open", "write"}
          /\ j.list \subseteq Table /\ j.table \in Table
          /\ [j EXCEPT !.at = "write"] \in Repairs
<1>1. \A j \in Inits : j.at # "none" /\ j.op = "init" /\ j.at \in {"open", "write"}
                       /\ j.list \subseteq Table /\ [j EXCEPT !.at = "write"] \in Inits
    BY DEF Inits
<1>2. \A j \in Commands :
          /\ j.at # "none" /\ j.op \in {"create", "drop"} /\ j.at \in {"open", "write", "answer"}
          /\ j.list \subseteq Table /\ j.table \in Table
    BY DEF Commands
<1>3. ASSUME NEW j \in Commands, NEW at \in {"write", "answer"}
      PROVE  /\ [j EXCEPT !.at = at] \in Commands
             /\ [j EXCEPT !.at = at].op = j.op
             /\ [j EXCEPT !.at = at].table = j.table
             /\ [j EXCEPT !.at = at].list = j.list
    BY <1>3 DEF Commands
<1>4. \A j \in Repairs :
          /\ j.at # "none" /\ j.op = "repair" /\ j.at \in {"open", "write"}
          /\ j.list \subseteq Table /\ j.table \in Table
          /\ [j EXCEPT !.at = "write"] \in Repairs
    BY DEF Repairs
<1>5. NoJob.at = "none"
    BY DEF NoJob
<1> QED
    BY <1>1, <1>2, <1>3, <1>4, <1>5

\* The job of a server at each point of it.
LEMMA JobFacts ==
    ASSUME ServerTypes, NEW p \in Process, job[p] # NoJob
    PROVE  /\ job[p].at \in {"open", "write", "answer"} /\ job[p].list \subseteq Table
           /\ pc[p] \in AtWork
           /\ job[p].op = "init" => job[p] \in Inits /\ pc[p] = "list"
           /\ job[p].op \in {"create", "drop"} =>
                 /\ job[p] \in Commands /\ Answers(p)
                 /\ job[p].op = "create" <=> job[p].table \in job[p].list
           /\ job[p].op = "repair" => job[p] \in Repairs /\ Answers(p)
           /\ job[p].op \in {"init", "create", "drop", "repair"}
           /\ job[p].op \in {"init", "repair"} => job[p].at # "answer"
<1>1. JobTypes(p)
    BY DEF ServerTypes
<1> QED
    BY <1>1, JobKinds DEF JobTypes, Answers, AtWork

\* The list is opened.
LEMMA OpenListServers ==
    ASSUME ServerTypes, NEW p \in Process, OpenList(p)
    PROVE  ServerTypes'
<1> DEFINE j == [job[p] EXCEPT !.at = "write"]
<1>1. UNCHANGED server /\ job' = [job EXCEPT ![p] = j] /\ job[p] # NoJob
    BY DEF OpenList, NoJob
<1>2. \/ j \in Inits /\ pc[p] = "list"
      \/ /\ j \in Commands /\ Answers(p)
         /\ j.op = "create" <=> j.table \in j.list
      \/ j \in Repairs /\ Answers(p)
    <2>1. CASE job[p].op = "init"
        <3>1. job[p] \in Inits /\ pc[p] = "list"
            BY <1>1, <2>1, JobFacts
        <3> QED
            BY <3>1, JobKinds
    <2>2. CASE job[p].op \in {"create", "drop"}
        <3>1. /\ job[p] \in Commands /\ Answers(p)
              /\ job[p].op = "create" <=> job[p].table \in job[p].list
            BY <1>1, <2>2, JobFacts
        <3>2. j \in Commands /\ j.op = job[p].op /\ j.table = job[p].table
              /\ j.list = job[p].list
            BY <3>1, JobKinds
        <3> HIDE DEF j
        <3> QED
            BY <3>1, <3>2
    <2>3. CASE job[p].op = "repair"
        <3>1. job[p] \in Repairs /\ Answers(p)
            BY <1>1, <2>3, JobFacts
        <3> QED
            BY <3>1, JobKinds
    <2> QED
        BY <1>1, <2>1, <2>2, <2>3, JobFacts
<1> HIDE DEF j
<1> QED
    BY <1>1, <1>2, JobServers

\* The list is written.
LEMMA WriteListServers ==
    ASSUME ServerTypes, NEW p \in Process, WriteList(p)
    PROVE  ServerTypes'
<1>1. job[p].at = "write" /\ job[p] # NoJob /\ UNCHANGED <<config, key, bound, workers>>
    BY DEF WriteList, NoJob
<1>2. CASE job[p].op = "init"
    <2>1. job' = [job EXCEPT ![p] = NoJob] /\ pc' = [pc EXCEPT ![p] = "socket"]
        BY <1>2 DEF WriteList
    <2>2. pc' \in [Process -> {"down", "file", "env", "services"} \cup AtWork]
          /\ pc'[p] = "socket" /\ job'[p] = NoJob
        BY <2>1 DEF ServerTypes, AtWork
    <2>3. pc[p] = "list"
        BY <1>1, <1>2, JobFacts
    <2>4. JobTypes(p)'
        BY <2>2 DEF JobTypes
    <2>5. Texts(config[p]) /\ key[p] \in Keys(config[p])
        BY <2>3 DEF ServerTypes, AtWork
    <2>6. \A q \in Process \ {p} : pc'[q] = pc[q] /\ job'[q] = job[q]
        BY <2>1 DEF ServerTypes
    <2>7. "socket" \in AtWork
        BY DEF AtWork
    <2> QED
        BY <1>1, <2>1, <2>2, <2>4, <2>5, <2>6, <2>7, OneMoves DEF ServerTypes
<1>3. CASE job[p].op = "repair"
    <2>1. UNCHANGED server /\ job[p] \in Repairs /\ Answers(p)
        BY <1>1, <1>3, JobFacts DEF WriteList, server
    <2>2. CASE job[p].create
        <3> DEFINE j == [at |-> "open", op |-> "create", table |-> job[p].table,
                         list |-> {job[p].table}]
        <3>1. job' = [job EXCEPT ![p] = j]
            BY <1>3, <2>2 DEF WriteList, WillWrite
        <3>2. job[p].table \in Table
            BY <2>1, JobKinds
        <3>3. j \in Commands /\ (j.op = "create" <=> j.table \in j.list)
            BY <3>2 DEF Commands
        <3> HIDE DEF j
        <3> QED
            BY <2>1, <3>1, <3>3, JobServers
    <2>3. CASE ~job[p].create
        <3>1. job' = [job EXCEPT ![p] = NoJob] /\ pc[p] = "serving"
            BY <1>3, <2>1, <2>3 DEF WriteList, Answers
        <3> QED
            BY <2>1, <3>1, JobServers
    <2> QED
        BY <2>2, <2>3
<1>4. CASE job[p].op \in {"create", "drop"}
    <2> DEFINE j == [job[p] EXCEPT !.at = "answer"]
    <2>1. UNCHANGED server /\ job' = [job EXCEPT ![p] = j]
        BY <1>1, <1>4 DEF WriteList, server
    <2>2. j \in Commands /\ Answers(p) /\ (j.op = "create" <=> j.table \in j.list)
        BY <1>1, <1>4, JobFacts, JobKinds
    <2> HIDE DEF j
    <2> QED
        BY <2>1, <2>2, JobServers
<1> QED
    BY <1>1, <1>2, <1>3, <1>4, JobFacts

\* A command begins: it has a list and a table, or repairs.
LEMMA CommandServers ==
    ASSUME ServerTypes, StoredTypes, NEW p \in Process,
           create(p) \/ drop(p) \/ loadConfigRepairs(p)
    PROVE  ServerTypes'
<1>1. UNCHANGED server /\ Answers(p)
    BY DEF create, drop, loadConfigRepairs, Loads
<1>2. key[p] \in DOMAIN database
    BY <1>1 DEF StoredTypes, Listed, Answers, AtWork
<1>3. database[key[p]].text = "list" => database[key[p]].tables \subseteq Table
    BY <1>2 DEF StoredTypes, DataTypes, List, Blank, Broken
<1>4. CASE create(p)
    <2>1. PICK t \in Table : /\ database[key[p]].text = "list"
                             /\ WillWrite(p, "create", t, database[key[p]].tables \cup {t})
        BY <1>4 DEF create, Loads
    <2> DEFINE j == [at |-> "open", op |-> "create", table |-> t,
                     list |-> database[key[p]].tables \cup {t}]
    <2>2. job' = [job EXCEPT ![p] = j]
        BY <2>1 DEF WillWrite
    <2>3. j \in Commands /\ (j.op = "create" <=> j.table \in j.list)
        BY <1>3, <2>1 DEF Commands
    <2> HIDE DEF j
    <2> QED
        BY <1>1, <2>2, <2>3, JobServers
<1>5. CASE drop(p)
    <2>1. PICK t \in Table : /\ database[key[p]].text = "list"
                             /\ WillWrite(p, "drop", t, database[key[p]].tables \ {t})
        BY <1>5 DEF drop, Loads
    <2> DEFINE j == [at |-> "open", op |-> "drop", table |-> t,
                     list |-> database[key[p]].tables \ {t}]
    <2>2. job' = [job EXCEPT ![p] = j]
        BY <2>1 DEF WillWrite
    <2>3. j \in Commands /\ (j.op = "create" <=> j.table \in j.list)
        BY <1>3, <2>1 DEF Commands
    <2> HIDE DEF j
    <2> QED
        BY <1>1, <2>2, <2>3, JobServers
<1>6. CASE loadConfigRepairs(p)
    <2>1. PICK t \in Table, op \in {"create", "repair"} :
             job' = [job EXCEPT ![p] = [at |-> "open", op |-> "repair", table |-> t,
                                        list |-> {}, create |-> op = "create"]]
        BY <1>6 DEF loadConfigRepairs
    <2> DEFINE b == (op = "create")
               j == [at |-> "open", op |-> "repair", table |-> t, list |-> {}, create |-> b]
    <2>2. job' = [job EXCEPT ![p] = j]
        BY <2>1
    <2>3. b \in BOOLEAN
        OBVIOUS
    <2>4. j \in Repairs
        <3> HIDE DEF b
        <3> QED
            BY <2>3 DEF Repairs
    <2> HIDE DEF j
    <2> QED
        BY <1>1, <2>2, <2>4, JobServers
<1> QED
    BY <1>4, <1>5, <1>6

\* Every action keeps the types of the servers: one step each.
LEMMA ServersStep ==
    ASSUME IInv, [Next]_vars
    PROVE  ServerTypes'
<1> USE DEF IInv
<1>1. CASE UNCHANGED vars
    BY <1>1 DEF vars, server, ServerTypes, JobTypes, Answers, Texts, Keys, KeyBytes
<1>2. ASSUME NEW p \in Process, Gone(p)
      PROVE  ServerTypes'
    BY <1>2, GoneServers
<1>3. ASSUME NEW p \in Process, Start(p)
      PROVE  ServerTypes'
    <2>1. /\ pc[p] = "down" /\ pc' = [pc EXCEPT ![p] = "file"]
          /\ config' = [config EXCEPT ![p] = Defaults] /\ UNCHANGED <<key, workers, job>>
        BY <1>3 DEF Start
    <2>2. job[p] = NoJob /\ key[p] = Nothing /\ Texts(config'[p])
        BY <2>1, NoJobThere, DefaultTexts DEF ServerTypes, AtWork
    <2>3. "file" \notin AtWork
        BY DEF AtWork
    <2> QED
        BY <2>1, <2>2, <2>3, AdvanceServers DEF ServerTypes
<1>4. ASSUME NEW p \in Process, ReadFile(p)
      PROVE  ServerTypes'
    <2>1. CASE Gone(p)
        BY <2>1, <1>2
    <2>2. CASE ~Gone(p)
        <3>1. pc[p] = "file"
            BY <1>4 DEF ReadFile
        <3>2. PICK file \in Json \cup {NoFile} :
                 /\ config' = [config EXCEPT ![p] = IF file = NoFile THEN @
                                                    ELSE Override(@, file)]
                 /\ pc' = [pc EXCEPT ![p] = "env"] /\ UNCHANGED <<key, workers, job>>
            BY <1>4, <2>2 DEF ReadFile
        <3>3. Texts(config[p]) /\ key[p] = Nothing /\ job[p] = NoJob
            BY <3>1, NoJobThere DEF ServerTypes, AtWork
        <3>4. Texts(config'[p])
            BY <3>2, <3>3, FileTexts DEF ServerTypes
        <3>5. "env" \notin AtWork
            BY DEF AtWork
        <3> QED
            BY <3>2, <3>3, <3>4, <3>5, AdvanceServers DEF ServerTypes
    <2> QED
        BY <2>1, <2>2
<1>5. ASSUME NEW p \in Process, loadFromEnv(p)
      PROVE  ServerTypes'
    <2>1. /\ pc[p] = "env" /\ pc' = [pc EXCEPT ![p] = "services"]
          /\ UNCHANGED <<key, workers, job>>
        BY <1>5 DEF loadFromEnv
    <2>2. PICK c : Texts(c) /\ config' = [config EXCEPT ![p] = c]
        BY <1>5, EnvironmentTexts
    <2>3. job[p] = NoJob /\ key[p] = Nothing
        BY <2>1, NoJobThere DEF ServerTypes, AtWork
    <2>4. "services" \notin AtWork
        BY DEF AtWork
    <2> QED
        BY <2>1, <2>2, <2>3, <2>4, AdvanceServers DEF ServerTypes
<1>6. ASSUME NEW p \in Process, Services(p)
      PROVE  ServerTypes'
    <2>1. pc[p] = "services" /\ UNCHANGED <<config, workers>>
        BY <1>6 DEF Services
    <2>2. Texts(config[p]) /\ job[p] = NoJob
        BY <2>1, NoJobThere DEF ServerTypes
    <2>3. PICK k \in Keys(config[p]) :
             /\ key' = [key EXCEPT ![p] = k]
             /\ \/ /\ job' = [job EXCEPT ![p] = [at |-> "open", op |-> "init", list |-> {}]]
                   /\ pc' = [pc EXCEPT ![p] = "list"]
                \/ UNCHANGED job /\ pc' = [pc EXCEPT ![p] = "socket"]
        BY <1>6 DEF Services
    <2>4. CASE UNCHANGED job /\ pc' = [pc EXCEPT ![p] = "socket"]
        <3>1. "socket" \in AtWork
            BY DEF AtWork
        <3> QED
            BY <2>1, <2>2, <2>3, <2>4, <3>1, AdvanceServers DEF ServerTypes
    <2>5. CASE /\ job' = [job EXCEPT ![p] = [at |-> "open", op |-> "init", list |-> {}]]
               /\ pc' = [pc EXCEPT ![p] = "list"]
        <3> DEFINE j == [at |-> "open", op |-> "init", list |-> {}]
        <3>1. j \in Inits
            BY DEF Inits
        <3>2. job' = [job EXCEPT ![p] = j]
            BY <2>5
        <3> HIDE DEF j
        <3>3. JobTypes(p)'
            BY <2>5, <3>1, <3>2 DEF JobTypes, ServerTypes
        <3>4. /\ pc' \in [Process -> {"down", "file", "env", "services"} \cup AtWork]
              /\ pc'[p] = "list"
            BY <2>5 DEF ServerTypes, AtWork
        <3>5. "list" \in AtWork
            BY DEF AtWork
        <3>6. \A q \in Process \ {p} : /\ pc'[q] = pc[q] /\ key'[q] = key[q]
                                       /\ job'[q] = job[q]
            BY <2>3, <2>5 DEF ServerTypes
        <3>7. key'[p] = k
            BY <2>3 DEF ServerTypes
        <3>8. (DOMAIN config = Process /\ DOMAIN key = Process /\ DOMAIN job = Process
                  /\ DOMAIN workers = Process)'
            BY <2>1, <2>3, <3>2 DEF ServerTypes
        <3> QED
            BY <2>1, <2>2, <3>3, <3>4, <3>5, <3>6, <3>7, <3>8, OneMoves
    <2> QED
        BY <2>3, <2>4, <2>5
<1>7. ASSUME NEW p \in Process, Listen(p) \/ StartSync(p)
      PROVE  ServerTypes'
    <2>1. CASE Gone(p)
        BY <2>1, <1>2
    <2>2. CASE ~Gone(p)
        <3>1. PICK new \in {"sync", "waiting", "serving"} : pc' = [pc EXCEPT ![p] = new]
            BY <1>7, <2>2 DEF Listen, StartSync
        <3>2. /\ pc[p] \in {"socket", "sync"} /\ UNCHANGED <<config, key, job>>
              /\ \/ UNCHANGED workers
                 \/ \E w : workers' = [workers EXCEPT ![p] = w]
            BY <1>7, <2>2 DEF Listen, StartSync
        <3>3. job[p] = NoJob /\ Texts(config[p]) /\ key[p] \in Keys(config[p])
            BY <3>2, NoJobThere DEF ServerTypes, AtWork
        <3>4. new \in AtWork
            BY DEF AtWork
        <3>5. /\ DOMAIN workers' = Process
              /\ \A q \in Process \ {p} : workers'[q] = workers[q]
            BY <3>2 DEF ServerTypes
        <3> QED
            BY <3>1, <3>2, <3>3, <3>4, <3>5, AdvanceServers DEF ServerTypes
    <2> QED
        BY <2>1, <2>2
<1>8. ASSUME NEW p \in Process, MainReturns(p) \/ Killed(p)
      PROVE  ServerTypes'
    BY <1>8, <1>2 DEF MainReturns, Killed
<1>9. ASSUME NEW p \in Process, create(p) \/ drop(p) \/ loadConfigRepairs(p)
      PROVE  ServerTypes'
    BY <1>9, CommandServers
<1>10. ASSUME NEW p \in Process, OpenList(p) \/ WriteList(p)
       PROVE  ServerTypes'
    BY <1>10, OpenListServers, WriteListServers
<1>11. ASSUME NEW p \in Process, GiveUp(p) \/ Answer(p)
       PROVE  ServerTypes'
    <2>1. job[p] # NoJob /\ UNCHANGED server /\ job' = [job EXCEPT ![p] = NoJob]
        BY <1>11 DEF GiveUp, Answer, NoJob
    <2>2. job[p].op \in {"create", "drop"}
        BY <1>11, <2>1, JobFacts DEF GiveUp, Answer
    <2>3. pc[p] = "serving"
        BY <2>1, <2>2, JobFacts DEF Answers
    <2> QED
        BY <2>1, <2>3, JobServers
<1> QED
    BY <1>1, <1>3, <1>4, <1>5, <1>6, <1>7, <1>8, <1>9, <1>10, <1>11 DEF Next

-----------------------------------------------------------------------------
(* The lists.                                                              *)

\* The key of a server at work is one its texts give, and so is that of a job.
LEMMA KeyOfServer ==
    ASSUME ServerTypes, NEW p \in Process, pc[p] \in AtWork \/ job[p] # NoJob
    PROVE  /\ pc[p] \in AtWork /\ key[p] \in RealKeys /\ key[p] # Nothing
           /\ Texts(config[p]) /\ HeadsOf(key[p]) = Heads(config[p])
<1>1. pc[p] \in AtWork
    BY JobFacts
<1>2. Texts(config[p]) /\ key[p] \in Keys(config[p])
    BY <1>1 DEF ServerTypes, AtWork
<1>3. key[p] \in RealKeys /\ HeadsOf(key[p]) = Heads(config[p])
    BY <1>2, KeysOfTexts
<1>4. key[p] # Nothing
    BY <1>3, KeyFacts
<1> QED
    BY <1>1, <1>2, <1>3, <1>4

\* A server that answers has a list.
LEMMA ListOfServer ==
    ASSUME IInv, NEW p \in Process, Answers(p)
    PROVE  key[p] \in RealKeys /\ key[p] \in DOMAIN database
<1>1. pc[p] \in AtWork /\ pc[p] # "list"
    BY DEF Answers, AtWork
<1>2. Listed(p)
    BY DEF IInv, StoredTypes
<1> QED
    BY <1>1, <1>2, KeyOfServer DEF IInv, Listed

\* Where no list is touched, a server moves on or takes on a new job.
LEMMA StoredMoves ==
    ASSUME IInv, NEW p \in Process, DataTypes', DOMAIN database \subseteq DOMAIN database',
           \A q \in Process \ {p} : /\ pc'[q] = pc[q] /\ key'[q] = key[q]
                                    /\ job'[q] = job[q],
           Listed(p)'
    PROVE  StoredTypes'
<1>1. ASSUME NEW q \in Process \ {p}
      PROVE  Listed(q)'
    <2>1. Listed(q) /\ pc'[q] = pc[q] /\ key'[q] = key[q] /\ job'[q] = job[q]
        BY DEF IInv, StoredTypes
    <2> QED
        BY <2>1 DEF Listed
<1> QED
    BY <1>1 DEF StoredTypes

\* What is listed and answered keeps its types when another key is harmed.
LEMMA HarmTypes ==
    ASSUME DataTypes, UNCHANGED stored, NEW k \in RealKeys, harmed' \subseteq harmed \cup {k}
    PROVE  DataTypes'
BY DEF DataTypes, stored

\* A server that is gone leaves the lists as they are.
LEMMA GoneStored ==
    ASSUME IInv, NEW p \in Process, Gone(p), UNCHANGED stored
    PROVE  StoredTypes'
<1>1. DataTypes'
    <2>1. CASE job[p].at = "write"
        <3>1. key[p] \in RealKeys
            BY <2>1, KeyOfServer DEF IInv, NoJob
        <3>2. harmed' \subseteq harmed \cup {key[p]}
            BY DEF Gone
        <3> QED
            BY <3>1, <3>2, HarmTypes DEF IInv, StoredTypes
    <2>2. CASE job[p].at # "write"
        <3>1. harmed' = harmed
            BY <2>2 DEF Gone
        <3> QED
            BY <3>1 DEF IInv, StoredTypes, DataTypes, stored
    <2> QED
        BY <2>1, <2>2
<1>2. Listed(p)'
    BY DEF Gone, Listed, IInv, ServerTypes, AtWork, NoJob
<1>3. \A q \in Process \ {p} : pc'[q] = pc[q] /\ key'[q] = key[q] /\ job'[q] = job[q]
    BY DEF Gone, IInv, ServerTypes
<1> QED
    BY <1>1, <1>2, <1>3, StoredMoves DEF stored

\* On the way to the services, and behind them, too.
LEMMA AdvanceStored ==
    ASSUME IInv, NEW p \in Process, UNCHANGED <<key, job, stored, harmed>>, NEW new,
           job[p] = NoJob, pc' = [pc EXCEPT ![p] = new],
           new \in {"file", "env", "services"} \/ pc[p] \in AtWork \ {"list"}
    PROVE  StoredTypes'
<1>1. DataTypes'
    BY DEF IInv, StoredTypes, DataTypes, stored
<1>2. Listed(p)'
    <2>1. Listed(p) /\ pc'[p] = new
        BY DEF IInv, StoredTypes, ServerTypes
    <2> QED
        BY <2>1 DEF Listed, AtWork, NoJob, stored
<1>3. \A q \in Process \ {p} : pc'[q] = pc[q]
    BY DEF IInv, ServerTypes
<1> QED
    BY <1>1, <1>2, <1>3, StoredMoves DEF stored

\* The services take a key of the texts, with a list or with one to be written.
LEMMA ServicesStored ==
    ASSUME IInv, NEW p \in Process, Services(p)
    PROVE  StoredTypes'
<1>1. PICK k \in Keys(config[p]) :
         /\ key' = [key EXCEPT ![p] = k]
         /\ \/ /\ job' = [job EXCEPT ![p] = [at |-> "open", op |-> "init", list |-> {}]]
               /\ pc' = [pc EXCEPT ![p] = "list"]
               /\ harmed' \subseteq harmed \cup {k}
            \/ /\ k \in DOMAIN database /\ UNCHANGED <<job, harmed>>
               /\ pc' = [pc EXCEPT ![p] = "socket"]
    BY DEF Services, Missing
<1>2. Texts(config[p]) /\ pc[p] = "services" /\ UNCHANGED stored
    BY DEF Services, IInv, ServerTypes
<1>3. k \in RealKeys
    BY <1>1, <1>2, KeysOfTexts
<1>4. DataTypes'
    BY <1>1, <1>2, <1>3, HarmTypes DEF IInv, StoredTypes
<1>5. job[p] = NoJob
    BY <1>2, NoJobThere DEF IInv
<1>6. Listed(p)'
    BY <1>1, <1>2, <1>5 DEF Listed, IInv, ServerTypes, NoJob, stored
<1>7. \A q \in Process \ {p} : pc'[q] = pc[q] /\ key'[q] = key[q] /\ job'[q] = job[q]
    BY <1>1 DEF IInv, ServerTypes
<1> QED
    BY <1>2, <1>4, <1>6, <1>7, StoredMoves DEF stored

\* A server that answers works on its list, and asks or answers for tables of its key.
LEMMA CommandStored ==
    ASSUME IInv, NEW p \in Process,
           \/ create(p) \/ drop(p) \/ loadConfigRepairs(p) \/ GiveUp(p) \/ Answer(p)
    PROVE  StoredTypes'
<1>1. /\ UNCHANGED <<server, database>> /\ \A q \in Process \ {p} : job'[q] = job[q]
      /\ job'[p].at # "write"
    BY DEF create, drop, loadConfigRepairs, GiveUp, Answer, Loads, WillWrite, stored, NoJob,
           IInv, ServerTypes
<1>2. pc[p] \in AtWork \/ job[p] # NoJob
    <2>1. CASE create(p) \/ drop(p) \/ loadConfigRepairs(p)
        <3>1. pc[p] = "serving"
            BY <2>1 DEF create, drop, loadConfigRepairs, Loads, Answers
        <3> QED
            BY <3>1 DEF AtWork
    <2>2. CASE GiveUp(p) \/ Answer(p)
        BY <2>2 DEF GiveUp, Answer, NoJob
    <2> QED
        BY <2>1, <2>2
<1>3. key[p] \in RealKeys
    BY <1>2, KeyOfServer DEF IInv
<1>4. /\ harmed' \subseteq harmed \cup {key[p]}
      /\ \E t \in Table : asked' \cup acked' \subseteq asked \cup acked \cup {<<key[p], t>>}
    <2>1. CASE create(p) \/ drop(p) \/ loadConfigRepairs(p)
        BY <2>1 DEF create, drop, loadConfigRepairs, Loads, Pairs
    <2>2. CASE GiveUp(p) \/ Answer(p)
        <3>1. job[p] # NoJob /\ job[p].op \in {"create", "drop"}
            BY <2>2, JobFacts DEF GiveUp, Answer, NoJob, IInv
        <3>2. job[p].table \in Table
            BY <3>1, JobFacts, JobKinds DEF IInv
        <3> QED
            BY <2>2, <3>2 DEF GiveUp, Answer, stored, Pairs
    <2> QED
        BY <2>1, <2>2
<1>5. DataTypes'
    BY <1>1, <1>3, <1>4 DEF IInv, StoredTypes, DataTypes
<1>6. Listed(p)'
    BY <1>1 DEF IInv, StoredTypes, Listed, server
<1> QED
    BY <1>1, <1>5, <1>6, StoredMoves DEF server

\* A list that is opened is there, and empty.
LEMMA OpenListStored ==
    ASSUME IInv, NEW p \in Process, OpenList(p)
    PROVE  StoredTypes'
<1>1. /\ UNCHANGED <<server, asked, acked, harmed>> /\ \A q \in Process \ {p} : job'[q] = job[q]
      /\ database' = [k \in DOMAIN database \cup {key[p]} |->
                          IF k = key[p] THEN Blank ELSE database[k]]
    BY DEF OpenList, IInv, ServerTypes
<1>2. key[p] \in RealKeys
    BY KeyOfServer DEF IInv, OpenList, NoJob
<1>3. DataTypes'
    BY <1>1, <1>2 DEF IInv, StoredTypes, DataTypes
<1>4. Listed(p)'
    BY <1>1 DEF Listed, server
<1> QED
    BY <1>1, <1>3, <1>4, StoredMoves DEF server

\* A list that is written holds tables, or what does not parse.
LEMMA WriteListStored ==
    ASSUME IInv, NEW p \in Process, WriteList(p)
    PROVE  StoredTypes'
<1>1. /\ UNCHANGED <<key, asked, acked, harmed>>
      /\ \A q \in Process \ {p} : job'[q] = job[q] /\ pc'[q] = pc[q]
      /\ \E new \in {List(job[p].list), Broken} : database' = [database EXCEPT ![key[p]] = new]
    BY DEF WriteList, WillWrite, IInv, ServerTypes
<1>2. key[p] \in DOMAIN database
    BY DEF IInv, StoredTypes, Listed, WriteList
<1>3. job[p].list \subseteq Table
    BY JobFacts DEF IInv, WriteList, NoJob
<1>4. DataTypes'
    <2> DEFINE Files == {Blank, Broken} \cup {List(S) : S \in SUBSET Table}
    <2>1. PICK new \in {List(job[p].list), Broken} :
             database' = [database EXCEPT ![key[p]] = new]
        BY <1>1
    <2>2. new \in Files
        BY <1>3
    <2>3. database = [k \in DOMAIN database |-> database[k]]
          /\ \A k \in DOMAIN database : database[k] \in Files
        BY DEF IInv, StoredTypes, DataTypes
    <2> HIDE DEF Files
    <2>4. /\ DOMAIN database' = DOMAIN database
          /\ database' = [k \in DOMAIN database' |-> database'[k]]
          /\ \A k \in DOMAIN database' : database'[k] \in Files
        BY <2>1, <2>2, <2>3
    <2> USE DEF Files
    <2> QED
        BY <1>1, <2>4 DEF IInv, StoredTypes, DataTypes
<1>5. Listed(p)'
    BY <1>1, <1>2 DEF Listed
<1> QED
    BY <1>1, <1>4, <1>5, StoredMoves

\* Every action keeps the types of the lists: one step each.
LEMMA StoredStep ==
    ASSUME IInv, [Next]_vars
    PROVE  StoredTypes'
<1>1. CASE UNCHANGED vars
    BY <1>1 DEF vars, server, stored, IInv, StoredTypes, DataTypes, Listed
<1>2. ASSUME NEW p \in Process, Gone(p), UNCHANGED stored
      PROVE  StoredTypes'
    BY <1>2, GoneStored
<1>3. ASSUME NEW p \in Process,
             Start(p) \/ loadFromEnv(p) \/ (ReadFile(p) /\ ~Gone(p))
      PROVE  StoredTypes'
    <2>1. /\ pc[p] \in {"down", "file", "env"} /\ UNCHANGED <<key, job, stored, harmed>>
          /\ \E new \in {"file", "env", "services"} : pc' = [pc EXCEPT ![p] = new]
        BY <1>3 DEF Start, loadFromEnv, ReadFile
    <2>2. job[p] = NoJob
        BY <2>1, NoJobThere DEF IInv
    <2> QED
        BY <2>1, <2>2, AdvanceStored
<1>4. ASSUME NEW p \in Process, Listen(p) \/ StartSync(p), ~Gone(p)
      PROVE  StoredTypes'
    <2>1. /\ pc[p] \in {"socket", "sync"} /\ UNCHANGED <<key, job, stored, harmed>>
          /\ \E new : pc' = [pc EXCEPT ![p] = new]
        BY <1>4 DEF Listen, StartSync
    <2>2. job[p] = NoJob /\ pc[p] \in AtWork \ {"list"}
        BY <2>1, NoJobThere DEF IInv, AtWork
    <2> QED
        BY <2>1, <2>2, AdvanceStored
<1> QED
    BY <1>1, <1>2, <1>3, <1>4, ServicesStored, CommandStored, OpenListStored, WriteListStored
       DEF Next, ReadFile, Listen, StartSync, MainReturns, Killed

-----------------------------------------------------------------------------
(* Unharmed lists.                                                         *)

\* A list stays sound where it is not touched and nobody who writes it goes away.
LEMMA Untouched ==
    ASSUME IInv, NEW k \in RealKeys \ harmed,
           \A q \in Process : At(q, k)' => At(q, k) /\ job'[q] = job[q],
           \A q \in Process : At(q, k) /\ job[q].at = "write" => At(q, k)' /\ job'[q] = job[q],
           k \in DOMAIN database' <=> k \in DOMAIN database,
           k \in DOMAIN database => database'[k] = database[k],
           \A t \in Table : /\ <<k, t>> \in acked' => <<k, t>> \in acked
                            /\ <<k, t>> \in asked => <<k, t>> \in asked'
    PROVE  Sound(k)'
<1>1. Sound(k)
    BY DEF IInv, UnharmedAreSound
<1>2. (\A p, q \in Process : At(p, k) /\ At(q, k) => p = q)'
    BY <1>1 DEF Sound
<1>3. ((\E t \in Table : <<k, t>> \in acked) => k \in DOMAIN database)'
    BY <1>1 DEF Sound
<1>4. ASSUME NEW p \in Process, At(p, k)'
      PROVE  (/\ job[p].op # "repair" /\ Agrees(k, job[p].list)
              /\ job[p].at = "write" => database[k] = Blank
              /\ job[p].at = "answer" => database[k] = List(job[p].list))'
    <2>1. At(p, k) /\ job'[p] = job[p]
        BY <1>4
    <2>2. job[p].list \subseteq Table
        BY <2>1, JobFacts DEF IInv, At
    <2>5. job[p].at \in {"write", "answer"} => k \in DOMAIN database
        <3>1. CASE job[p].at = "write"
            BY <2>1, <3>1 DEF At, IInv, StoredTypes, Listed
        <3>2. CASE job[p].at = "answer"
            <4>1. Answers(p)
                BY <2>1, <3>2, JobFacts DEF At, IInv
            <4> QED
                BY <2>1, <4>1, ListOfServer DEF At
        <3> QED
            BY <3>1, <3>2
    <2>3. /\ job[p].op # "repair" /\ Agrees(k, job[p].list)
          /\ job[p].at = "write" => database[k] = Blank
          /\ job[p].at = "answer" => database[k] = List(job[p].list)
        BY <1>1, <2>1 DEF Sound
    <2> DEFINE S == job[p].list
    <2>4. Agrees(k, S)'
        <3>1. S' = S
            BY <2>1
        <3>2. (\A t \in Table : <<k, t>> \in acked => t \in S)
              /\ \A t \in S : <<k, t>> \in asked
            BY <2>3 DEF Agrees
        <3> QED
            BY <2>2, <3>1, <3>2 DEF Agrees
    <2> QED
        BY <2>1, <2>3, <2>4, <2>5 DEF List, Blank
<1>5. (k \in DOMAIN database =>
          \/ database[k] = Blank /\ \E p \in Process : At(p, k) /\ job[p].at = "write"
          \/ \E S \in SUBSET Table : database[k] = List(S) /\ Agrees(k, S))'
    <2> SUFFICES ASSUME k \in DOMAIN database
                 PROVE  (\/ database[k] = Blank
                            /\ \E p \in Process : At(p, k) /\ job[p].at = "write"
                         \/ \E S \in SUBSET Table : database[k] = List(S) /\ Agrees(k, S))'
        OBVIOUS
    <2>1. CASE database[k] = Blank /\ \E p \in Process : At(p, k) /\ job[p].at = "write"
        <3>1. PICK p \in Process : At(p, k) /\ job[p].at = "write"
            BY <2>1
        <3>2. At(p, k)' /\ job'[p] = job[p]
            BY <3>1
        <3> QED
            BY <2>1, <3>1, <3>2 DEF Blank
    <2>2. CASE \E S \in SUBSET Table : database[k] = List(S) /\ Agrees(k, S)
        <3>1. PICK S \in SUBSET Table : database[k] = List(S) /\ Agrees(k, S)
            BY <2>2
        <3>2. \A t \in Table : <<k, t>> \in acked' => t \in S
            BY <3>1 DEF Agrees
        <3>3. \A t \in S : <<k, t>> \in asked'
            BY <3>1 DEF Agrees
        <3>4. database'[k] = List(S)
            BY <3>1
        <3> QED
            BY <3>2, <3>3, <3>4 DEF Agrees, List
    <2> QED
        BY <1>1, <2>1, <2>2 DEF Sound
<1> QED
    BY <1>2, <1>3, <1>4, <1>5 DEF Sound

\* Who works on an unharmed list is alone.
LEMMA Alone ==
    ASSUME IInv, NEW p \in Process, At(p, key[p]), key[p] \notin harmed
    PROVE  /\ key[p] \in RealKeys /\ Sound(key[p])
           /\ \A q \in Process \ {p} : ~At(q, key[p])
<1>1. key[p] \in RealKeys
    BY KeyOfServer DEF At, IInv
<1>2. Sound(key[p])
    BY <1>1 DEF IInv, UnharmedAreSound
<1> QED
    BY <1>1, <1>2 DEF Sound

\* What it takes for a list to be sound when only server p may be at work on it.
LEMMA SoundAgain ==
    ASSUME NEW k, NEW p \in Process,
           \A q \in Process \ {p} : ~At(q, k)',
           ((\E t \in Table : <<k, t>> \in acked) => k \in DOMAIN database)',
           (At(p, k) =>
              /\ job[p].op # "repair" /\ Agrees(k, job[p].list)
              /\ job[p].at = "write" => database[k] = Blank
              /\ job[p].at = "answer" => database[k] = List(job[p].list))',
           (k \in DOMAIN database =>
              \/ database[k] = Blank /\ At(p, k) /\ job[p].at = "write"
              \/ \E S \in SUBSET Table : database[k] = List(S) /\ Agrees(k, S))'
    PROVE  Sound(k)'
<1>1. \A q \in Process : At(q, k)' => q = p
    OBVIOUS
<1>2. (\A q \in Process : At(q, k) =>
          /\ job[q].op # "repair" /\ Agrees(k, job[q].list)
          /\ job[q].at = "write" => database[k] = Blank
          /\ job[q].at = "answer" => database[k] = List(job[q].list))'
    BY <1>1
<1> QED
    BY <1>1, <1>2 DEF Sound

\* A list that parses is sound with what was asked and answered.
LEMMA ListAgrees ==
    ASSUME NEW k, Sound(k), k \in DOMAIN database, database[k].text = "list"
    PROVE  \E S \in SUBSET Table :
               database[k] = List(S) /\ database[k].tables = S /\ Agrees(k, S)
<1>1. database[k] # Blank
    BY DEF Blank
<1>2. PICK S \in SUBSET Table : database[k] = List(S) /\ Agrees(k, S)
    BY <1>1 DEF Sound
<1>3. database[k].tables = S
    BY <1>2 DEF List
<1> QED
    BY <1>2, <1>3

\* The services touch the list of their key only where there is none.
LEMMA ServicesSound ==
    ASSUME IInv, NEW p \in Process, Services(p), NEW k \in RealKeys \ harmed'
    PROVE  Sound(k)'
<1>1. PICK d \in Keys(config[p]) :
         /\ key' = [key EXCEPT ![p] = d]
         /\ \/ /\ d \notin DOMAIN database
               /\ job' = [job EXCEPT ![p] = [at |-> "open", op |-> "init", list |-> {}]]
               /\ harmed' = harmed \cup {e \in {d} : Busy(p, e)}
            \/ UNCHANGED <<job, harmed>>
    BY DEF Services, Missing
<1>2. /\ pc[p] = "services" /\ UNCHANGED stored /\ job[p] = NoJob /\ key[p] = Nothing
      /\ k \notin harmed
    BY <1>1, NoJobThere DEF Services, IInv, ServerTypes, AtWork
<1>3. /\ DOMAIN key = Process /\ DOMAIN job = Process /\ key'[p] = d
      /\ \A q \in Process \ {p} : key'[q] = key[q] /\ job'[q] = job[q]
    BY <1>1 DEF IInv, ServerTypes
<1>4. \A q \in Process : At(q, k) => q # p /\ At(q, k)' /\ job'[q] = job[q]
    BY <1>2, <1>3 DEF At
<1>5. CASE k # d \/ UNCHANGED <<job, harmed>>
    <2>1. \A q \in Process : At(q, k)' => At(q, k) /\ job'[q] = job[q]
        BY <1>2, <1>3, <1>5 DEF At
    <2> QED
        BY <1>2, <1>4, <2>1, Untouched DEF stored
<1>6. CASE /\ k = d /\ d \notin DOMAIN database
           /\ job' = [job EXCEPT ![p] = [at |-> "open", op |-> "init", list |-> {}]]
           /\ harmed' = harmed \cup {e \in {d} : Busy(p, e)}
    <2>1. ~Busy(p, k)
        BY <1>6
    <2>2. \A q \in Process \ {p} : ~At(q, k)'
        BY <1>3, <2>1 DEF At, Busy
    <2>3. \A t \in Table : <<k, t>> \notin acked
        BY <1>2, <1>6 DEF IInv, UnharmedAreSound, Sound
    <2>4. job'[p].at = "open" /\ job'[p].op = "init" /\ job'[p].list = {}
        BY <1>3, <1>6
    <2>5. Agrees(k, {})'
        BY <1>2, <2>3 DEF Agrees, stored
    <2>6. Agrees(k, job[p].list)'
        BY <2>4, <2>5 DEF Agrees
    <2> QED
        BY <1>2, <1>6, <2>2, <2>3, <2>4, <2>6, SoundAgain DEF stored
<1> QED
    BY <1>1, <1>5, <1>6

\* A server that is gone harms the list it was writing.
LEMMA GoneSound ==
    ASSUME IInv, NEW p \in Process, Gone(p), UNCHANGED stored, NEW k \in RealKeys \ harmed'
    PROVE  Sound(k)'
<1>1. k # Nothing /\ k \notin harmed /\ (key[p] = k => job[p].at # "write")
    BY KeyFacts DEF Gone
<1>2. /\ key'[p] = Nothing
      /\ \A q \in Process \ {p} : key'[q] = key[q] /\ job'[q] = job[q]
    BY DEF Gone, IInv, ServerTypes
<1>3. \A q \in Process : At(q, k)' => At(q, k) /\ job'[q] = job[q]
    BY <1>1, <1>2 DEF At
<1>4. \A q \in Process : At(q, k) /\ job[q].at = "write" => At(q, k)' /\ job'[q] = job[q]
    BY <1>1, <1>2 DEF At
<1> QED
    BY <1>1, <1>3, <1>4, Untouched DEF stored

\* Nothing else on the way touches a list.
LEMMA AdvanceSound ==
    ASSUME IInv, UNCHANGED <<key, job, stored, harmed>>, NEW k \in RealKeys \ harmed'
    PROVE  Sound(k)'
<1>1. \A q \in Process : (At(q, k)' <=> At(q, k)) /\ job'[q] = job[q]
    BY DEF At
<1> QED
    BY <1>1, Untouched DEF stored

\* No command touches the list of another key.
LEMMA OthersSound ==
    ASSUME IInv, NEW p \in Process, UNCHANGED key, harmed \subseteq harmed',
           \A q \in Process \ {p} : job'[q] = job[q],
           NEW k \in RealKeys \ harmed', k # key[p],
           k \in DOMAIN database' <=> k \in DOMAIN database,
           k \in DOMAIN database => database'[k] = database[k],
           NEW t, asked \ Pairs(p, t) \subseteq asked', acked' \subseteq acked \cup Pairs(p, t)
    PROVE  Sound(k)'
<1>1. \A q \in Process : At(q, k) \/ At(q, k)' => q # p
    BY DEF At
<1>2. \A q \in Process \ {p} : (At(q, k)' <=> At(q, k))
    BY DEF At
<1>3. \A u \in Table : /\ <<k, u>> \in acked' => <<k, u>> \in acked
                       /\ <<k, u>> \in asked => <<k, u>> \in asked'
    BY DEF Pairs
<1> QED
    BY <1>1, <1>2, <1>3, Untouched

\* A command that begins on an unharmed list is alone, and keeps what was acknowledged.
LEMMA CommandSound ==
    ASSUME IInv, NEW p \in Process, create(p) \/ drop(p) \/ loadConfigRepairs(p),
           NEW k \in RealKeys \ harmed'
    PROVE  Sound(k)'
<1>1. UNCHANGED <<server, database>> /\ harmed \subseteq harmed' /\ Answers(p) /\ job[p] = NoJob
    BY DEF create, drop, loadConfigRepairs, Loads
<1>2. UNCHANGED key /\ \A q \in Process \ {p} : job'[q] = job[q]
    BY <1>1 DEF create, drop, loadConfigRepairs, WillWrite, server, IInv, ServerTypes
<1>3. PICK t \in Table :
          /\ asked \subseteq asked' /\ acked' \subseteq acked
          /\ \/ loadConfigRepairs(p)
             \/ /\ Loads(p) /\ WillWrite(p, "create", t, database[key[p]].tables \cup {t})
                /\ asked' = asked \cup Pairs(p, t) /\ UNCHANGED acked
             \/ /\ Loads(p) /\ WillWrite(p, "drop", t, database[key[p]].tables \ {t})
                /\ acked' = acked \ Pairs(p, t) /\ UNCHANGED asked
    BY DEF create, drop, loadConfigRepairs
<1>4. CASE k # key[p]
    BY <1>1, <1>2, <1>3, <1>4, OthersSound
<1>5. CASE k = key[p]
    <2>1. /\ Loads(p) /\ ~Busy(p, k)
          /\ \/ /\ WillWrite(p, "create", t, database[k].tables \cup {t})
                /\ asked' = asked \cup Pairs(p, t) /\ UNCHANGED acked
             \/ /\ WillWrite(p, "drop", t, database[k].tables \ {t})
                /\ acked' = acked \ Pairs(p, t) /\ UNCHANGED asked
        BY <1>3, <1>5 DEF loadConfigRepairs, Loads
    <2>2. \A q \in Process \ {p} : ~At(q, k)'
        BY <1>2, <2>1 DEF At, Busy
    <2>3. k \in DOMAIN database /\ Sound(k)
        BY <1>1, <1>5, ListOfServer DEF IInv, UnharmedAreSound
    <2>4. PICK S \in SUBSET Table : /\ database[k] = List(S) /\ database[k].tables = S
                                    /\ Agrees(k, S)
        BY <1>5, <2>1, <2>3, ListAgrees DEF Loads
    <2>5. Agrees(k, S)'
        BY <1>3, <2>4 DEF Agrees
    <2>6. /\ job'[p].at = "open" /\ job'[p].op # "repair"
          /\ Agrees(k, job[p].list)'
        <3>1. CASE /\ WillWrite(p, "create", t, S \cup {t})
                   /\ asked' = asked \cup Pairs(p, t) /\ UNCHANGED acked
            <4>1. job'[p].at = "open" /\ job'[p].op = "create" /\ job'[p].list = S \cup {t}
                BY <3>1 DEF WillWrite, IInv, ServerTypes
            <4>2. \A u \in Table : <<k, u>> \in acked' => u \in S \cup {t}
                BY <2>5 DEF Agrees
            <4>3. \A u \in S \cup {t} : <<k, u>> \in asked'
                BY <1>5, <2>5, <3>1 DEF Agrees, Pairs
            <4> QED
                BY <4>1, <4>2, <4>3 DEF Agrees
        <3>2. CASE /\ WillWrite(p, "drop", t, S \ {t})
                   /\ acked' = acked \ Pairs(p, t) /\ UNCHANGED asked
            <4>1. job'[p].at = "open" /\ job'[p].op = "drop" /\ job'[p].list = S \ {t}
                BY <3>2 DEF WillWrite, IInv, ServerTypes
            <4>2. \A u \in Table : <<k, u>> \in acked' => u \in S \ {t}
                BY <1>5, <2>5, <3>2 DEF Agrees, Pairs
            <4>3. \A u \in S \ {t} : <<k, u>> \in asked'
                BY <2>5 DEF Agrees
            <4> QED
                BY <4>1, <4>2, <4>3 DEF Agrees
        <3> QED
            BY <2>1, <2>4, <3>1, <3>2
    <2>7. k \in DOMAIN database' /\ database'[k] = List(S)
        BY <1>1, <2>3, <2>4
    <2> QED
        BY <2>2, <2>5, <2>6, <2>7, SoundAgain DEF List
<1> QED
    BY <1>4, <1>5

\* A command that gives up leaves all as it is.
LEMMA GiveUpSound ==
    ASSUME IInv, NEW p \in Process, GiveUp(p), NEW k \in RealKeys \ harmed'
    PROVE  Sound(k)'
<1>1. /\ job[p].at = "open" /\ UNCHANGED <<server, stored, harmed>>
      /\ job'[p] = NoJob /\ \A q \in Process \ {p} : job'[q] = job[q]
    BY DEF GiveUp, IInv, ServerTypes
<1>2. \A q \in Process : At(q, k)' => At(q, k) /\ job'[q] = job[q]
    BY <1>1 DEF At, server
<1>3. \A q \in Process : At(q, k) /\ job[q].at = "write" => At(q, k)' /\ job'[q] = job[q]
    BY <1>1 DEF At, server
<1> QED
    BY <1>1, <1>2, <1>3, Untouched DEF stored

\* Who truncates an unharmed list has all that was acknowledged in hand.
LEMMA OpenListSound ==
    ASSUME IInv, NEW p \in Process, OpenList(p), NEW k \in RealKeys \ harmed', k = key[p]
    PROVE  Sound(k)'
<1>1. /\ job[p].at = "open" /\ job[p] # NoJob /\ UNCHANGED <<key, asked, acked, harmed>>
      /\ job'[p] = [job[p] EXCEPT !.at = "write"]
      /\ \A q \in Process \ {p} : job'[q] = job[q]
      /\ k \in DOMAIN database' /\ database'[k] = Blank
    BY DEF OpenList, IInv, ServerTypes, NoJob, server
<1>2. Sound(k) /\ At(p, k) /\ \A q \in Process \ {p} : ~At(q, k)
    BY <1>1, Alone DEF At
<1>3. \A q \in Process \ {p} : ~At(q, k)'
    BY <1>1, <1>2 DEF At
<1>4. job[p].op # "repair" /\ Agrees(k, job[p].list)
    BY <1>2 DEF Sound
<1>5. job'[p].at = "write" /\ job'[p].op = job[p].op /\ job'[p].list = job[p].list
    <2>1. job[p] \in Inits \/ job[p] \in Commands
        BY <1>1, <1>4, JobFacts DEF IInv
    <2> QED
        BY <1>1, <2>1 DEF Inits, Commands
<1>6. Agrees(k, job[p].list)'
    BY <1>1, <1>4, <1>5 DEF Agrees
<1>7. At(p, k)'
    BY <1>1, <1>5 DEF At, NoJob
<1> QED
    BY <1>1, <1>3, <1>4, <1>5, <1>6, <1>7, SoundAgain DEF Blank

\* The list it writes holds all that was acknowledged.
LEMMA WriteListSound ==
    ASSUME IInv, NEW p \in Process, WriteList(p), NEW k \in RealKeys \ harmed', k = key[p]
    PROVE  Sound(k)'
<1>1. /\ job[p].at = "write" /\ job[p] # NoJob /\ UNCHANGED <<key, asked, acked, harmed>>
      /\ \A q \in Process \ {p} : job'[q] = job[q]
    BY DEF WriteList, WillWrite, IInv, ServerTypes, NoJob
<1>2. Sound(k) /\ At(p, k) /\ \A q \in Process \ {p} : ~At(q, k)
    BY <1>1, Alone DEF At
<1>3. \A q \in Process \ {p} : ~At(q, k)'
    BY <1>1, <1>2 DEF At
<1>4. job[p].op # "repair" /\ Agrees(k, job[p].list) /\ database[k] = Blank
    BY <1>1, <1>2 DEF Sound
<1>5. k \in DOMAIN database /\ job[p].list \subseteq Table
    BY <1>1, JobFacts DEF IInv, StoredTypes, Listed
<1>6. k \in DOMAIN database' /\ database'[k] = List(job[p].list)
    BY <1>4, <1>5 DEF WriteList
<1>7. job'[p] # NoJob =>
          /\ job'[p].at = "answer" /\ job'[p].op = job[p].op /\ job'[p].list = job[p].list
    <2>1. CASE job[p].op = "init"
        BY <2>1 DEF WriteList, IInv, ServerTypes
    <2>2. CASE job[p].op \in {"create", "drop"}
        <3>1. job[p] \in Commands
            BY <1>1, <2>2, JobFacts DEF IInv
        <3>2. job'[p] = [job[p] EXCEPT !.at = "answer"]
            BY <2>2 DEF WriteList, IInv, ServerTypes
        <3> QED
            BY <3>1, <3>2 DEF Commands
    <2> QED
        BY <1>1, <1>4, <2>1, <2>2, JobFacts DEF IInv
<1> DEFINE S == job[p].list
<1>8. (\A t \in Table : <<k, t>> \in acked' => t \in S) /\ \A t \in S : <<k, t>> \in asked'
    BY <1>1, <1>4 DEF Agrees
<1>9. job'[p] # NoJob => Agrees(k, job[p].list)'
    BY <1>7, <1>8 DEF Agrees
<1>10. \E T \in SUBSET Table : database'[k] = List(T) /\ Agrees(k, T)'
    <2>1. PICK T : T = S
        OBVIOUS
    <2>2. Agrees(k, T)'
        BY <1>8, <2>1 DEF Agrees
    <2> QED
        BY <1>5, <1>6, <2>1, <2>2
<1> QED
    BY <1>3, <1>4, <1>6, <1>7, <1>9, <1>10, SoundAgain DEF At, List

\* The table of an answer is in the list, or is not.
LEMMA AnswerSound ==
    ASSUME IInv, NEW p \in Process, Answer(p), NEW k \in RealKeys \ harmed', k = key[p]
    PROVE  Sound(k)'
<1>1. /\ job[p].at = "answer" /\ job[p] # NoJob /\ UNCHANGED <<key, database, harmed>>
      /\ job'[p] = NoJob /\ \A q \in Process \ {p} : job'[q] = job[q]
    BY DEF Answer, IInv, ServerTypes, NoJob, server
<1>2. Sound(k) /\ At(p, k) /\ \A q \in Process \ {p} : ~At(q, k)
    BY <1>1, Alone DEF At
<1>3. \A q \in Process \ {p} : ~At(q, k)'
    BY <1>1, <1>2 DEF At
<1>4. Agrees(k, job[p].list) /\ database[k] = List(job[p].list)
    BY <1>1, <1>2 DEF Sound
<1>5. /\ job[p].list \subseteq Table /\ job[p].op \in {"create", "drop"}
      /\ job[p].op = "create" <=> job[p].table \in job[p].list
    BY <1>1, JobFacts DEF IInv
<1> DEFINE S == job[p].list
<1>6. (\A t \in Table : <<k, t>> \in acked' => t \in S) /\ \A t \in S : <<k, t>> \in asked'
    <2>1. (\A t \in Table : <<k, t>> \in acked => t \in S) /\ \A t \in S : <<k, t>> \in asked
        BY <1>4 DEF Agrees
    <2>2. CASE job[p].op = "create"
        <3>1. acked' = acked \cup {<<k, job[p].table>>} /\ asked' = asked
            BY <2>2 DEF Answer, Pairs
        <3> QED
            BY <1>5, <2>1, <2>2, <3>1
    <2>3. CASE job[p].op = "drop"
        <3>1. acked' = acked /\ asked' = asked \ {<<k, job[p].table>>}
            BY <2>3 DEF Answer, Pairs
        <3> QED
            BY <1>5, <2>1, <2>3, <3>1
    <2> QED
        BY <1>5, <2>2, <2>3
<1>7. k \in DOMAIN database
    BY <1>1, <1>5, JobFacts, ListOfServer DEF IInv
<1>8. \E T \in SUBSET Table : database'[k] = List(T) /\ Agrees(k, T)'
    <2>1. PICK T : T = S
        OBVIOUS
    <2>2. Agrees(k, T)'
        BY <1>6, <2>1 DEF Agrees
    <2> QED
        BY <1>1, <1>4, <1>5, <2>1, <2>2
<1>9. ~At(p, k)'
    BY <1>1 DEF At
<1> QED
    BY <1>1, <1>3, <1>7, <1>8, <1>9, SoundAgain DEF List

\* Every action leaves the unharmed lists sound: one step each.
LEMMA SoundStep ==
    ASSUME IInv, [Next]_vars
    PROVE  UnharmedAreSound'
<1> SUFFICES ASSUME NEW k \in RealKeys \ harmed'
             PROVE  Sound(k)'
    BY DEF UnharmedAreSound
<1>1. CASE UNCHANGED vars
    BY <1>1, AdvanceSound DEF vars, server
<1>2. ASSUME NEW p \in Process, Gone(p), UNCHANGED stored
      PROVE  Sound(k)'
    BY <1>2, GoneSound
<1>3. ASSUME NEW p \in Process,
             \/ Start(p) \/ loadFromEnv(p)
             \/ (ReadFile(p) \/ Listen(p) \/ StartSync(p)) /\ ~Gone(p)
      PROVE  Sound(k)'
    <2>1. UNCHANGED <<key, job, stored, harmed>>
        BY <1>3 DEF Start, loadFromEnv, ReadFile, Listen, StartSync
    <2> QED
        BY <2>1, AdvanceSound
<1>4. ASSUME NEW p \in Process, OpenList(p) \/ WriteList(p) \/ Answer(p)
      PROVE  Sound(k)'
    <2>1. CASE k = key[p]
        BY <1>4, <2>1, OpenListSound, WriteListSound, AnswerSound
    <2>2. CASE k # key[p]
        <3>1. UNCHANGED key /\ harmed' = harmed /\ \A q \in Process \ {p} : job'[q] = job[q]
            BY <1>4 DEF OpenList, WriteList, Answer, WillWrite, server, IInv, ServerTypes
        <3>2. /\ k \in DOMAIN database' <=> k \in DOMAIN database
              /\ k \in DOMAIN database => database'[k] = database[k]
            BY <1>4, <2>2 DEF OpenList, WriteList, Answer
        <3>3. \E t : /\ asked \ Pairs(p, t) \subseteq asked'
                     /\ acked' \subseteq acked \cup Pairs(p, t)
            <4>1. asked \ Pairs(p, job[p].table) \subseteq asked'
                BY <1>4 DEF OpenList, WriteList, Answer
            <4>2. acked' \subseteq acked \cup Pairs(p, job[p].table)
                BY <1>4 DEF OpenList, WriteList, Answer
            <4> QED
                BY <4>1, <4>2
        <3> QED
            BY <2>2, <3>1, <3>2, <3>3, OthersSound
    <2> QED
        BY <2>1, <2>2
<1> QED
    BY <1>1, <1>2, <1>3, <1>4, ServicesSound, CommandSound, GiveUpSound
       DEF Next, ReadFile, Listen, StartSync, MainReturns, Killed

-----------------------------------------------------------------------------
\* The invariant is inductive.
LEMMA IInvInductive == IInv /\ [Next]_vars => IInv'
BY ServersStep, StoredStep, SoundStep DEF IInv

\* Every server at work has a key of its texts with a list, and a list that nothing
\* harmed has what was acknowledged and nothing that was not asked for, in its file or
\* in the hand of the one command that has truncated it.
THEOREM KeyInvariant == Spec => []IInv
BY InitIInv, IInvInductive, PTL DEF Spec

\* A server whose texts are long enough lists what was acknowledged under them, and
\* nothing that nobody asked for, whatever was started, killed and configured before
\* and beside it, unless its own list was harmed or is being written.
THEOREM TablesComeBack == Spec => []AcknowledgedTablesReturn
<1>1. IInv => AcknowledgedTablesReturn
    <2> SUFFICES ASSUME IInv, NEW p \in Process
                 PROVE  LET c == config[p]
                            k == key[p]
                            Under(pairs) == {t \in Table :
                                \E a \in pairs : HeadsOf(a[1]) = Heads(c) /\ a[2] = t} IN
                        (/\ k \in DOMAIN database \ harmed /\ database[k] # Blank
                         /\ Size[c.passphrase] >= 15 /\ Size[c.iv] >= 15) =>
                            /\ database[k].text = "list"
                            /\ Under(acked) \subseteq database[k].tables
                            /\ database[k].tables \subseteq Under(asked)
        BY DEF AcknowledgedTablesReturn
    <2> DEFINE c == config[p]
               k == key[p]
               Under(pairs) == {t \in Table :
                   \E a \in pairs : HeadsOf(a[1]) = Heads(c) /\ a[2] = t}
    <2>1. SUFFICES ASSUME k \in DOMAIN database \ harmed, database[k] # Blank,
                          Size[c.passphrase] >= 15, Size[c.iv] >= 15
                   PROVE  /\ database[k].text = "list"
                          /\ Under(acked) \subseteq database[k].tables
                          /\ database[k].tables \subseteq Under(asked)
        OBVIOUS
    <2>2. k \in RealKeys
        BY <2>1 DEF IInv, StoredTypes, DataTypes
    <2>3. pc[p] \in AtWork
        BY <2>2, KeyFacts DEF IInv, ServerTypes
    <2>4. Texts(c) /\ HeadsOf(k) = Heads(c)
        BY <2>3, KeyOfServer DEF IInv
    <2>5. Heads(c) \in LongHeads \X LongHeads
        BY <2>1, <2>4 DEF Heads, LongHeads, Texts
    <2>6. PICK S \in SUBSET Table : database[k] = List(S) /\ Agrees(k, S)
        BY <2>1, <2>2 DEF IInv, UnharmedAreSound, Sound
    <2>7. database[k].text = "list" /\ database[k].tables = S
        BY <2>6 DEF List
    <2>8. ASSUME NEW a \in acked, HeadsOf(a[1]) = Heads(c)
          PROVE  a[2] \in S
        <3>1. a[1] \in RealKeys /\ a[2] \in Table /\ a = <<a[1], a[2]>>
            BY DEF IInv, StoredTypes, DataTypes
        <3>2. a[1] = KeyOf(Heads(c)) /\ k = KeyOf(Heads(c))
            BY <2>2, <2>4, <2>5, <2>8, <3>1, KeyFacts
        <3> QED
            BY <2>6, <3>1, <3>2 DEF Agrees
    <2>9. ASSUME NEW t \in S
          PROVE  \E a \in asked : HeadsOf(a[1]) = Heads(c) /\ a[2] = t
        <3>1. <<k, t>> \in asked
            BY <2>6 DEF Agrees
        <3> QED
            BY <2>4, <3>1
    <2> QED
        BY <2>6, <2>7, <2>8, <2>9
<1> QED
    BY <1>1, KeyInvariant, PTL

\* What was acknowledged in a database nothing harmed is in its list, or in what the
\* one command writes that has truncated it.
THEOREM TablesStay == Spec => []NoTableIsDestroyed
<1>1. IInv => NoTableIsDestroyed
    <2> SUFFICES ASSUME IInv, NEW a \in acked, a[1] \notin harmed
                 PROVE  /\ a[1] \in DOMAIN database
                        /\ IF database[a[1]] = Blank
                           THEN \E p \in Process : /\ key[p] = a[1] /\ job[p].at = "write"
                                                   /\ a[2] \in job[p].list
                           ELSE /\ database[a[1]].text = "list"
                                /\ a[2] \in database[a[1]].tables
        BY DEF NoTableIsDestroyed
    <2>1. a[1] \in RealKeys /\ a[2] \in Table /\ a = <<a[1], a[2]>>
        BY DEF IInv, StoredTypes, DataTypes
    <2>2. Sound(a[1])
        BY <2>1 DEF IInv, UnharmedAreSound
    <2>3. a[1] \in DOMAIN database
        BY <2>1, <2>2 DEF Sound
    <2>4. CASE database[a[1]] = Blank
        <3>1. \A S : List(S) # Blank
            BY DEF List, Blank
        <3>2. PICK p \in Process : At(p, a[1]) /\ job[p].at = "write"
            BY <2>2, <2>3, <2>4, <3>1 DEF Sound
        <3>3. Agrees(a[1], job[p].list)
            BY <2>2, <3>2 DEF Sound
        <3> QED
            BY <2>1, <2>3, <2>4, <3>2, <3>3 DEF Agrees, At
    <2>5. CASE database[a[1]] # Blank
        <3>1. PICK S \in SUBSET Table : database[a[1]] = List(S) /\ Agrees(a[1], S)
            BY <2>2, <2>3, <2>5 DEF Sound
        <3>2. database[a[1]].text = "list" /\ database[a[1]].tables = S
            BY <3>1 DEF List
        <3> QED
            BY <2>1, <2>3, <2>5, <3>1, <3>2 DEF Agrees
    <2> QED
        BY <2>4, <2>5
<1> QED
    BY <1>1, KeyInvariant, PTL

-----------------------------------------------------------------------------
(* What a server does with its numbers.                                    *)

Numbers(c) == c.port \in Int /\ c.maxWorkers \in Int /\ c.maxTaskQueueSize \in Int

\* The numbers of a server are integers; it listens on a port its configuration
\* gives and has the threads its configuration gives.
NumberTypes ==
    /\ DOMAIN bound = Process /\ DOMAIN workers = Process
    /\ \A p \in Process : pc[p] # "down" => Numbers(config[p])
    /\ \A p \in Process : IF pc[p] \in {"sync", "waiting", "serving"}
                          THEN bound[p] \in Ports(config[p]) ELSE bound[p] = Nothing
    /\ \A p \in Process :
          workers[p] = IF pc[p] = "serving" THEN Pool(config[p].maxWorkers) ELSE 0

\* A file gives integers where it names limits.
LEMMA FileNumbers ==
    ASSUME NEW c, Numbers(c), NEW j \in Json
    PROVE  Numbers(Override(c, j))
<1>1. \A n \in DOMAIN j \cap Limits : j[n] \in Int
    BY JsonAssumption
<1> QED
    BY <1>1 DEF Numbers, Override, Setting, Limits

\* So does the environment.
LEMMA EnvironmentNumbers ==
    ASSUME NEW c, Numbers(c), NEW e, \A n \in DOMAIN e : e[n] \in Int
    PROVE  Numbers(Override(c, e))
BY DEF Numbers, Override, Setting

\* Only server p moves, and only its place, its configuration, its port and its
\* threads matter.
LEMMA NumbersStep ==
    ASSUME IInv, NumberTypes, [Next]_vars
    PROVE  NumberTypes'
<1> USE DEF IInv, ServerTypes
<1>1. CASE UNCHANGED server
    BY <1>1 DEF server, NumberTypes, Numbers, Ports, Pool
<1>2. ASSUME NEW p \in Process, Gone(p)
      PROVE  NumberTypes'
    BY <1>2 DEF Gone, NumberTypes, Numbers, Ports, Pool
<1>3. ASSUME NEW p \in Process, NEW c, Numbers(c),
             pc[p] \in {"down", "file", "env"}, NEW new \in {"file", "env", "services"},
             pc' = [pc EXCEPT ![p] = new], config' = [config EXCEPT ![p] = c],
             UNCHANGED <<bound, workers>>
      PROVE  NumberTypes'
    BY <1>3 DEF NumberTypes, Numbers, Ports, Pool
<1>4. ASSUME NEW p \in Process, Start(p)
      PROVE  NumberTypes'
    <2>1. Numbers(Defaults)
        BY DEF Numbers, Defaults
    <2> QED
        BY <1>3, <1>4, <2>1 DEF Start
<1>5. ASSUME NEW p \in Process, ReadFile(p), ~Gone(p)
      PROVE  NumberTypes'
    <2>0. PICK file \in Json \cup {NoFile} :
             config' = [config EXCEPT ![p] = IF file = NoFile THEN @ ELSE Override(@, file)]
        BY <1>5 DEF ReadFile
    <2> DEFINE c == IF file = NoFile THEN config[p] ELSE Override(config[p], file)
    <2>1. /\ pc[p] = "file" /\ pc' = [pc EXCEPT ![p] = "env"]
          /\ config' = [config EXCEPT ![p] = c] /\ UNCHANGED <<bound, workers>>
        BY <1>5, <2>0 DEF ReadFile
    <2>2. Numbers(c)
        BY <2>1, FileNumbers DEF NumberTypes
    <2> HIDE DEF c
    <2> QED
        BY <1>3, <2>1, <2>2
<1>6. ASSUME NEW p \in Process, loadFromEnv(p)
      PROVE  NumberTypes'
    <2>1. PICK e \in Environment :
             LET accepted == {n \in DOMAIN e : Accepted(n, e[n])}
             IN config' = [config EXCEPT ![p] = Override(@, [n \in accepted |-> e[n]])]
        BY <1>6 DEF loadFromEnv
    <2> DEFINE s == [n \in {n \in DOMAIN e : Accepted(n, e[n])} |-> e[n]]
               c == Override(config[p], s)
    <2>2. \A n \in DOMAIN s : s[n] \in Int
        <3>1. \A n \in DOMAIN e : e[n] \in Int
            BY <2>1, EnvironmentFacts
        <3> QED
            BY <3>1
    <2>3. Numbers(c)
        <3> HIDE DEF s
        <3> QED
            BY <1>6, <2>2, EnvironmentNumbers DEF loadFromEnv, NumberTypes
    <2>4. /\ config' = [config EXCEPT ![p] = c] /\ pc[p] = "env"
          /\ pc' = [pc EXCEPT ![p] = "services"] /\ UNCHANGED <<bound, workers>>
        BY <1>6, <2>1 DEF loadFromEnv
    <2> HIDE DEF c
    <2> QED
        BY <1>3, <2>3, <2>4
<1>7. ASSUME NEW p \in Process, Services(p)
      PROVE  NumberTypes'
    <2>1. /\ pc[p] = "services" /\ UNCHANGED <<config, bound, workers>>
          /\ \E new \in {"list", "socket"} : pc' = [pc EXCEPT ![p] = new]
        BY <1>7 DEF Services
    <2> QED
        BY <2>1 DEF NumberTypes, Numbers, Ports, Pool
<1>10. ASSUME NEW p \in Process, WriteList(p)
       PROVE  NumberTypes'
    <2>1. CASE UNCHANGED pc
        BY <1>1, <1>10, <2>1 DEF WriteList, server
    <2>2. CASE job[p].op = "init" /\ pc' = [pc EXCEPT ![p] = "socket"]
        <3>1. pc[p] = "list" /\ UNCHANGED <<config, bound, workers>>
            BY <1>10, <2>2, JobFacts DEF WriteList, NoJob
        <3> QED
            BY <2>2, <3>1 DEF NumberTypes, Numbers, Ports, Pool
    <2> QED
        BY <1>10, <2>1, <2>2 DEF WriteList
<1>8. ASSUME NEW p \in Process, Listen(p), ~Gone(p)
      PROVE  NumberTypes'
    BY <1>8 DEF Listen, NumberTypes, Numbers, Ports, Pool
<1>9. ASSUME NEW p \in Process, StartSync(p), ~Gone(p)
      PROVE  NumberTypes'
    BY <1>9 DEF StartSync, NumberTypes, Numbers, Ports, Pool
<1> QED
    BY <1>1, <1>2, <1>4, <1>5, <1>6, <1>7, <1>8, <1>9, <1>10
       DEF Next, vars, create, drop, loadConfigRepairs, Loads, OpenList, GiveUp, Answer,
           MainReturns, Killed

\* A server has the port and the threads its configuration gives.
THEOREM NumberInvariant == Spec => []NumberTypes
<1>1. Init => NumberTypes
    BY DEF Init, NumberTypes
<1> QED
    BY <1>1, NumbersStep, KeyInvariant, PTL DEF Spec

\* The sixteen bits of a port.
LEMMA PortFacts ==
    ASSUME NEW c, c.port \in Int, NEW b \in Ports(c)
    PROVE  b = c.port <=> (0 < c.port /\ c.port < 65536)
<1>1. ASSUME NEW n \in Int
      PROVE  /\ n % 65536 \in Int /\ 0 <= n % 65536 /\ n % 65536 < 65536
             /\ 0 <= n /\ n < 65536 => n % 65536 = n
    <2>1. n % 65536 \in Int /\ 0 <= n % 65536 /\ n % 65536 < 65536
        OBVIOUS
    <2>2. ASSUME 0 <= n, n < 65536 PROVE n % 65536 = n
        BY <2>2
    <2> QED
        BY <2>1, <2>2
<1>2. CASE c.port % 65536 = 0
    <2>1. b \in KernelPort
        BY <1>2 DEF Ports
    <2>2. b \in Int /\ 0 < b /\ b < 65536
        BY <2>1, PortAssumption
    <2>3. ~(0 < c.port /\ c.port < 65536)
        BY <1>1, <1>2
    <2> QED
        BY <2>2, <2>3
<1>3. CASE c.port % 65536 # 0
    <2>1. b = c.port % 65536
        BY <1>3 DEF Ports
    <2> QED
        BY <1>1, <1>3, <2>1
<1> QED
    BY <1>2, <1>3

\* A server with epoll does what it is configured to do exactly if isValid holds.
THEOREM ValidServersAreUsable == Spec => []ValidIffUsable
<1>1. IInv /\ NumberTypes => ValidIffUsable
    <2> SUFFICES ASSUME IInv, NumberTypes, NEW p \in Process, pc[p] = "serving",
                        Size[config[p].passphrase] > 0, Size[config[p].iv] > 0
                 PROVE  isValid(config[p]) <=>
                            /\ Answers(p) /\ bound[p] = config[p].port
                            /\ \/ workers[p] = config[p].maxWorkers
                               \/ workers[p] = 64 /\ config[p].maxWorkers > 64
        BY DEF ValidIffUsable
    <2>1. Numbers(config[p]) /\ bound[p] \in Ports(config[p])
        BY DEF NumberTypes
    <2>2. bound[p] = config[p].port <=> (0 < config[p].port /\ config[p].port < 65536)
        BY <2>1, PortFacts DEF Numbers
    <2>3. workers[p] = Pool(config[p].maxWorkers)
        BY DEF NumberTypes
    <2>4. /\ workers[p] > 0 <=> config[p].maxWorkers > 0
          /\ config[p].maxWorkers > 0 =>
                \/ workers[p] = config[p].maxWorkers
                \/ workers[p] = 64 /\ config[p].maxWorkers > 64
        BY <2>1, <2>3 DEF Numbers, Pool
    <2>5. Answers(p) <=> (config[p].maxWorkers > 0 /\ config[p].maxTaskQueueSize > 0)
        BY <2>4 DEF Answers
    <2>6. isValid(config[p]) <=> /\ bound[p] = config[p].port
                                /\ config[p].maxWorkers > 0 /\ config[p].maxTaskQueueSize > 0
        BY <2>1, <2>2 DEF isValid, Numbers
    <2> QED
        BY <2>4, <2>5, <2>6
<1> QED
    BY <1>1, KeyInvariant, NumberInvariant, PTL

\* Only reading config.json can make a valid configuration invalid.
THEOREM ValidStaysValid == Spec => OnlyTheFileInvalidates
<1> DEFINE A == \A p \in Process :
        pc[p] # "file" /\ pc[p] # "down" /\ pc'[p] # "down" /\ isValid(config[p])
            => isValid(config'[p])
<1>1. IInv /\ [Next]_vars => [A]_vars
    <2> SUFFICES ASSUME IInv, Next, NEW p \in Process, pc[p] \notin {"file", "down"},
                        pc'[p] # "down", isValid(config[p])
                 PROVE  isValid(config'[p])
        OBVIOUS
    <2>1. CASE config' = config
        BY <2>1
    <2>2. ASSUME NEW q \in Process, Gone(q) \/ Start(q) \/ ReadFile(q)
          PROVE  config'[p] = config[p]
        <3>1. q # p => config'[p] = config[p]
            BY <2>2 DEF Gone, Start, ReadFile, IInv, ServerTypes
        <3>2. CASE q = p
            <4>1. ~Gone(p)
                BY DEF Gone, IInv, ServerTypes
            <4> QED
                BY <2>2, <3>2, <4>1 DEF Start, ReadFile
        <3> QED
            BY <3>1, <3>2
    <2>3. ASSUME NEW q \in Process, loadFromEnv(q)
          PROVE  isValid(config'[p])
        <3>1. PICK e \in Environment :
                 LET accepted == {n \in DOMAIN e : Accepted(n, e[n])}
                 IN config' = [config EXCEPT ![q] = Override(@, [n \in accepted |-> e[n]])]
            BY <2>3 DEF loadFromEnv
        <3>2. CASE p # q
            BY <3>1, <3>2 DEF IInv, ServerTypes
        <3>3. CASE p = q
            <4> DEFINE s == [n \in {n \in DOMAIN e : Accepted(n, e[n])} |-> e[n]]
            <4>1. config'[p] = Override(config[p], s)
                BY <3>1, <3>3 DEF IInv, ServerTypes
            <4>2. /\ DOMAIN s \subseteq Limits
                  /\ \A n \in DOMAIN s : s[n] \in Int /\ Accepted(n, s[n])
                <5>1. DOMAIN e \subseteq Limits /\ \A n \in DOMAIN e : e[n] \in Int
                    BY <3>1, EnvironmentFacts
                <5> QED
                    BY <5>1
            <4> HIDE DEF s
            <4>3. /\ config'[p].passphrase = config[p].passphrase
                  /\ config'[p].iv = config[p].iv
                BY <4>1, <4>2 DEF Override, Setting, Limits
            <4>4. config'[p].port > 0 /\ config'[p].port <= 65535
                <5>1. CASE "port" \in DOMAIN s
                    <6>1. s["port"] \in Int /\ s["port"] > 0 /\ s["port"] <= 65535
                        BY <4>2, <5>1 DEF Accepted
                    <6>2. config'[p].port = s["port"]
                        BY <4>1, <5>1 DEF Override, Setting
                    <6> QED
                        BY <6>1, <6>2
                <5>2. CASE "port" \notin DOMAIN s
                    BY <4>1, <5>2 DEF Override, Setting, isValid
                <5> QED
                    BY <5>1, <5>2
            <4>5. config'[p].maxWorkers > 0 /\ config'[p].maxTaskQueueSize > 0
                BY <4>1, <4>2 DEF Override, Setting, Accepted, isValid
            <4> QED
                BY <4>3, <4>4, <4>5 DEF isValid
        <3> QED
            BY <3>2, <3>3
    <2> QED
        BY <2>1, <2>2, <2>3 DEF Next, Services, Listen, StartSync, MainReturns, Killed,
            create, drop, loadConfigRepairs, Loads, OpenList, GiveUp, WriteList, Answer, server
<1> QED
    BY <1>1, KeyInvariant, PTL DEF Spec, OnlyTheFileInvalidates

-----------------------------------------------------------------------------
(* Types.                                                                  *)

Configuration == [Setting -> Int \cup Str]

\* A server has a configuration from its start to its end.
Configured ==
    /\ starts \in 0..MaxStarts
    /\ \A p \in Process : IF pc[p] = "down" THEN config[p] = Nothing
                           ELSE config[p] \in Configuration

\* The defaults are a configuration, and one with other settings is one.
LEMMA ConfigurationFacts ==
    /\ Defaults \in Configuration
    /\ \A j \in Json : \A n \in DOMAIN j : j[n] \in Int \cup Str
    /\ \A s : (\A n \in DOMAIN s : s[n] \in Int \cup Str) =>
          \A c \in Configuration : Override(c, s) \in Configuration
<1>1. Defaults \in Configuration
    BY DefaultTexts DEF Defaults, Configuration, Setting, Texts
<1>2. \A j \in Json : \A n \in DOMAIN j : j[n] \in Int \cup Str
    BY JsonAssumption
<1>3. ASSUME NEW c \in Configuration, NEW s, \A n \in DOMAIN s : s[n] \in Int \cup Str
      PROVE  Override(c, s) \in Configuration
    BY <1>3 DEF Override, Configuration
<1> QED
    BY <1>1, <1>2, <1>3

\* Only the server that moves changes its configuration: it gets one, has another
\* put over it, or is gone.
LEMMA ConfiguredStep ==
    ASSUME IInv, Configured, [Next]_vars
    PROVE  Configured'
<1> USE DEF IInv, ServerTypes
<1>1. CASE UNCHANGED <<pc, config, starts>>
    BY <1>1 DEF Configured
<1>2. ASSUME NEW p \in Process, Gone(p), UNCHANGED starts
      PROVE  Configured'
    BY <1>2 DEF Gone, Configured
<1>3. ASSUME NEW p \in Process, NEW c \in Configuration, NEW new, new # "down",
             pc' = [pc EXCEPT ![p] = new], config' = [config EXCEPT ![p] = c],
             starts' \in 0..MaxStarts
      PROVE  Configured'
    BY <1>3 DEF Configured
<1>4. ASSUME NEW p \in Process, Start(p)
      PROVE  Configured'
    <2>1. starts' \in 0..MaxStarts
        BY <1>4, StartsAssumption DEF Start, Configured
    <2> QED
        BY <1>3, <1>4, <2>1, ConfigurationFacts DEF Start
<1>5. ASSUME NEW p \in Process, ReadFile(p), ~Gone(p)
      PROVE  Configured'
    <2>0. PICK file \in Json \cup {NoFile} :
             config' = [config EXCEPT ![p] = IF file = NoFile THEN @ ELSE Override(@, file)]
        BY <1>5 DEF ReadFile
    <2> DEFINE c == IF file = NoFile THEN config[p] ELSE Override(config[p], file)
    <2>1. /\ pc[p] = "file" /\ pc' = [pc EXCEPT ![p] = "env"]
          /\ config' = [config EXCEPT ![p] = c] /\ starts' = starts
        BY <1>5, <2>0 DEF ReadFile
    <2>2. config[p] \in Configuration
        BY <2>1 DEF Configured
    <2>3. c \in Configuration
        BY <2>1, <2>2, ConfigurationFacts
    <2> HIDE DEF c
    <2> QED
        BY <1>3, <2>1, <2>3 DEF Configured
<1>6. ASSUME NEW p \in Process, loadFromEnv(p)
      PROVE  Configured'
    <2>1. PICK e \in Environment :
             LET accepted == {n \in DOMAIN e : Accepted(n, e[n])}
             IN config' = [config EXCEPT ![p] = Override(@, [n \in accepted |-> e[n]])]
        BY <1>6 DEF loadFromEnv
    <2> DEFINE s == [n \in {n \in DOMAIN e : Accepted(n, e[n])} |-> e[n]]
    <2>2. \A n \in DOMAIN s : s[n] \in Int \cup Str
        <3>1. \A n \in DOMAIN e : e[n] \in Int
            BY <2>1, EnvironmentFacts
        <3> QED
            BY <3>1
    <2>3. config' = [config EXCEPT ![p] = Override(config[p], s)]
        BY <2>1
    <2>4. starts' = starts /\ pc[p] = "env" /\ pc' = [pc EXCEPT ![p] = "services"]
        BY <1>6 DEF loadFromEnv
    <2> HIDE DEF s
    <2>5. Override(config[p], s) \in Configuration
        BY <2>2, <2>4, ConfigurationFacts DEF Configured
    <2> QED
        BY <1>3, <2>3, <2>4, <2>5 DEF Configured
<1>7. ASSUME NEW p \in Process, pc[p] # "down", UNCHANGED <<config, starts>>,
             NEW new \in AtWork, pc' = [pc EXCEPT ![p] = new]
      PROVE  Configured'
    BY <1>7 DEF Configured, AtWork
<1>8. ASSUME NEW p \in Process, Services(p) \/ Listen(p) \/ StartSync(p), ~Gone(p)
      PROVE  Configured'
    <2>1. /\ pc[p] # "down" /\ UNCHANGED <<config, starts>>
          /\ \E new \in AtWork : pc' = [pc EXCEPT ![p] = new]
        BY <1>8 DEF Services, Listen, StartSync, AtWork
    <2> QED
        BY <1>7, <2>1
<1>9. ASSUME NEW p \in Process, WriteList(p)
      PROVE  Configured'
    <2>1. CASE UNCHANGED pc
        BY <1>1, <1>9, <2>1 DEF WriteList
    <2>2. CASE job[p].op = "init" /\ pc' = [pc EXCEPT ![p] = "socket"]
        <3>1. pc[p] = "list" /\ UNCHANGED <<config, starts>>
            BY <1>9, <2>2, JobFacts DEF WriteList, NoJob
        <3> QED
            BY <1>7, <2>2, <3>1 DEF AtWork
    <2> QED
        BY <1>9, <2>1, <2>2 DEF WriteList
<1>10. ASSUME NEW p \in Process, Services(p)
       PROVE  ~Gone(p)
    <2>1. \E new \in {"list", "socket"} : pc' = [pc EXCEPT ![p] = new]
        BY <1>10 DEF Services
    <2> QED
        BY <2>1 DEF Gone
<1> QED
    BY <1>1, <1>2, <1>4, <1>5, <1>6, <1>8, <1>9, <1>10
       DEF Next, vars, server, Listen, StartSync, ReadFile, MainReturns, Killed,
           create, drop, loadConfigRepairs, Loads, OpenList, GiveUp, Answer

\* A port of a server is one that TCP knows.
LEMMA PortTypes ==
    ASSUME NEW c, Numbers(c), NEW b \in Ports(c)
    PROVE  b \in Nat /\ 0 < b /\ b < 65536
<1>1. \A n \in Int : n % 65536 \in Int /\ 0 <= n % 65536 /\ n % 65536 < 65536
    OBVIOUS
<1> QED
    BY <1>1, PortAssumption DEF Ports, Numbers

\* Every server has what its place in main says, from its start to its end.
THEOREM TypesOfServers == Spec => []StartupTypeOK
<1>1. IInv /\ NumberTypes /\ Configured => StartupTypeOK
    <2> SUFFICES ASSUME IInv, NumberTypes, Configured
                 PROVE  StartupTypeOK
        OBVIOUS
    <2>1. /\ starts \in 0..MaxStarts
          /\ DOMAIN database \subseteq AllKeys /\ harmed \subseteq AllKeys
          /\ \A k \in DOMAIN database :
                database[k] \in {Blank, Broken} \cup {List(S) : S \in SUBSET Table}
          /\ asked \cup acked \subseteq AllKeys \X Table
        <3>1. RealKeys \subseteq AllKeys
            BY KeyFacts
        <3> QED
            BY <3>1 DEF IInv, StoredTypes, DataTypes, Configured
    <2>2. ASSUME NEW p \in Process
          PROVE  /\ pc[p] \in {"down", "file", "env", "services", "list", "socket", "sync",
                                "waiting", "serving"}
                 /\ IF pc[p] \in {"list", "socket", "sync", "waiting", "serving"}
                    THEN key[p] \in AllKeys ELSE key[p] = Nothing
        <3>1. pc[p] \in AtWork => key[p] \in AllKeys
            BY KeyOfServer, KeyFacts DEF IInv
        <3> QED
            BY <3>1 DEF IInv, ServerTypes, AtWork
    <2>3. ASSUME NEW p \in Process
          PROVE  /\ pc[p] = "down" <=> config[p] = Nothing
                 /\ pc[p] # "down" => /\ {config[p].passphrase, config[p].iv} \subseteq Str
                                      /\ {config[p][n] : n \in Limits} \subseteq Int
        <3>1. pc[p] = "down" <=> config[p] = Nothing
            BY NothingAssumption DEF Configured, Configuration
        <3>2. pc[p] # "down" => Texts(config[p]) /\ Numbers(config[p])
            BY DEF IInv, ServerTypes, NumberTypes
        <3> QED
            BY <3>1, <3>2 DEF Texts, Numbers, Limits
    <2>4. ASSUME NEW p \in Process
          PROVE  IF pc[p] \in {"sync", "waiting", "serving"}
                 THEN bound[p] \in Nat /\ 0 < bound[p] /\ bound[p] < 65536
                 ELSE bound[p] = Nothing
        BY PortTypes DEF NumberTypes
    <2>5. ASSUME NEW p \in Process
          PROVE  workers[p] \in 0..64 /\ (pc[p] # "serving" => workers[p] = 0)
        BY DEF NumberTypes, Numbers, Pool
    <2>6. ASSUME NEW p \in Process, job[p] # NoJob
          PROVE  /\ job[p].at \in {"open", "write", "answer"} /\ job[p].list \subseteq Table
                 /\ IF job[p].op = "init" THEN pc[p] = "list"
                    ELSE /\ job[p].op \in {"create", "drop", "repair"}
                         /\ job[p].table \in Table /\ Answers(p)
        <3>1. /\ job[p].at \in {"open", "write", "answer"} /\ job[p].list \subseteq Table
              /\ job[p].op = "init" => pc[p] = "list"
              /\ job[p].op \in {"create", "drop"} => job[p] \in Commands /\ Answers(p)
              /\ job[p].op = "repair" => job[p] \in Repairs /\ Answers(p)
              /\ job[p].op \in {"init", "create", "drop", "repair"}
            BY <2>6, JobFacts DEF IInv
        <3> QED
            BY <3>1, JobKinds
    <2> QED
        BY <2>1, <2>2, <2>3, <2>4, <2>5, <2>6 DEF StartupTypeOK
<1>2. Init => Configured
    BY StartsAssumption DEF Init, Configured
<1> QED
    BY <1>1, <1>2, ConfiguredStep, KeyInvariant, NumberInvariant, PTL DEF Spec
=============================================================================
