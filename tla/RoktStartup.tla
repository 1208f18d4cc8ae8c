---------------------------- MODULE RoktStartup -----------------------------
(***************************************************************************)
(* How a server comes up: Config (src/app/lib/Config.cpp: defaults, then   *)
(* config.json, then the environment), the services of main                *)
(* (src/app/src/main.cpp) with the database their key designates, the      *)
(* listening socket and the constructor of SyncService; and how it ends    *)
(* and comes up again, possibly beside another one: the socket is opened   *)
(* with SO_REUSEPORT, so bind() does not refuse a second server.           *)
(*                                                                         *)
(* The directory of the database and the file of its list are named by     *)
(* encrypting fixed names, so other key bytes designate another database;  *)
(* that no two keys give the same names is assumed.  AES-128 takes sixteen *)
(* bytes from data() of the passphrase and of the IV.  What lies behind a  *)
(* shorter text and its terminating zero is memory nobody wrote: any       *)
(* member of Rest, the same as long as the process lives.                  *)
(*                                                                         *)
(* A database is the file of its list of tables: the constructor of        *)
(* RoktService, create, drop and loadConfig (src/app/src/RoktService.cpp)  *)
(* load it, and write it by truncating it first, with nothing that keeps   *)
(* two servers apart.  A server runs one command here at a time: what its  *)
(* workers do to each other is what two servers do, and what RoktStore     *)
(* shows step by step, with the directories and the rows.                  *)
(***************************************************************************)
EXTENDS Integers

CONSTANTS
    Process,      \* the servers started in one directory, one or more at a time
    Table,        \* names of tables
    Str,          \* texts used as passphrase or IV
    Size,         \* Size[s]: the length of s
    Head,         \* Head[s]: the first sixteen bytes of s
    Rest,         \* what uninitialised memory may hold
    NoRest,       \* nothing of it is read
    Json,         \* the settings config.json may hold, each a function
    NoFile,       \* there is no config.json
    Malformed,    \* it does not parse, or a setting has the wrong type
    Environment,  \* the numbers std::atoi makes of the ROKT_ variables that are set
    KernelPort,   \* the ports the kernel chooses from for port 0
    Nothing,      \* no port, no key, no configuration
    MaxStarts     \* bound: how many times a server is started

Setting == {"passphrase", "iv", "port", "maxWorkers", "maxTaskQueueSize"}
Limits == {"port", "maxWorkers", "maxTaskQueueSize"}

ASSUME TextAssumption ==
    /\ {"default_passphrase", "default_iv"} \subseteq Str
    /\ Size["default_passphrase"] = 18 /\ Size["default_iv"] = 10
    /\ \A s \in Str : Size[s] \in Nat /\ (Size[s] <= 16 => Head[s] = s)

ASSUME JsonAssumption ==
    \A j \in Json : /\ DOMAIN j \subseteq Setting
                    /\ \A n \in DOMAIN j \cap Limits : j[n] \in Int
                    /\ \A n \in DOMAIN j \ Limits : j[n] \in Str

ASSUME EnvironmentAssumption ==
    \A e \in Environment : /\ DOMAIN e \subseteq Limits
                           /\ \A n \in DOMAIN e : e[n] \in Int

\* What stands for no configuration is none.
ASSUME NothingAssumption == Nothing \notin [Setting -> Int \cup Str]

ASSUME PortAssumption == \A n \in KernelPort : n \in Int /\ 0 < n /\ n < 65536

ASSUME StartsAssumption == MaxStarts \in Nat

VARIABLES
    pc,         \* pc[p]: the next thing main of server p does
    config,     \* config[p]: its Config
    key,        \* key[p]: the bytes its cipher uses
    bound,      \* bound[p]: the port it listens on
    workers,    \* workers[p]: how many worker threads it has
    job,        \* job[p]: what it is doing to the list of its database, or NoJob
    database,   \* database[k]: the list in the database of key k, if there is one
    asked,      \* history: <<key, table>> a CREATE has asked for, no DELETE answered since
    acked,      \* history: <<key, table>> a CREATE was answered, no DELETE asked for since
    harmed,     \* history: keys whose list two commands used at once, or a command
                \* could not open or was ended in the middle of writing
    starts      \* how many servers were started (bounded)

server == <<pc, config, key, bound, workers>>
stored == <<database, asked, acked>>
vars   == <<server, job, stored, harmed, starts>>

NoJob == [at |-> "none"]

\* What the file of a list holds: a list, nothing when it has just been truncated, or
\* a text over the rest of a longer one, which does not parse.
List(S) == [text |-> "list", tables |-> S]
Blank   == [text |-> "blank", tables |-> {}]
Broken  == [text |-> "broken", tables |-> {}]

-----------------------------------------------------------------------------
(* Config *)

Defaults == [passphrase |-> "default_passphrase", iv |-> "default_iv",
             port |-> 8080, maxWorkers |-> 8, maxTaskQueueSize |-> 100]

\* Settings of the second where it has them, of the first elsewhere.
Override(c, s) == [n \in Setting |-> IF n \in DOMAIN s THEN s[n] ELSE c[n]]

\* Variant: loadFromEnv does not look at the upper end of the ports.
AcceptedAnyPort(n, x) == x > 0

\* What loadFromEnv accepts.
Accepted(n, x) == x > 0 /\ (n = "port" => x <= 65535)

\* Variant: port 0 passes the test of the range.
isValidZero(c) ==
    /\ Size[c.passphrase] > 0 /\ Size[c.iv] > 0
    /\ c.port >= 0 /\ c.port <= 65535
    /\ c.maxWorkers > 0 /\ c.maxTaskQueueSize > 0

isValid(c) ==
    /\ Size[c.passphrase] > 0 /\ Size[c.iv] > 0
    /\ c.port > 0 /\ c.port <= 65535
    /\ c.maxWorkers > 0 /\ c.maxTaskQueueSize > 0

\* Variant: the cipher takes keys and blocks of 32 bytes.
KeyBytesLong(s) == {Head[s]} \X (IF Size[s] >= 31 THEN {NoRest} ELSE Rest)

\* The bytes the cipher reads for a text.  The terminating zero is one of them.
KeyBytes(s) == {Head[s]} \X (IF Size[s] >= 15 THEN {NoRest} ELSE Rest)

Keys(c) == KeyBytes(c.passphrase) \X KeyBytes(c.iv)

Heads(c) == <<Head[c.passphrase], Head[c.iv]>>
HeadsOf(k) == <<k[1][1], k[2][1]>>

AllKeys == LET Bytes == {Head[s] : s \in Str} \X (Rest \cup {NoRest}) IN Bytes \X Bytes

\* Texts with the same first sixteen bytes have all fifteen of them, or none has.
ASSUME KeyAssumption ==
    /\ NoRest \notin Rest /\ Nothing \notin AllKeys
    /\ \A s, t \in Str : Head[s] = Head[t] => (Size[s] >= 15 <=> Size[t] >= 15)

-----------------------------------------------------------------------------
(* A server is started and configures itself *)

Init ==
    /\ starts = 0
    /\ pc = [p \in Process |-> "down"]
    /\ config = [p \in Process |-> Nothing] /\ key = config /\ bound = config
    /\ workers = [p \in Process |-> 0] /\ job = [p \in Process |-> NoJob]
    /\ database = [k \in {} |-> {}] /\ asked = {} /\ acked = {} /\ harmed = {}

Start(p) ==
    /\ pc[p] = "down" /\ starts < MaxStarts
    /\ starts' = starts + 1
    /\ pc' = [pc EXCEPT ![p] = "file"]
    /\ config' = [config EXCEPT ![p] = Defaults]
    /\ UNCHANGED <<key, bound, workers, job, stored, harmed>>

\* The process is gone, with all it had in memory: a list it has truncated and not
\* written stays empty.
Gone(p) ==
    /\ job' = [job EXCEPT ![p] = NoJob]
    /\ harmed' = harmed \cup {k \in {key[p]} : job[p].at = "write"}
    /\ pc' = [pc EXCEPT ![p] = "down"] /\ workers' = [workers EXCEPT ![p] = 0]
    /\ config' = [config EXCEPT ![p] = Nothing]
    /\ key' = [key EXCEPT ![p] = Nothing] /\ bound' = [bound EXCEPT ![p] = Nothing]

\* The settings of config.json, which the operator may have written, damaged or
\* removed since another server read it; main does not catch what a damaged one throws.
ReadFile(p) ==
    /\ pc[p] = "file"
    /\ \E file \in Json \cup {NoFile, Malformed} :
       \/ /\ file # Malformed
          /\ config' = [config EXCEPT ![p] = IF file = NoFile THEN @ ELSE Override(@, file)]
          /\ pc' = [pc EXCEPT ![p] = "env"]
          /\ UNCHANGED <<key, bound, workers, job, harmed>>
       \/ file = Malformed /\ Gone(p)
    /\ UNCHANGED <<stored, starts>>

\* The environment of a process does not change while it runs.
loadFromEnv(p) ==
    /\ pc[p] = "env"
    /\ \E e \in Environment :
        LET accepted == {n \in DOMAIN e : Accepted(n, e[n])}
        IN config' = [config EXCEPT ![p] = Override(@, [n \in accepted |-> e[n]])]
    /\ pc' = [pc EXCEPT ![p] = "services"]
    /\ UNCHANGED <<key, bound, workers, job, stored, harmed, starts>>

-----------------------------------------------------------------------------
(* main: the services, the socket, the threads *)

\* Variant: the list is written without looking.
MissingAlways(k) == TRUE

\* What the constructor of RoktService looks for.
Missing(k) == k \notin DOMAIN database

\* Another server is in a command on the list of k.
Busy(p, k) == \E q \in Process \ {p} : key[q] = k /\ job[q] # NoJob

\* EncryptService, and RoktService up to its test: where there is no list, an empty
\* one will be written.
Services(p) ==
    /\ pc[p] = "services"
    /\ \E k \in Keys(config[p]) :
        /\ key' = [key EXCEPT ![p] = k]
        /\ \/ /\ Missing(k)
              /\ job' = [job EXCEPT ![p] = [at |-> "open", op |-> "init", list |-> {}]]
              /\ pc' = [pc EXCEPT ![p] = "list"]
              /\ harmed' = harmed \cup {d \in {k} : Busy(p, d)}
           \/ /\ ~Missing(k)
              /\ pc' = [pc EXCEPT ![p] = "socket"]
              /\ UNCHANGED <<job, harmed>>
    /\ UNCHANGED <<config, bound, workers, stored, starts>>

\* htons takes the port as 16 bits; for 0 bind() takes a free one.
Ports(c) == LET n == c.port % 65536 IN IF n = 0 THEN KernelPort ELSE {n}

\* socket(), setsockopt(), bind() or listen() may fail: main returns 1.
Listen(p) ==
    /\ pc[p] = "socket"
    /\ \/ /\ \E n \in Ports(config[p]) : bound' = [bound EXCEPT ![p] = n]
          /\ pc' = [pc EXCEPT ![p] = "sync"]
          /\ UNCHANGED <<config, key, workers, job, harmed>>
       \/ Gone(p)
    /\ UNCHANGED <<stored, starts>>

\* Variant: there is no cap.
PoolUncapped(n) == IF n > 0 THEN n ELSE 0

\* The threads the constructor of SyncService starts for maxWorkers_.
Pool(n) == IF n > 64 THEN 64 ELSE IF n > 0 THEN n ELSE 0

\* The constructor of SyncService and start().  Without epoll there are no
\* workers, start() returns and main waits for a signal.
StartSync(p) ==
    /\ pc[p] = "sync"
    /\ \/ /\ pc' = [pc EXCEPT ![p] = "serving"]
          /\ workers' = [workers EXCEPT ![p] = Pool(config[p].maxWorkers)]
          /\ UNCHANGED <<config, key, bound, job, harmed>>
       \/ /\ pc' = [pc EXCEPT ![p] = "waiting"]
          /\ UNCHANGED <<config, key, bound, workers, job, harmed>>
       \/ Gone(p)
    /\ UNCHANGED <<stored, starts>>

\* A signal ends the wait, and main returns; one ends no server that serves.
MainReturns(p) ==
    pc[p] = "waiting" /\ Gone(p) /\ UNCHANGED <<stored, starts>>

\* An exception of the file system that nothing catches ends the process as well.
Killed(p) ==
    pc[p] # "down" /\ Gone(p) /\ UNCHANGED <<stored, starts>>

-----------------------------------------------------------------------------
(* The commands, where a request is queued and a worker takes it.          *)

Answers(p) ==
    pc[p] = "serving" /\ workers[p] > 0 /\ config[p].maxTaskQueueSize > 0

Pairs(p, t) == {<<key[p], t>>}

\* The list will be written.
WillWrite(p, op, t, list) ==
    job' = [job EXCEPT ![p] = [at |-> "open", op |-> op, table |-> t, list |-> list]]

\* create and drop have loaded a list that parses: what it says is not looked at again.
Loads(p) ==
    /\ Answers(p) /\ job[p] = NoJob /\ database[key[p]].text = "list"
    /\ harmed' = harmed \cup {k \in {key[p]} : Busy(p, k)}
    /\ UNCHANGED <<server, database, starts>>

create(p) == \E t \in Table :
    /\ Loads(p) /\ t \notin database[key[p]].tables
    /\ WillWrite(p, "create", t, database[key[p]].tables \cup {t})
    /\ asked' = asked \cup Pairs(p, t) /\ UNCHANGED acked

drop(p) == \E t \in Table :
    /\ Loads(p) /\ t \in database[key[p]].tables
    /\ WillWrite(p, "drop", t, database[key[p]].tables \ {t})
    /\ acked' = acked \ Pairs(p, t) /\ UNCHANGED asked

\* loadConfig, of any command: the list does not parse, or cannot be opened for want
\* of a descriptor and is taken for a missing one.  An empty one is written first.
loadConfigRepairs(p) == \E t \in Table, op \in {"create", "repair"} :
    /\ Answers(p) /\ job[p] = NoJob
    /\ job' = [job EXCEPT ![p] = [at |-> "open", op |-> "repair", table |-> t, list |-> {},
                                  create |-> op = "create"]]
    /\ asked' = IF op = "create" THEN asked \cup Pairs(p, t) ELSE asked
    /\ harmed' = harmed \cup {key[p]}
    /\ UNCHANGED <<server, database, acked, starts>>

\* writeConfig opens the list and truncates it.
OpenList(p) ==
    /\ job[p].at = "open"
    /\ job' = [job EXCEPT ![p].at = "write"]
    /\ database' = [k \in DOMAIN database \cup {key[p]} |->
                       IF k = key[p] THEN Blank ELSE database[k]]
    /\ UNCHANGED <<server, asked, acked, harmed, starts>>

\* create and drop give up before that: 423 for the file of the table, 457 for its
\* directory.
GiveUp(p) ==
    /\ job[p].at = "open" /\ job[p].op \in {"create", "drop"}
    /\ job' = [job EXCEPT ![p] = NoJob]
    /\ UNCHANGED <<server, stored, harmed, starts>>

\* The list is written, over what another may have written since it was truncated.
\* A create goes on behind the repair; every other command finds no table.
WriteList(p) ==
    /\ job[p].at = "write"
    /\ \E new \in {List(job[p].list), Broken} :
        /\ database[key[p]] = Blank => new # Broken
        /\ database' = [database EXCEPT ![key[p]] = new]
    /\ \/ /\ job[p].op = "init"
          /\ job' = [job EXCEPT ![p] = NoJob] /\ pc' = [pc EXCEPT ![p] = "socket"]
       \/ /\ job[p].op = "repair"
          /\ IF job[p].create THEN WillWrite(p, "create", job[p].table, {job[p].table})
             ELSE job' = [job EXCEPT ![p] = NoJob]
          /\ UNCHANGED pc
       \/ /\ job[p].op \in {"create", "drop"}
          /\ job' = [job EXCEPT ![p].at = "answer"] /\ UNCHANGED pc
    /\ UNCHANGED <<config, key, bound, workers, asked, acked, harmed, starts>>

Answer(p) ==
    /\ job[p].at = "answer"
    /\ job' = [job EXCEPT ![p] = NoJob]
    /\ acked' = IF job[p].op = "create" THEN acked \cup Pairs(p, job[p].table) ELSE acked
    /\ asked' = IF job[p].op = "drop" THEN asked \ Pairs(p, job[p].table) ELSE asked
    /\ UNCHANGED <<server, database, harmed, starts>>

Next ==
    \E p \in Process :
        \/ Start(p) \/ ReadFile(p) \/ loadFromEnv(p) \/ Services(p) \/ Listen(p)
        \/ StartSync(p) \/ MainReturns(p) \/ Killed(p)
        \/ create(p) \/ drop(p) \/ loadConfigRepairs(p)
        \/ OpenList(p) \/ GiveUp(p) \/ WriteList(p) \/ Answer(p)

Spec == Init /\ [][Next]_vars

-----------------------------------------------------------------------------
(* Properties *)

\* The types, with what a server has at each point of main: a configuration
\* from the start, a key with its database after the services, a port after
\* listen(), threads while it serves.
StartupTypeOK ==
    /\ starts \in 0..MaxStarts
    /\ DOMAIN database \subseteq AllKeys /\ harmed \subseteq AllKeys
    /\ \A k \in DOMAIN database :
          database[k] \in {Blank, Broken} \cup {List(S) : S \in SUBSET Table}
    /\ asked \cup acked \subseteq AllKeys \X Table
    /\ \A p \in Process :
        /\ pc[p] \in {"down", "file", "env", "services", "list", "socket", "sync", "waiting",
                      "serving"}
        /\ pc[p] = "down" <=> config[p] = Nothing
        /\ pc[p] # "down" => /\ {config[p].passphrase, config[p].iv} \subseteq Str
                             /\ {config[p][n] : n \in Limits} \subseteq Int
        /\ IF pc[p] \in {"list", "socket", "sync", "waiting", "serving"}
           THEN key[p] \in AllKeys ELSE key[p] = Nothing
        /\ IF pc[p] \in {"sync", "waiting", "serving"}
           THEN bound[p] \in Nat /\ 0 < bound[p] /\ bound[p] < 65536
           ELSE bound[p] = Nothing
        /\ workers[p] \in 0..64 /\ (pc[p] # "serving" => workers[p] = 0)
        /\ job[p] # NoJob =>
              /\ job[p].at \in {"open", "write", "answer"} /\ job[p].list \subseteq Table
              /\ IF job[p].op = "init" THEN pc[p] = "list"
                 ELSE /\ job[p].op \in {"create", "drop", "repair"}
                      /\ job[p].table \in Table /\ Answers(p)

\* isValid (Config.cpp), which main only logs, is the right question: a server
\* with epoll and a text for both keys answers requests on the configured port
\* with the configured threads, up to 64, exactly if its configuration is valid.
ValidIffUsable == \A p \in Process :
    LET c == config[p] IN
    pc[p] = "serving" /\ Size[c.passphrase] > 0 /\ Size[c.iv] > 0 =>
        (isValid(c) <=> /\ Answers(p) /\ bound[p] = c.port
                        /\ \/ workers[p] = c.maxWorkers
                           \/ workers[p] = 64 /\ c.maxWorkers > 64)

\* The environment (loadFromEnv) and whatever comes after it never make a valid
\* configuration invalid: only config.json can, when it is read.
OnlyTheFileInvalidates ==
    [][\A p \in Process :
        pc[p] # "file" /\ pc[p] # "down" /\ pc'[p] # "down" /\ isValid(config[p])
            => isValid(config'[p])]_vars

\* Tables come back: a server whose passphrase and IV have fifteen bytes or more
\* lists every table acknowledged by any server with the same heads of them, and
\* none that nobody asked for, whatever other keys came in between, and wherever else
\* servers were killed.  No such promise is made of a list that was harmed, of one that
\* is being written, or where the texts are shorter, as the default IV is.
AcknowledgedTablesReturn == \A p \in Process :
    LET c == config[p]
        k == key[p]
        Under(pairs) == {t \in Table : \E a \in pairs : HeadsOf(a[1]) = Heads(c) /\ a[2] = t} IN
    (/\ k \in DOMAIN database \ harmed /\ database[k] # Blank
     /\ Size[c.passphrase] >= 15 /\ Size[c.iv] >= 15) =>
        /\ database[k].text = "list"
        /\ Under(acked) \subseteq database[k].tables
        /\ database[k].tables \subseteq Under(asked)

\* A start loses no table, whatever the configuration, beside running servers or after
\* killed ones: what was acknowledged in a database stays in its list, or in the one a
\* command has truncated the list to write, unless the list was harmed.
NoTableIsDestroyed == \A a \in acked :
    LET k == a[1] IN
    k \notin harmed =>
        /\ k \in DOMAIN database
        /\ IF database[k] = Blank
           THEN \E p \in Process : key[p] = k /\ job[p].at = "write" /\ a[2] \in job[p].list
           ELSE database[k].text = "list" /\ a[2] \in database[k].tables
=============================================================================
