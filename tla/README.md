# A TLA+ model of ROKT

ROKT is a small database server in C++: clients open a TCP connection, send one
textual command (`CREATE TABLE`, `ADD`, `GET`, `COUNT`, `CHANGE`, `REMOVE`,
`EMPTY`, `DELETE`), get one JSON answer and are disconnected. Tables are
encrypted JSON files. This directory holds TLA+ specifications of the server
(`app/src`, `app/lib` and `app/handlers` of the repository), the TLC
configurations that check them and proofs for TLAPS.

Modules read in this order: `RequestReply` and `SyncService`, `RoktServer`,
`Selection` (the rows a loop gathers, for the two that follow), `TableStore` and
`RoktStore`, `Conditions`, `QueryBuilder` and `RowCommands`, `RoktStartup`; then
the proofs: `SyncServiceProofs` and `SyncServiceRefinement`; `RoktStoreProofs`
and `RoktStoreSerialProofs`; `ConditionsProofs`, `SelectionProofs` and
`RowCommandsProofs`, which extends both; `RoktStartupProofs`.

    tlc -workers 2 -config MCSyncService.cfg MCSyncService
    tlapm SyncServiceProofs.tla

## Inventory

| Component | State | Operations | Interacts with |
|---|---|---|---|
| `SyncService` (network) | sockets, epoll set, `taskQueue_`, `running_`, `workers_` | epoll loop, accept, read and push, `workerLoop`, `stop` | clients; runs the handlers; called by `main` |
| `main` | `keep_running` | signal handler, start, wait, stop | `SyncService`, `Config` |
| `RoktService` (table list) | one configuration file `{"datasets": {name: {"type", "file"}}}` and a directory per table | `create`, `drop`, `from` | called by every handler, from any worker |
| `RoktDataset` (rows) | one encrypted file per table | `readDataset`, `writeDataset`, `insert`, `select`, `overwrite` | `EncryptService`; called by the handlers |
| command handlers | `lastError`, shared by the workers | `parse`, `handle` | table list, rows, `ConditionUtils`, answers |
| `ConditionUtils` | none | `evaluateCondition`, `evaluateConditions` | GET, REMOVE, CHANGE |
| GET pipeline and parsers | none | the token loops of GET, REMOVE, CHANGE, COUNT; group, order, limit, project, alias | `ConditionUtils`, `RoktDataset` |
| `Config` | passphrase, IV, port, pool and queue sizes | defaults, file, environment, `isValid` | `main` |
| `EncryptService` | key, IV | AES-CTR of a whole file and of the names of directories and files | `RoktDataset`, `RoktService` |
| PHP `QueryBuilder` | the text of one command | `select`, `from`, `where`, ... `get` | the server |
| `ResponseObject`, logging, `RoktData` | none that lasts | formatting, row access | handlers |

The epoll thread and the workers share the queue, under `queueMutex_` and
`queueCond_`. The workers share the files, under nothing.

What is hard here, and what makes each component correct:

* **Network.** A descriptor number is kept in a queued task, while numbers are
  reused as soon as they are closed; the backpressure sleep holds the queue
  mutex; notifications must not be lost; the queue is bounded; `stop()` races
  with everything. Correct means: one request, at most one run and one reply on
  the connection that sent it; every descriptor has exactly one responsible part
  of the program; no worker sleeps beside work; requests are finally answered
  and `stop()` returns.
* **Life cycle.** The main thread is itself the epoll thread. Correct means that
  a signal ends the server.
* **Files.** A write truncates and fills a file in two steps, a read of a
  half-written file *repairs* it by writing an empty one, and a command reads
  and writes a list and a table that other workers read and write as well; the
  process can die between any two of these steps. Correct means: a command
  running alone does what it promises; a crash costs at most the table of the
  command that was running; concurrent commands lose nothing that was
  acknowledged; no command ends the process.
* **Parsers.** The words of a command are taken one by one, a loop sometimes
  takes one too many, what is not understood is passed over, and one read may
  bring half a command. Correct means: what a client asks reaches the handler or
  is refused, and a write never runs with fewer conditions than it was given.
* **Stages of GET.** Every row that is selected is in the answer or accounted
  for; the best rows come first; `std::sort` gets an order.
* **Coming up.** A configuration has three sources and is used even when it is
  invalid; the key decides which database a server sees. Correct means: what was
  acknowledged is found again.
* **WHERE clauses.** One `bool` is passed by pointer through a chain of
  comparisons, some of which cannot be made. Correct means that it is written
  before it is read and that what is selected satisfies the clause.

`PROJECT.json` lists the components and, under `hazards`, each of these points
at its line.

## The modules

### SyncService, RequestReply

`RequestReply` is the promise to one client: connect, at most one execution, at
most one reply that answers *this* client's request, a 503 only instead of an
execution, nothing after the close. `SyncService` is the program and is checked
to implement it (`PromiseKept`: the promise's `conn` is `phase`, without the
difference between a connection in the backlog and an accepted one; `runs` and
`replies` are history variables of the model).

| Code | Model |
|---|---|
| descriptor numbers and the connections behind them | `Fd`, `Conn`, `sock` |
| the epoll set with `EPOLLONESHOT`, the array `events` | `armed`, `batch` |
| `processEpollEvents`, `handleNewConnection`, `handleClientData` | `io`; `TestRunning`, `EpollWait`, `EpollTimeout`, `Accept`, `AcceptFails`, `EpollAddFails`, `ReadFails`, `ReadRequest`, `Reject`, `Backpressure`, `Push` |
| `workerLoop` | `wpc`; `Top`, `Take`, `FindEmpty`, `Block`, `Handle`, `HandlerThrows`, `SendReply`, `CloseSocket`; `SpuriousWakeup` |
| `stop` | `StopRunning`, `StopNotify`, `StopJoin` |
| `queueMutex_` | `MutexFree`: a section of code that takes and releases the mutex without sleeping is one action; the mutex is held between actions only during the backpressure sleep and between the predicate of `queueCond_.wait` and the sleep |
| `TaskComparator` | `Tops`: any task of the highest priority |

A request is the keyword of its command (`Command[c]`); the handler's effects
are in `RoktStore`. A connection carries one request, because the server closes
after the answer. Reading is atomic: a request is there or it is not. An
exception of a handler ends the process (`up`), because `workerLoop` has no
`try`.

### RoktServer

`main` around `SyncService`: the signal handler, `start()` (the epoll loop
itself), the wait for `keep_running`, `stop()`.

### RoktStore, TableStore

`TableStore` is the abstract database: a map from the names of the tables there
are to their sequences of rows, one step and one reply code per command. `RoktStore` is the same commands as
sequences of steps on the files, one step for each system call that another
worker or a crash can observe, between which the local variables of a handler
live in `names`, `rows`, `checked` and `out`.

| Code | Model |
|---|---|
| `loadConfig` (and its repair of a list that does not parse) | `LoadConfig` |
| early returns of `create`, `drop`, `from` | `Refuse` |
| `ofstream` opened (truncates), closed (writes at offset 0) | `Open`, `Flush`, with `Overlay` when two writers overlap; `OpenFails` when the directory is gone |
| an open that fails because the clients hold every descriptor: writing throws or is answered, reading is taken for a missing file, which is written anew | `NoDescriptor`: `WriteFails`, `ReadOpenFails`, `RemoveAllFails` |
| `create` (`create_directories` looks, makes and may look again; it throws for a name no directory can have, or when a DELETE is faster; `dump` throws for a name that is not UTF-8) | `FindDirectory`, `MakeDirectory`, `DirectoryIsThere`, `CreateFile`, `SaveConfig` |
| `drop` (`remove_all`, then the list) | `Unlink`, `RemoveDirectory`, `SaveConfig` |
| `readDataset`, `readData` | `Read`, `ReadData` |
| `insert`, UNIQUE of ADD | `Probe`, `Insert`, `TestUnique` |
| handlers of GET, COUNT, REMOVE, CHANGE, EMPTY | `StartSelect`, `AnswerGet`, `AnswerCount`, `OverwriteRemove`, `OverwriteChange`, `StartEmpty` |
| the process killed and started again | `Crash`, `Restart` |

The content of a file is the text last written and the length of the file: a
shorter text laid over a longer one leaves a tail, and then the file does not
parse. An exception that no handler catches ends the process (`Die`). A file whose directory DELETE removes while it is open is written to all
the same, where nobody reads it (`out[w].to` is `"unlinked"`). A row is the value of the one field the commands look at. AES-CTR with a
fixed key and IV acts position by position and never fails, so ciphertexts
behave as their texts. The refinement maps `tables` to `Held`: what a command
would find if it began now (`View`), or, while one runs, what it found when it
began; the tables change in the step that answers.

### Conditions

`evaluateCondition` and the loop of `evaluateConditions` for one row, the
condition index and the `bool` as variables. Texts are numbers in string order;
`NumberOf` is what `std::stod` makes of a text, NaN included. The parsers let
`==`, `!=` and `HAS` through; the operators of order, which `evaluateCondition` knows too, are
never reached. `Verdict` is what the conditions of a clause mean for a
row as the loop folds them, and `DecidedByTheLast` says the loop computes it.

### QueryBuilder, RowCommands

One command of a client, from the calls of the fluent PHP builder to the answer.
`QueryBuilder` appends words as its methods do, in any order of calls;
`WriteWhere` is a client that writes OR, a second WHERE or an operator the
parsers refuse by hand. `Get` delivers the text, whole or (one `read` on a
stream) cut at any byte: behind any of its words, or in one, of which a beginning
(`Beginning`) is left.

| Code | Model |
|---|---|
| the words of the text, the position of the `istringstream` | `text`, `pos` |
| `parseCommand` of GET | `GetHead`, `WhereClause`, `MoreCondition`, `EndGetConditions`, `GroupClause`, `OrderClause`, `LimitClause`, `SkipWord`, `EndText` |
| `parseCommand` of REMOVE and CHANGE | `RemoveValue`, `RemoveWhere`, `ChangeAll`, `ChangeWhere`, `MoreCondition`, `EndConditions` |
| COUNT | `CountHead`, `CountRows`, `RefuseCount` (no colon) |
| `from` that fails | `NoTable` |
| every `return false` of a parser | `RefuseText` |
| the loop over the rows | `EvaluateRow` (the steps of `Conditions`), `EndRow`, `RefuseRow`, `EndRows`, `TakeAll` |
| `overwrite` | `Overwrite` |
| `groupBy`, `orderBy`, `applyLimit`, `applyProjection`, `applyAlias` | `GroupRows`, `OrderRows`, `LimitRows`, `ProjectRows`, `AnswerRows` |

The table is read in one step: what other workers do meanwhile is `RoktStore`.
A row is a function from fields to values of `Conditions`. A name with a point
(`Nested`) is followed into an object by `getNestedValue`, in conditions, groups and
orders; `contains` of COUNT and of the projection, and the assignment of CHANGE, mean
the field of the row that is called so, point included (`Literal`). `Kept` in
`RowCommands` is the reference for the parser of GET: it says, on the calls and
not on the words, which clauses are lost.

### RoktStartup

What comes before the first request: the constructor of `Config`,
`loadFromEnv`, the services, the socket, the constructor of `SyncService`; each
may fail, the process may be killed anywhere, several servers may be up at once
(`setsockopt` is called with `SO_REUSEADDR | SO_REUSEPORT`, which on Linux is
`SO_REUSEPORT`), and the operator may edit `config.json` between two reads of it:
what a server finds there is chosen when it reads. A database is known by the
bytes its cipher reads; a text of fewer than fifteen characters leaves some of
them to whatever is in memory (`Rest`).

| Code | Model |
|---|---|
| `Config`, `loadFromEnv`, `isValid` | `Start`, `ReadFile`, `loadFromEnv`, `isValid` |
| the services, the socket, the threads | `Services`, `Listen`, `StartSync`, `MainReturns` |
| `RoktService`: test for the list, then write an empty one | `Services`, `OpenList`, `WriteList` |
| `create`, `drop`: load the list, change it, truncate the file, write it, answer | `create`, `drop`, `GiveUp`, `OpenList`, `WriteList`, `Answer` |
| `loadConfig` that writes an empty list | `loadConfigRepairs`, `OpenList`, `WriteList` |
| the process ends | `Killed`, `Gone` |

What `create` and `drop` do besides, to directories and rows, is `RoktStore`. Here
a database is its list, and a server runs one command at a time: two workers do to
a list what two servers do. `asked` and `acked` are what clients asked for and were
answered; `harmed` are the lists on which two commands were at work at once, or that
a command could not open, or on which one was ended between truncation and write.
These are the ways in which the code loses acknowledged tables; the properties say
that there are no others.

### MC modules

`MCSyncService`, `MCSyncServiceFair`, `MCRoktServer`, `MCRoktStore`,
`MCConditions`, `MCRowCommands`, `MCRoktStartup` give the constants values; a `.cfg` gives the rest. The
specifications themselves are never redefined. Operators whose comment begins
with "Variant:" (and the section of variants in `SyncService`) are plausible
mistakes: no specification uses them, and each property is known to fail when
one of them takes the place of the operator it varies (`mutants` in
`PROJECT.json`).

## Runs

| Run | Properties | States | What it shows |
|---|---|---|---|
| `sync_pool` | `TypeOK`, `OneHolder`, `TaskOnItsOwnSocket`, `NoIdleWorkerBesideWork`, `QueueWithinLimit`, `StopDrains`, `PromiseKept` | 820,537 | descriptors, queue and wake-ups, with 503s, unknown commands, exceptions and `stop()` at any moment |
| `sync_fair` | `EveryRequestAnswered`, `LeaversAreClosed`, `StopReturns` | 34,000 | liveness through backpressure |
| `store_single` | `TypeOK`, `ListMatchesDisk`, `DamageIsLocal`, `ImplementsTables` | 1.1 million | one worker: the files implement the abstract tables; what a crash can cost |
| `store_race` | `ListedTablesWereMade`, `AbortsExplained` | 2.0 million | two workers: which tables are listed, and what ends the process |
| `where_fold` | `TypeOK`, `AbsentFieldsSelectNothing`, `ConjunctionEndsTrue`, `DecidedByTheLast` | 236,500 | what a WHERE clause guarantees |
| `row_commands` | `CommandTypeOK`, `ParsedAsAsked`, `WritesAsAsked`, `RefusalNeedsTwoWheres`, `OnlyVerdictRowsChange`, `BestRowsFirst`, `RowsAccountedFor`, `GroupsKeepValuesApart`, `SortIsStrictWeak`, `CountAgreesWithWhere` | 1.3 million | which clauses reach the handlers, and what becomes of every row |
| `startup` | `StartupTypeOK`, `ValidIffUsable`, `AcknowledgedTablesReturn`, `NoTableIsDestroyed`, `OnlyTheFileInvalidates` | 2.0 million | when a server is usable, and whether it finds its tables |
| `store_unique` | `UniqueKept` | | violated |
| `store_insert` | `AcknowledgedRowsAreKept` | | violated |
| `where_met` | `ConditionsAreMet` | | violated |
| `clause_behind_where` | `ClauseBehindWhereIsHeard` | | violated |
| `server_signal` | `SignalStopsServer` | | violated |

Bounds, and why they are enough:

* `sync_pool`: three clients on two descriptors, so a number is closed and given
  to another client while requests of the first two are in flight, and `accept`
  runs out of numbers; a queue of one task, so three clients fill it; two
  workers, so one can sleep beside the other. With `BackpressureFactor` 0 the
  threshold is 0 and the epoll thread sleeps before every push, with the mutex held:
  `QueueWithinLimit` is about what it read before the sleep. Its counters `runs` and `replies` are
  bounded by the behaviour itself. Descriptors, workers and the two clients that
  send a known command are symmetric; the third sends an unknown word.
* `sync_fair`: two clients of different priority, one worker, a queue of two and
  a threshold of one, so the sleep with the mutex held is met before the worker
  has ever waited. No symmetry is used for liveness.
* `store_single`: all commands on one table with two values and up to two rows
  (`MaxRows`), two commands on a second table, the CREATE of a third whose name is
  not UTF-8; sequences of commands of any length; two crashes (`MaxCrashes`), the
  second of which may hit the recovery from the first. No open fails
  (`MaxFailures`).
* `store_race`, `store_unique`, `store_insert`: two workers and three or four
  commands in all (`MaxCommands`); four are one to create, one to delete and two
  that run beside them. In `store_race` one open may fail, one name is too long for a
  directory and one is not UTF-8. The process is not killed there: what a kill leaves
  is in `store_single`, and the proofs have it for any number of workers.
* `where_fold`, `where_met`: every row of two fields over five values, every clause of one or
  two conditions and some of three, on five texts. The loop treats the third
  condition as the second; the proofs cover any number.
* `row_commands`: every chain of at most six calls (`MaxCalls`): head, table and
  four clauses, so that each pair of clauses meets in each order, with a third
  behind. A clause is repeated only as one of the first five calls
  (`MaxRepeatCalls` come before it), which has every clause twice in a row and
  twice around another; a text arrives cut only if it has at most four calls
  (`MaxCutCalls`), which has every clause, REMOVE with two conditions and CHANGE
  with one. Of each kind of word one may be cut: a keyword, the table, a field, a
  value, a limit, the condition of COUNT before and behind its colon; OR and AS are
  also what a cut leaves of ORDER and ASC. Limits 0 and 2 against tables of up to
  four rows; fields that are absent, null, strings, numbers, arrays or nested, and one
  that is called `d.age` itself. `clause_behind_where` is the same instance.
  The numbers are chosen so that their dumps sort the other way round than their
  values, and one text is `undefined`.
* `startup`: two servers and three starts (`MaxStarts`), so one key can be in use
  before and after another, or beside it; four kinds of `config.json`, a malformed
  one and none, with texts of length 0 to 32 around the border of fifteen, ports
  above 65535 and 0, 100 and -1 workers, a queue of 0; environments that are empty, or
  partly refused. One table and one command per server at a time are enough for what
  two commands can do to one list. Servers are symmetric, and so are the two contents
  of uninitialised memory.
* `server_signal`: one client, one worker: the behaviour needs neither.

`CHECK_DEADLOCK FALSE` is everywhere: the clients may stop sending, the bounded
commands run out, a clause is evaluated to its end, the process may have died.

### Fairness

Each thread is weakly fair in what it can do by itself (`IoSteps` for the epoll
thread; `Top`, `Block`, `Handle`, `SendReply`, `CloseSocket` for a worker, one
condition per worker), because the operating system schedules every thread.
Steps that need `queueMutex_` are strongly fair: they are enabled and disabled
as others take the mutex, and a thread that asks for it again and again finally
gets it. That is an assumption about the mutex of the platform, which makes no
promise of order; without it a worker could be overtaken for ever.
`EpollTimeout` is part of the epoll thread: the wait has a limit of one second.
Nothing is assumed of clients, of exceptions, or of spurious wake-ups. The
liveness properties leave out what excuses the server: the client left, `stop()`
was called, the process died.

### Findings

* `UniqueKept`: the UNIQUE test and the insert are two passes over an unlocked
  file; two workers both pass the test.
* `AcknowledgedRowsAreKept`: `insert` reads, appends and rewrites without a
  lock; of two concurrent ADD, both answered 2, one overwrites the other. The
  load test counts such answers as rows inserted, with ten threads.
* `ConditionsAreMet`, of single conditions: `evaluateConditions` overwrites the
  result of the first comparison with whether the comparison could be made;
  `REMOVE v IN t` removes every row that has a `name`
  (`connectors/php/doc/readme.md:238` says: the rows whose `name` is `v`).
* `ConditionsAreMet`, of conditions joined by AND: each comparison overwrites the
  result before AND looks at it, so only the last one counts. `REMOVE WHERE
  details.age IS 30 AND details.city IS Paris IN users`
  (`connectors/php/src/usage.php:152`, a GET at `:110`) removes everybody in Paris.
  `ConjunctionEndsTrue` and `DecidedByTheLast` say what is left of a conjunction.
* `ClauseBehindWhereIsHeard`: the clause of a GET right behind its conditions loses
  its first word, which the loop over the conditions has taken, although two comments
  of the parser (`GetCommandHandler.h:141`, `:146`) say that it is treated afterwards
  and the usage example and the test script write `WHERE ... GROUP BY ...`
  (`connectors/php/src/usage.php:89`, `tests/tester.php:50`). `Kept` says exactly what
  is lost, this included, and `ParsedAsAsked` that nothing else is and that the loss
  changes nothing else.
* `SignalStopsServer`: `start()` runs the epoll loop in the main thread and
  returns only after `stop()`, which is called after `start()`; a signal clears
  a flag nobody reads.

Met on the way, and stated as what the properties allow rather than as findings:
no comment, document or test was found that promises something else.

* A worker that loads the list of tables while another has truncated it replaces
  it by the empty list; the tables' directories and files stay, and a later
  CREATE of the same name finds its old rows. (`DamageIsLocal` has this as its
  one exception, `ListIsTruncated`; with two workers no crash is needed.)
* A crash in DELETE after the directory is removed leaves the table in the list.
  Each ADD, COUNT or EMPTY of it then ends the process with an uncaught
  exception, until the table is deleted again.
* CREATE ends the process for a name of more than 127 bytes (its hexadecimal form is
  no file name), for the name of the list file, for one that is not UTF-8 (the list
  cannot be dumped; the directory is made, and stays), and when a DELETE of the same
  table is between the `mkdir` and the second look of `create_directories`. So does a
  command that must write a file when no descriptor is left; GET, REMOVE and CHANGE
  catch the exception, and CREATE looks whether it could open the file of its table. `AbortsExplained` has these as the only ways.
* With no descriptor left, an `ifstream` that cannot be opened is taken for a missing
  file: the list or the table is written anew, empty.
* A GET that meets a table file while it is being written empties the table.
* The clause right behind an `ORDER BY` without ASC or DESC loses its first word as
  well.
* A text cut in the name of its table is carried out on the table called so, if there
  is one: REMOVE and CHANGE with all they were asked for (`WritesAsAsked`), a GET cut
  elsewhere with the clauses that arrived.
* `CHANGE f = v IN t` ends the parse at the table: a client that calls `from()`
  before `where()` changes every row. An alias behind `IN` is ignored. Operators
  other than IS, NOT, HAS, == and != are refused, also those the connector's
  readme shows.
* CHANGE stores its value as a string, also over a number, and for a name with a
  point makes a new field of that name. COUNT and the projection find that field
  and not the nested one; WHERE finds the nested one and not that field.
* LIMIT comes before the projection, so rows without the field asked for use it
  up; LIMIT 0 is no limit.
* With a passphrase or an IV of fewer than fifteen characters (the default IV has
  ten, the passphrase of the readme's example six) the name of the database
  depends on memory nobody wrote, and a restarted server may find an empty one.
  The old files stay (`NoTableIsDestroyed`); with longer texts the
  acknowledged tables are found again (`AcknowledgedTablesReturn`), both unless the
  list was harmed. Characters
  beyond the sixteenth make no difference.
* A server whose epoll could not be created listens and answers nobody until a
  signal ends it; `ValidIffUsable` is about servers with epoll.
* A second server can be started on the same port; clients get one or the other,
  and if `config.json` has changed in between, one database or the other. Two on one
  database overwrite each other's list.

## Proofs

No theorem is about a bounded instance. The constants are any sets and numbers
that satisfy the named `ASSUME`s of the modules, which every run evaluates; two
groups of theorems about `RoktStore` have a hypothesis on its constants besides,
the same as the properties they are about: one worker and descriptors enough
(`MaxFailures = 0`), or these and no crash (`MaxCrashes = 0`). With more workers the
findings show the properties broken; an open that fails empties a table or the list.

### SyncService

Assumed of the constants: `NoConn`, `NoFd` and `ServerFd` are not members of the
sets they stand beside, the limits are integers, and for the queue that the
workers are finitely many.

`SyncServiceProofs`:

* `TypeCorrect`: `Spec => []TypeOK`; `DescriptorOwnership`: `Spec =>
  []OneHolder`; `TasksKeepTheirClient`: `Spec => []TaskOnItsOwnSocket`. None is
  inductive by itself: that a push finds a task in the hands of the epoll
  thread, and a close in those of the worker, depends on the program counters.
  `Holding` says so (the epoll thread holds a request exactly at `lock` and
  `sleep`; a worker exactly at `run`, `send` and `close`; a batch is empty when
  the thread waits or has returned), and `HolderInv == TypeOK /\ OneHolder /\
  TaskOnItsOwnSocket /\ Holding` is inductive. The last two properties need each
  other: that a task's number still designates its client follows from that
  nobody else could close it, and that the number to be closed is open follows
  from that it designates someone. The proof has one lemma per action that moves
  a descriptor and one for those that move none.
* By the theorems on cardinalities of finite sets, `QueueIsBounded` (`QueueWithinLimit`) and `WakeUpsAreNotLost`
  (`NoIdleWorkerBesideWork`, which compares two counts: the queued tasks and the
  workers awake and asking for the mutex). They depend on each other and on the
  mutex. `QueueInv` adds to `HolderInv` that the worker between the predicate of
  `queueCond_.wait` and its sleep has the mutex alone and found the queue empty
  (`MutexInv`: so no push comes in between), and that the size the epoll thread
  read before its backpressure sleep is still below the limit after it
  (`LimitInv`: it sleeps with the mutex held). A push adds one task and wakes one
  sleeper, a worker takes one task and stops asking, and where a wake-up finds no
  sleeper there is none to be idle.

`SyncServiceRefinement`:

* `KeepsThePromise`: `Spec => PromiseKept`, `SyncService` implements
  `RequestReply`. `HolderInv` says where a request is, not what was done for it,
  so `PromiseInv` adds: a descriptor in use designates an open connection that no
  other one designates (`SocketsAreOpen`); what was run or answered is closed or
  with a worker at `send` or `close` (`StartedIsAnswered`), and a worker at `send`
  has not answered and goes to say what the handler did (`ReadyToSend`). Each action is
  shown to be one action of the promise (`ClientConnect` is `Connect`, `Handle`
  is `Execute` or, for an unknown word, nothing, `SendReply` is `Reply`, `Reject`
  is `Refuse`, and `ReadFails`, `EpollAddFails` and `CloseSocket` are `Close`) or
  a stutter.
* `StopDrainsAll` (`StopDrains`): from `PromiseInv` and `Joined`, that all workers
  have left their loop when the joins have returned; a worker that left does not
  come back, and one outside the states that hold a task holds none.

### RoktStore

Assumed of the constants: table names are not the words that the model uses for
the list and for files without a name; a command is one of the eight, names a
table, and has the operands of its kind.

`RoktStoreProofs`, for any number of workers, commands, crashes and failing opens:

* `TablesListedWereMade` (`ListedTablesWereMade`) and `AbortsAreExplained`
  (`AbortsExplained`). `dropped` are the tables whose directory a DELETE has removed
  and no CREATE has made since. `Made`, those whose directory is there or dropped,
  only grows. `MadeInv` says that every list of tables, on disk, in a worker's memory
  or in the text it is writing, has only made ones whose names are proper (`Listable`);
  and that a handler beyond its look into the list has a made one in its hands
  (`WorkerKnows`). It holds between any two steps of any interleaving because
  each part of it is about one worker and a set that only grows. A directory that a
  handler misses is then a dropped one: for an open that fails, and for the second
  look of `create_directories`.

and, for one worker, descriptors enough and any number of crashes at any step:

* `DamageOfACrash` (`DamageIsLocal`). The property speaks of the state after a
  crash, which must follow from every state before one. `Progress` says for each
  place of a handler what the disk holds: the tables that the command does not
  name are as they were when it began, and its own is so or empty
  (`TablesKept`), unless the list is being written (`ListUpdate`), which is the
  exception of the property. What is about to be written is tied to what is
  there: a rewrite of the list is that of the list on disk but for one name, or
  the repair of a list that did not parse; a write of rows on the way to
  something else is that of an empty table over one that reads as empty
  (`RowsWrite`).

* `TypesOfStores` (`TypeOK`). The one part that takes more than the invariants
  above is the length of a file: `Begin` lets an ADD start where there is room, and
  between the read and the write, which may be preceded by a repair of the file,
  there must still be (`SizeInv`). `BoundAssumption` says what the bounds are: some
  rows, finitely many tables.

`RoktStoreSerialProofs`, for one worker that is not killed and descriptors enough:

* `ListAndDiskAgree` (`ListMatchesDisk`) and `FilesImplementTables`
  (`ImplementsTables`: `RoktStore` implements `TableStore`). `SerialInv` divides
  a command's way in four, by what is on disk: `Reading` (the tables it began
  with, completely), `Changing` (the list, and all tables but its own, as they
  were; its own between the old and the new), `Listing` (the directories and
  files of the result, the old list or a truncated one) and `Written` (the
  result). `Result` is the map that the command must leave, and each answer,
  given in `Reading` or `Written`, is shown to be the step of `TableStore` with
  that code and those rows; each other step changes neither `Held` nor `answer`, the end of the process
  over an improper name included.

### Conditions

`ConditionsProofs` is about every row, every clause the parsers may produce and
any number of conditions; `IInv` adds to the types that a selected row has had a
condition on a present field *so far*, that an AND *just evaluated* was true, and
that the result so far is the `Verdict` of the conditions so far.

* `ResultIsWritten` (`TypeOK`: the callers' uninitialised `bool` is written
  before it is read), `AbsentFieldsSafe` (`AbsentFieldsSelectNothing`),
  `ConjunctionSafe` (`ConjunctionEndsTrue`), `VerdictOfTheLast`
  (`DecidedByTheLast`: the loop, which keeps one `bool`, computes the verdict
  that is defined on the conditions alone; `RowCommands` relies on it).

The fold itself asks less of the conditions than `Clause` says: there is one,
each is joined by AND, OR or nothing, and the first by nothing (`Foldable`).
`RowCommands` reuses the step of the fold for the conditions it has parsed.

### Selection and RowCommands

`SelectionProofs` is about `Among(s, S)`, the elements of a sequence that are in a
set, for sequences of any length: `AmongFacts` says at which places of `s` they
are, `AmongElements` that they are all of them, no others, and in their order.
The module defines it as a recursive function on the length. That the function
exists (`GatheredDef`) and what it computes (`GatheredFollows`) is proved by
induction as membership in a set of numbers: `Induction`, from the least element
of a set. `Enumerates(s, S)`, each element of `S` once, is what the stages of GET
hand over; lemmas say how long such a sequence is and that it stays one when it
is selected from, sorted or extended.

`RowCommandsProofs` is about every set of tables, texts, values and calls of
clients, and of any size. Assumed are the named `ASSUME`s of `Conditions` (of
values: those of one kind are equal when their dumps are, and `std::stod` reads a
number back from its dump), of `QueryBuilder` (`NameAssumption`: no field and no
table is called like a word of the language that begins a command or a clause, and no
beginning of a word is one;
`BuilderAssumption`: an order is ASC, DESC or left out) and of `RowCommands` (what is named in GROUP BY, ORDER BY and COUNT is a
field, also when it is cut, and a field with a point has a literal namesake).

`CommandInvariance` (`CommandSpec => []CommandInv`), one lemma per action or group
of like ones:

* `TextInv`: in what a client builds, and in every beginning of it that may
  arrive, a number stands behind LIMIT where the text goes that far, a field
  behind GROUP BY, ORDER BY and COUNT. `Phrase` is what every call adds, and two
  phrases are one (`PhraseConcat`).
* `ParserInv`: while the text is parsed the handler holds nothing; what was parsed
  so far can be folded; which commands come to which place (`KindFits`).
* `HandlerInv`: at row `k` of the loop, `rows` enumerates the selected ones before
  it, and the fold is in its own invariant (`LoopInv`); at each stage of GET what
  the stages before it leave (`StageInv`, `GroupsInv`). Behind a limit the rows
  are the best of the selected ones that can be sorted (`BestOf`: each once, in
  order, and one that is missing comes before none of them), and projection keeps
  this (`BestAmong`).

From it follow `OnlyVerdictRowsEverChange` (`OnlyVerdictRowsChange`),
`RowsAlwaysAccountedFor` (`RowsAccountedFor`), `BestRowsAlwaysFirst`
(`BestRowsFirst`), `GroupsAlwaysKeepValuesApart` (`GroupsKeepValuesApart`, by
`KeysApart`), `SortIsAlwaysStrictWeak` (`SortIsStrictWeak`, by
`PrecedesIsStrictWeak`) and `CountAlwaysAgreesWithWhere` (`CountAgreesWithWhere`).
TLC has checked `CommandInv` on the instance of `row_commands` as well.

* `RefusalAlwaysNeedsTwoWheres` (`RefusalNeedsTwoWheres`) needs to know what the
  client did while the parser reads. `RefusalInv` keeps where each call laid its
  words (`Laid`), that what arrived is a beginning of them (`Arrived`), and that a
  parser behind a WHERE has passed over one. A second condition that neither AND
  nor OR joins was read behind another WHERE (`SecondWhere`), and two WHEREs of
  one text are words of two calls with a call between.
* `TypesOfCommands` (`CommandTypeOK`): the positions, by what each loop of the
  parsers looks at before it moves (`PosStep`); the rows, by those of the tables.
* `WritesAlwaysAsAsked` (`WritesAsAsked`). `SpeechInv` keeps the order a chain of
  calls has (`Chain`) and at which words of the command each call begins and ends
  (`Stands`; `Saying` gives the words of a call). `AskedInv`: the parser of a REMOVE
  or CHANGE, behind its head and a condition or at the end, has read whole calls,
  the first `n`: the head, `value()` or `set()`, and one `where()` for each
  condition it holds, and behind them stands `from()` when the command is carried
  out. That it cannot begin a condition inside the words of a call follows from
  where it starts, as do the chains it refuses. `AmongBlock` then gives the calls of
  one name that the property selects.
* `GetsAlwaysAsAsked` (`ParsedAsAsked`) relates the parser, which reads words, to
  `Kept`, which says on the calls which of them are lost. `KeepsDef` shows by
  induction that there is a function with the recursive definition of `Keeps`;
  `KeepsNext` says when the next call is kept: a clause when the one before it is
  lost or closed (`Loose`), a joined condition when it follows a kept `where()`
  (`Going`). `HeardInv` is the invariant: the parameters and conditions are what
  the kept calls among the first `m` behind `from()` say (`Heard`), and the
  position is where that is possible (`Reached`): behind the `m`-th call; inside
  it, when it is lost; or past the end, when it is the last. Inside a call nothing
  begins a clause (`BehindWords`, from `NameAssumption`), so a word that does is the
  first of a call (`ClauseBegins`). A clause that ends open takes the first word of
  the next call with it, which is how that one is lost (`StepInto`).

### RoktStartup

`RoktStartupProofs` is about any number of servers, tables, texts, files,
environments and starts. It assumes the named `ASSUME`s of `RoktStartup`: texts
have lengths and first bytes as strings do, `config.json` gives texts and
integers and the environment integers, the kernel chooses ports of 16 bits, and
the mark for "no configuration" is none. That
no two keys give the same file names is in the model, which names a database by
its key.

* `TablesComeBack` (`AcknowledgedTablesReturn`) and `TablesStay`
  (`NoTableIsDestroyed`). That a server lists what was acknowledged under its
  texts says nothing of the databases nobody has open, which the next server may
  find, nor of a list that is truncated at the moment. `IInv` does. A server at work
  holds a key of *its* texts, and what it is doing to the list is a step of the
  constructor or of a command (`ServerTypes`, `StoredTypes`). *Every* unharmed list is
  `Sound`: at most one server is at work on it; it holds all that was acknowledged and
  nothing that was not asked for (`Agrees`), or it is truncated, and then the list
  which that server will write does; and the list a server has loaded and changed
  still does when it comes to write it. A command keeps this because its server is
  alone on the list, or the list is harmed from then on; a server that tests for a list
  and finds none writes an empty one where nothing was acknowledged. That the key of a
  server is the fixed key of some heads exactly if they are its own (`KeyFacts`) leads
  from databases to the texts of `AcknowledgedTablesReturn`. TLC has checked `IInv` on
  the instance of `startup`.
* `ValidServersAreUsable` (`ValidIffUsable`) and `ValidStaysValid`
  (`OnlyTheFileInvalidates`). `NumberTypes` ties the port and the threads of a
  server to its configuration; `PortFacts` is about the 16 bits that `htons`
  keeps: the port listened on is the configured one exactly from 1 to 65535.
* `TypesOfServers` (`StartupTypeOK`), by `Configured`: from its start to its end a
  server has a configuration, with a value of the right kind for each setting.

### Only model-checked

* Liveness: fairness and `ENABLED` are beyond the prover.
* `UniqueKept`, `AcknowledgedRowsAreKept` and the other properties of runs that
  expect a violation: they do not hold.

## Not modelled

* In the parsers: the parsing of CREATE, ADD, EMPTY and DELETE, which have one
  form; a client that writes clauses of GET before its table, or `set()` twice,
  whose words the parsers refuse; one that has a field, a table or a value called
  like a word of the language, or of which a cut makes one; a field whose object
  another field's name begins with, as `d` and `d.age`. An unknown table is also
  `RoktStore`'s.
* In `RoktStartup`: settings beyond the range of `int`, two keys that happen to
  encrypt `datas` to the same name, several commands of one server at a time (they do to
  a list what those of two servers do), a port held by a server of another user
  (`Listen` may fail for any reason).
* `RoktData`, `ResponseObject`, `ResponseService`, logging, string helpers:
  formatting, or without a lasting effect.
* The table type ROTATE, which no command can pass, and `update`, `remove` and
  `clear` of `RoktDataset`, which have no caller.
* In `SyncService`: SIGPIPE and partial reads (`RowCommands` has the latter). In `RoktStore`: a listing of the
  directory by `remove_all` between two changes of it; failures of the disk other
  than a missing directory or a failing open; power loss (a killed process leaves
  what it wrote); values that are not UTF-8; and the empty table name, whose
  directory would be the root.
* Load tests, scripts and container files: they are clients of the server or
  package it. Of the PHP connector only `QueryBuilder` is modelled: `RoktClient`
  is a blocking socket, as `SyncService` sees its clients.

## Plan

Every safety invariant and action property that a passing run checks is stated by
a theorem. What is left: clients of `SyncService` that connect again after they
were closed.

