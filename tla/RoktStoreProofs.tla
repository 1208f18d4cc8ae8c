-------------------------- MODULE RoktStoreProofs ---------------------------
(***************************************************************************)
(* Proofs about RoktStore for every set of tables, values and commands and *)
(* every number of crashes: first with any number of workers, then what a  *)
(* crash can cost when one worker runs the commands.                       *)
(***************************************************************************)
EXTENDS RoktStore, SelectionProofs, FiniteSetTheorems, TLAPS

\* The tables whose directory was made.  No step takes one out: DELETE moves it
\* from dir to dropped.  The list may hold those whose name can be dumped.
Made == dir \cup dropped
Listable == Made \ Undumpable

\* Where a handler goes when its ofstream is closed.
NextPlace == {"check", "saveConfig", "use", "reread", "unique", "done"}

\* Worker w is past the look into the list: it has found its table there, or it
\* has made its directory.
Entered(w) ==
    \/ pc[w] \in {"isdir", "exists", "saveConfig", "rmdir", "readData", "unique", "probe",
                  "read", "reread", "use"}
    \/ pc[w] \in {"open", "flush"} /\ out[w].next # "check"

\* What worker w knows of the tables, and is about to write of them.
WorkerKnows(w) ==
    /\ pc[w] # "idle" => cmd[w] \in Command
    /\ pc[w] \in {"open", "flush"} => /\ DOMAIN out[w] = {"to", "text", "next"}
                                      /\ out[w].next \in NextPlace
    /\ pc[w] \notin {"open", "flush"} => out[w] = NoWrite
    /\ names[w] \subseteq Listable
    /\ out[w].to = "config" => out[w].text.val \subseteq Listable
    /\ out[w].to \in Dataset => out[w].to = cmd[w].d /\ cmd[w].d \in Made
    /\ Entered(w) => cmd[w].d \in Made
    /\ pc[w] \in {"mkdir", "isdir"} => cmd[w].op = "CREATE" /\ cmd[w].d \notin Unmakeable

MadeInv ==
    /\ DOMAIN cmd = Worker /\ DOMAIN pc = Worker
    /\ DOMAIN names = Worker /\ DOMAIN out = Worker
    /\ up \in BOOLEAN /\ (~up => \A w \in Worker : pc[w] = "idle")
    /\ config.val \subseteq Listable /\ Made \cap Unmakeable = {}
    /\ \A w \in Worker : WorkerKnows(w)

-----------------------------------------------------------------------------
\* A step of worker w alone keeps what the others know, as Made only grows.
LEMMA OneWorkerMoves ==
    ASSUME MadeInv, NEW w \in Worker, up, up' = up, Made \subseteq Made',
           Made' \cap Unmakeable = {},
           DOMAIN cmd' = Worker, DOMAIN pc' = Worker,
           DOMAIN names' = Worker, DOMAIN out' = Worker,
           \A v \in Worker : v # w => /\ cmd'[v] = cmd[v] /\ pc'[v] = pc[v]
                                      /\ names'[v] = names[v] /\ out'[v] = out[v],
           config'.val \subseteq Listable', WorkerKnows(w)'
    PROVE  MadeInv'
<1>1. ASSUME NEW v \in Worker, v # w
      PROVE  WorkerKnows(v)'
    <2>1. WorkerKnows(v)
        BY DEF MadeInv
    <2>2. cmd'[v] = cmd[v] /\ pc'[v] = pc[v] /\ names'[v] = names[v] /\ out'[v] = out[v]
        BY <1>1
    <2>3. Listable \subseteq Listable'
        BY DEF Listable
    <2> QED
        BY <2>1, <2>2, <2>3 DEF WorkerKnows, Entered
<1>2. up' \in BOOLEAN /\ up'
    BY DEF MadeInv
<1> QED
    BY <1>1, <1>2 DEF MadeInv

\* The reply of a handler: the worker forgets everything.
LEMMA ReplyKept ==
    ASSUME MadeInv, up, NEW w \in Worker, NEW code, NEW result,
           Reply(w, code, result), UNCHANGED disk
    PROVE  MadeInv'
<1>1. /\ UNCHANGED <<config, up>> /\ Made' = Made /\ Listable' = Listable
      /\ DOMAIN cmd' = Worker /\ DOMAIN pc' = Worker
      /\ DOMAIN names' = Worker /\ DOMAIN out' = Worker
      /\ \A v \in Worker : v # w => /\ cmd'[v] = cmd[v] /\ pc'[v] = pc[v]
                                    /\ names'[v] = names[v] /\ out'[v] = out[v]
      /\ pc'[w] = "idle" /\ names'[w] = {} /\ out'[w] = NoWrite
    BY DEF Reply, disk, process, Made, Listable, MadeInv
<1>2. NoWrite.to = "none" /\ "none" \notin Dataset
    BY DatasetAssumption DEF NoWrite
<1>3. WorkerKnows(w)'
    BY <1>1, <1>2 DEF WorkerKnows, Entered
<1>4. config'.val \subseteq Listable' /\ Made' \cap Unmakeable = {}
    BY <1>1 DEF MadeInv
<1> QED
    BY <1>1, <1>3, <1>4, OneWorkerMoves

\* Moving on in a handler, without a new write.
LEMMA GotoKept ==
    ASSUME MadeInv, up, NEW w \in Worker, NEW place, place \notin {"open", "flush"},
           pc[w] \notin {"open", "flush"}, cmd[w] \in Command, Goto(w, place),
           up' = up, UNCHANGED <<cmd, out>>,
           DOMAIN names' = Worker, \A v \in Worker : v # w => names'[v] = names[v],
           names'[w] \subseteq Listable', config'.val \subseteq Listable', Made \subseteq Made',
           Made' \cap Unmakeable = {},
           place \in {"loadConfig", "check", "mkdir", "idle", "done"} \/ cmd[w].d \in Made',
           place \in {"mkdir", "isdir"} => cmd[w].op = "CREATE" /\ cmd[w].d \notin Unmakeable
    PROVE  MadeInv'
<1>1. /\ DOMAIN pc' = Worker /\ pc'[w] = place
      /\ \A v \in Worker : v # w => pc'[v] = pc[v]
    BY DEF Goto, MadeInv
<1>2. Listable \subseteq Listable'
    BY DEF Listable
<1>3. WorkerKnows(w)'
    BY <1>1, <1>2 DEF WorkerKnows, Entered, MadeInv
<1> QED
    BY <1>1, <1>3, OneWorkerMoves DEF MadeInv

\* Beginning to write the rows of a table that was made.
LEMMA WriteRowsKept ==
    ASSUME MadeInv, up, NEW w \in Worker, NEW s, NEW next \in NextPlace,
           cmd[w] \in Command, cmd[w].d \in Made, BeginWriteRows(w, s, next),
           up' = up, UNCHANGED <<disk, cmd, names, dropped>>
    PROVE  MadeInv'
<1>1. /\ DOMAIN pc' = Worker /\ pc'[w] = "open"
      /\ DOMAIN out' = Worker
      /\ out'[w] = [to |-> cmd[w].d, text |-> RowText(s), next |-> next]
      /\ \A v \in Worker : v # w => pc'[v] = pc[v] /\ out'[v] = out[v]
    BY DEF BeginWriteRows, Goto, MadeInv
<1>2. cmd[w].d \in Dataset /\ cmd[w].d # "config"
    BY CommandAssumption, DatasetAssumption
<1>3. WorkerKnows(w)'
    BY <1>1, <1>2 DEF WorkerKnows, Entered, MadeInv, Made, Listable, disk
<1>4. Made' = Made /\ Listable' = Listable /\ config' = config
    BY DEF Made, Listable, disk
<1> QED
    BY <1>1, <1>3, <1>4, OneWorkerMoves DEF MadeInv

\* Beginning to write a list of tables that were made.
LEMMA WriteConfigKept ==
    ASSUME MadeInv, up, NEW w \in Worker, NEW S, NEW next \in NextPlace,
           cmd[w] \in Command, S \subseteq Listable, next = "check" \/ cmd[w].d \in Made,
           BeginWriteConfig(w, S, next), up' = up, UNCHANGED <<disk, cmd, dropped>>,
           DOMAIN names' = Worker, \A v \in Worker : v # w => names'[v] = names[v],
           names'[w] \subseteq Listable
    PROVE  MadeInv'
<1>1. /\ DOMAIN pc' = Worker /\ pc'[w] = "open"
      /\ DOMAIN out' = Worker
      /\ out'[w] = [to |-> "config", text |-> NameText(S), next |-> next]
      /\ \A v \in Worker : v # w => pc'[v] = pc[v] /\ out'[v] = out[v]
    BY DEF BeginWriteConfig, Goto, MadeInv
<1>2. "config" \notin Dataset
    BY DatasetAssumption
<1>3. NameText(S).val = S
    BY DEF NameText
<1>4. Made' = Made /\ Listable' = Listable /\ config' = config
    BY DEF Made, Listable, disk
<1>5. WorkerKnows(w)'
    BY <1>1, <1>2, <1>3, <1>4 DEF WorkerKnows, Entered, MadeInv
<1> QED
    BY <1>1, <1>4, <1>5, OneWorkerMoves DEF MadeInv

\* The end of the process: no worker knows anything any more.
LEMMA DieKept ==
    ASSUME MadeInv, Die, UNCHANGED <<disk, dropped>>
    PROVE  MadeInv'
<1>1. /\ DOMAIN cmd' = Worker /\ DOMAIN pc' = Worker
      /\ DOMAIN names' = Worker /\ DOMAIN out' = Worker /\ up' = FALSE
      /\ \A w \in Worker : pc'[w] = "idle" /\ names'[w] = {} /\ out'[w] = NoWrite
    BY DEF Die
<1>2. NoWrite.to = "none" /\ "none" \notin Dataset
    BY DatasetAssumption DEF NoWrite
<1>3. Made' = Made /\ Listable' = Listable /\ config' = config
    BY DEF Made, Listable, disk
<1>4. \A w \in Worker : WorkerKnows(w)'
    BY <1>1, <1>2 DEF WorkerKnows, Entered
<1> QED
    BY <1>1, <1>3, <1>4 DEF MadeInv

-----------------------------------------------------------------------------
\* The write that is none concerns no file.
LEMMA NoWriteFacts == NoWrite.to \notin Dataset /\ NoWrite.to # "config"
BY DatasetAssumption DEF NoWrite

\* A worker with a command has one of the clients' commands.
LEMMA CommandFacts ==
    /\ NoCommand \notin Command
    /\ \A c \in Command : c.d \in Dataset /\ c.d # "config"
BY CommandAssumption, DatasetAssumption DEF NoCommand

\* A command begins: it knows nothing yet.
LEMMA BeginKept ==
    ASSUME MadeInv, up, NEW w \in Worker, NEW c \in Command, Begin(w, c)
    PROVE  MadeInv'
<1>1. /\ DOMAIN cmd' = Worker /\ cmd'[w] = c
      /\ DOMAIN pc' = Worker /\ pc'[w] = "loadConfig"
      /\ \A v \in Worker : v # w => cmd'[v] = cmd[v] /\ pc'[v] = pc[v]
      /\ UNCHANGED <<names, out, config, up>> /\ Made' = Made /\ Listable' = Listable
    BY DEF Begin, Goto, disk, Made, Listable, MadeInv
<1>2. pc[w] = "idle" /\ WorkerKnows(w)
    BY CommandFacts DEF Begin, MadeInv, WorkerKnows
<1>3. WorkerKnows(w)'
    BY <1>1, <1>2, NoWriteFacts DEF WorkerKnows, Entered
<1> QED
    BY <1>1, <1>3, OneWorkerMoves DEF MadeInv

\* loadConfig: what the list holds was made, and the list that replaces one that
\* does not parse is empty.
LEMMA LoadConfigKept ==
    ASSUME MadeInv, up, NEW w \in Worker, LoadConfig(w)
    PROVE  MadeInv'
<1>1. /\ pc[w] = "loadConfig" /\ cmd[w] \in Command
      /\ UNCHANGED <<disk, cmd, up, dropped, config>> /\ Made' = Made /\ Listable' = Listable
    BY DEF LoadConfig, process, history, disk, Made, Listable, MadeInv, WorkerKnows
<1>2. CASE ConfigParses
    <2>1. /\ DOMAIN names' = Worker /\ names'[w] = config.val
          /\ \A v \in Worker : v # w => names'[v] = names[v]
          /\ Goto(w, "check") /\ UNCHANGED out
        BY <1>2 DEF LoadConfig, MadeInv
    <2> QED
        BY <1>1, <2>1, GotoKept DEF MadeInv
<1>3. CASE ~ConfigParses
    <2>1. /\ DOMAIN names' = Worker /\ names'[w] = {}
          /\ \A v \in Worker : v # w => names'[v] = names[v]
          /\ BeginWriteConfig(w, {}, "check")
        BY <1>3 DEF LoadConfig, MadeInv
    <2> QED
        BY <1>1, <2>1, WriteConfigKept DEF NextPlace
<1> QED
    BY <1>2, <1>3

\* The ofstream is opened: a truncated list holds no table.
LEMMA OpenKept ==
    ASSUME MadeInv, up, NEW w \in Worker, Open(w)
    PROVE  MadeInv'
<1>1. /\ pc[w] = "open" /\ DOMAIN pc' = Worker /\ pc'[w] = "flush"
      /\ \A v \in Worker : v # w => pc'[v] = pc[v]
      /\ UNCHANGED <<cmd, names, out, up, dir, dropped>> /\ Made' = Made /\ Listable' = Listable
    BY DEF Open, Goto, process, history, Made, Listable, MadeInv
<1>2. config' = BlankNames \/ config' = config
    BY DEF Open
<1>3. config'.val \subseteq Listable'
    BY <1>1, <1>2 DEF BlankNames, MadeInv
<1>4. WorkerKnows(w)'
    BY <1>1 DEF WorkerKnows, Entered, MadeInv
<1> QED
    BY <1>1, <1>3, <1>4, OneWorkerMoves DEF MadeInv

\* The ofstream is closed: the list holds what was to be written, which was made.
LEMMA FlushKept ==
    ASSUME MadeInv, up, NEW w \in Worker, Flush(w)
    PROVE  MadeInv'
<1>1. /\ pc[w] = "flush" /\ out[w].next \in NextPlace /\ cmd[w] \in Command
      /\ DOMAIN pc' = Worker /\ pc'[w] = out[w].next
      /\ DOMAIN out' = Worker /\ out'[w] = NoWrite
      /\ \A v \in Worker : v # w => pc'[v] = pc[v] /\ out'[v] = out[v]
      /\ UNCHANGED <<cmd, names, up, dir, dropped>> /\ Made' = Made /\ Listable' = Listable
    BY DEF Flush, Goto, process, history, Made, Listable, MadeInv, WorkerKnows
<1>2. config'.val \subseteq Listable'
    <2>1. CASE out[w].to = "config"
        <3>1. config'.val = out[w].text.val
            BY <2>1 DEF Flush, Overlay
        <3> QED
            BY <1>1, <2>1, <3>1 DEF MadeInv, WorkerKnows
    <2>2. CASE out[w].to # "config"
        BY <1>1, <2>2 DEF Flush, MadeInv
    <2> QED
        BY <2>1, <2>2
<1>3. WorkerKnows(w)'
    <2>1. out[w].next # "check" => cmd[w].d \in Made
        BY <1>1 DEF MadeInv, WorkerKnows, Entered
    <2>2. names[w] \subseteq Listable
        BY DEF MadeInv, WorkerKnows
    <2>3. Entered(w)' => out[w].next # "check"
        BY <1>1 DEF Entered, NextPlace
    <2> QED
        BY <1>1, <2>1, <2>2, <2>3, NoWriteFacts DEF WorkerKnows, NextPlace
<1> QED
    BY <1>1, <1>2, <1>3, OneWorkerMoves DEF MadeInv

\* The open fails: the handler replies or the process ends.
LEMMA WriteFailsKept ==
    ASSUME MadeInv, up, NEW w \in Worker, WriteFails(w)
    PROVE  MadeInv'
BY ReplyKept, DieKept DEF WriteFails, history

-----------------------------------------------------------------------------
\* A table that is in the list a worker has loaded was made.
LEMMA FoundFacts ==
    ASSUME MadeInv, NEW w \in Worker, pc[w] # "idle"
    PROVE  /\ cmd[w] \in Command /\ names[w] \subseteq Listable
           /\ cmd[w].d \in names[w] => cmd[w].d \in Made
           /\ Entered(w) => cmd[w].d \in Made
           /\ pc[w] \notin {"open", "flush"} => out[w] = NoWrite
BY DEF MadeInv, WorkerKnows, Listable

\* CREATE and DELETE.
LEMMA ListKept ==
    ASSUME MadeInv, up, NEW w \in Worker,
           \/ FindDirectory(w) \/ MakeDirectory(w) \/ DirectoryIsThere(w)
           \/ CreateFile(w) \/ SaveConfig(w) \/ RemoveDirectory(w)
    PROVE  MadeInv'
<1>1. CASE Die /\ UNCHANGED <<disk, issued, crashes, history>>
    BY <1>1, DieKept DEF history
<1>2. CASE FindDirectory(w) /\ ~Die
    <2>1. /\ pc[w] = "check" /\ cmd[w].op = "CREATE" /\ cmd[w].d \notin Unmakeable
          /\ Goto(w, IF cmd[w].d \in dir THEN "exists" ELSE "mkdir")
          /\ UNCHANGED <<config, cmd, names, out, up>>
          /\ Made' = Made /\ Listable' = Listable
        BY <1>2 DEF FindDirectory, Creating, process, history, disk, Made, Listable
    <2>2. CASE cmd[w].d \in dir
        <3>1. Goto(w, "exists") /\ cmd[w].d \in Made'
            BY <2>1, <2>2 DEF Made
        <3> QED
            BY <2>1, <3>1, FoundFacts, GotoKept DEF MadeInv
    <2>3. CASE cmd[w].d \notin dir
        <3>1. Goto(w, "mkdir")
            BY <2>1, <2>3
        <3> QED
            BY <2>1, <3>1, FoundFacts, GotoKept DEF MadeInv
    <2> QED
        BY <2>2, <2>3
<1>3. CASE MakeDirectory(w)
    <2>1. /\ pc[w] = "mkdir" /\ UNCHANGED <<config, cmd, names, out, up>>
          /\ Goto(w, IF cmd[w].d \in dir THEN "isdir" ELSE "exists")
          /\ Made' = Made \cup {cmd[w].d}
          /\ Listable \subseteq Listable'
        BY <1>3 DEF MakeDirectory, process, Made, Listable
    <2>2. cmd[w].op = "CREATE" /\ cmd[w].d \notin Unmakeable
        BY <2>1 DEF MadeInv, WorkerKnows
    <2>3. PICK place \in {"isdir", "exists"} : Goto(w, place)
        BY <2>1
    <2> QED
        BY <2>1, <2>2, <2>3, FoundFacts, GotoKept DEF MadeInv
<1>4. CASE DirectoryIsThere(w) /\ ~Die
    <2>1. /\ pc[w] = "isdir" /\ UNCHANGED <<config, cmd, names, out, up>>
          /\ Goto(w, "exists") /\ Made' = Made /\ Listable' = Listable
        BY <1>4 DEF DirectoryIsThere, process, history, disk, Made, Listable
    <2> QED
        BY <2>1, FoundFacts, GotoKept DEF MadeInv, Entered
<1>5. CASE CreateFile(w)
    <2>1. /\ pc[w] = "exists" /\ UNCHANGED <<disk, cmd, names, config, up, dropped>>
          /\ Made' = Made /\ Listable' = Listable
        BY <1>5 DEF CreateFile, disk, process, history, Made, Listable
    <2>2. cmd[w] \in Command /\ cmd[w].d \in Made
        BY <2>1, FoundFacts DEF Entered
    <2>3. CASE BeginWriteRows(w, <<>>, "saveConfig")
        BY <2>1, <2>2, <2>3, WriteRowsKept DEF NextPlace
    <2>4. CASE Goto(w, "saveConfig") /\ UNCHANGED out
        BY <2>1, <2>2, <2>4, GotoKept, FoundFacts DEF MadeInv
    <2> QED
        BY <1>5, <2>3, <2>4 DEF CreateFile
<1>6. CASE SaveConfig(w) /\ ~Die
    <2>1. pc[w] = "saveConfig" /\ UNCHANGED <<disk, cmd, names, up, dropped>>
        BY <1>6 DEF SaveConfig, process, history
    <2>2. /\ cmd[w] \in Command /\ cmd[w].d \in Made /\ names[w] \subseteq Listable
        BY <2>1, FoundFacts DEF Entered
    <2>3. PICK S : S \subseteq Listable /\ BeginWriteConfig(w, S, "done")
        BY <1>6, <2>2 DEF SaveConfig, Listable
    <2> QED
        BY <2>1, <2>2, <2>3, WriteConfigKept DEF NextPlace, MadeInv
<1>7. CASE RemoveDirectory(w)
    <2>1. pc[w] = "rmdir" /\ cmd[w] \in Command /\ cmd[w].d \in Made
        BY <1>7, FoundFacts DEF RemoveDirectory, Entered
    <2>2. ASSUME Reply(w, 457, <<>>), UNCHANGED <<config, dir, file>>
          PROVE  MadeInv'
        BY <2>2, ReplyKept DEF disk
    <2>3. ASSUME dir' = dir \ {cmd[w].d}, dropped' = dropped \cup {cmd[w].d},
                 Goto(w, "saveConfig"), UNCHANGED <<config, cmd, names, out, process>>
          PROVE  MadeInv'
        <3>1. /\ Made' = Made /\ Listable' = Listable
              /\ UNCHANGED <<config, cmd, names, out, up>>
            BY <2>1, <2>3 DEF Made, Listable, process
        <3> QED
            BY <2>1, <2>3, <3>1, GotoKept, FoundFacts DEF MadeInv
    <2> QED
        BY <1>7, <2>2, <2>3 DEF RemoveDirectory
<1>8. ASSUME Die, FindDirectory(w) \/ DirectoryIsThere(w) \/ SaveConfig(w)
      PROVE  UNCHANGED <<disk, issued, crashes, history>>
    <2>1. up' # up
        BY <1>8 DEF Die
    <2> QED
        BY <1>8, <2>1 DEF FindDirectory, DirectoryIsThere, SaveConfig, process
<1> QED
    BY <1>1, <1>2, <1>3, <1>4, <1>5, <1>6, <1>7, <1>8

\* DELETE removes the file; who has it open now writes to nothing.
LEMMA UnlinkKept ==
    ASSUME MadeInv, up, NEW w \in Worker, Unlink(w)
    PROVE  MadeInv'
<1>1. /\ pc[w] = "check" /\ cmd[w] \in Command /\ cmd[w].d \in Made
      /\ UNCHANGED <<config, cmd, names, up>> /\ Made' = Made /\ Listable' = Listable
      /\ DOMAIN pc' = Worker /\ pc'[w] = "rmdir"
      /\ \A v \in Worker : v # w => pc'[v] = pc[v]
    BY FoundFacts DEF Unlink, Goto, process, history, Made, Listable, MadeInv
<1>2. DOMAIN out' = Worker
    BY DEF Unlink
<1>3. ASSUME NEW v \in Worker
      PROVE  \/ out'[v] = out[v]
             \/ /\ pc[v] = "flush" /\ DOMAIN out'[v] = DOMAIN out[v]
                /\ out'[v].to = "unlinked" /\ out'[v].next = out[v].next
    <2>1. pc[v] = "flush" => DOMAIN out[v] = {"to", "text", "next"}
        BY DEF MadeInv, WorkerKnows
    <2> QED
        BY <2>1 DEF Unlink
<1>4. ASSUME NEW v \in Worker, v # w
      PROVE  WorkerKnows(v)'
    BY <1>1, <1>3, <1>4, DatasetAssumption DEF MadeInv, WorkerKnows, Entered
<1>5. WorkerKnows(w)'
    BY <1>1, <1>3 DEF MadeInv, WorkerKnows, Entered
<1> QED
    BY <1>1, <1>2, <1>4, <1>5 DEF MadeInv

\* The handlers of rows, until they write.
LEMMA RowsKept ==
    ASSUME MadeInv, up, NEW w \in Worker,
           \/ StartAdd(w) \/ StartSelect(w) \/ TestUnique(w) \/ Probe(w)
           \/ Refuse(w) \/ Finish(w) \/ AnswerGet(w) \/ AnswerCount(w)
    PROVE  MadeInv'
<1>1. CASE Refuse(w) \/ Finish(w) \/ AnswerGet(w) \/ AnswerCount(w)
    BY <1>1, ReplyKept DEF Refuse, Finish, AnswerGet, AnswerCount
<1>2. ASSUME NEW code, Reply(w, code, <<>>), UNCHANGED disk
      PROVE  MadeInv'
    BY <1>2, ReplyKept
<1>3. CASE StartAdd(w) \/ StartSelect(w) \/ Probe(w) \/ TestUnique(w)
    <2>1. /\ pc[w] \in {"check", "unique", "probe"}
          /\ pc[w] = "check" => cmd[w].d \in names[w]
          /\ UNCHANGED disk
        BY <1>3 DEF StartAdd, StartSelect, Probe, TestUnique, Found
    <2>2. cmd[w] \in Command /\ cmd[w].d \in Made
        BY <2>1, FoundFacts DEF Entered
    <2>3. ASSUME NEW place \in {"readData", "probe", "read", "use", "loadConfig"},
                 Goto(w, place), UNCHANGED <<cmd, names, out, process, history>>
          PROVE  MadeInv'
        <3>1. UNCHANGED <<config, up>> /\ Made' = Made /\ Listable' = Listable
            BY <2>1, <2>3 DEF disk, process, history, Made, Listable
        <3> QED
            BY <2>1, <2>2, <2>3, <3>1, GotoKept, FoundFacts DEF MadeInv
    <2> QED
        BY <1>2, <1>3, <2>1, <2>3 DEF StartAdd, StartSelect, Probe, TestUnique
<1> QED
    BY <1>1, <1>3

\* The reads and the writes of rows.
LEMMA FileKept ==
    ASSUME MadeInv, up, NEW w \in Worker,
           \/ StartEmpty(w) \/ Read(w) \/ ReadData(w)
           \/ Insert(w) \/ OverwriteRemove(w) \/ OverwriteChange(w)
    PROVE  MadeInv'
<1>1. /\ pc[w] \in {"check", "read", "reread", "readData", "use"}
      /\ pc[w] = "check" => cmd[w].d \in names[w]
      /\ UNCHANGED disk
    BY DEF StartEmpty, Read, ReadData, Insert, OverwriteRemove, OverwriteChange, Found
<1>2. cmd[w] \in Command /\ cmd[w].d \in Made
    BY <1>1, FoundFacts DEF Entered
<1>3. ASSUME Reply(w, 3, <<>>)
      PROVE  MadeInv'
    BY <1>1, <1>3, ReplyKept
<1>4. ASSUME NEW s, NEW next \in NextPlace, BeginWriteRows(w, s, next),
             UNCHANGED <<cmd, names, process, history>>
      PROVE  MadeInv'
    BY <1>1, <1>2, <1>4, WriteRowsKept DEF process, history
<1>5. ASSUME NEW place \in {"use", "unique"}, Goto(w, place),
             UNCHANGED <<cmd, names, out, process, history>>
      PROVE  MadeInv'
    <2>1. UNCHANGED <<config, up>> /\ Made' = Made /\ Listable' = Listable
        BY <1>1, <1>5 DEF disk, process, history, Made, Listable
    <2> QED
        BY <1>1, <1>2, <1>5, <2>1, GotoKept, FoundFacts DEF MadeInv
<1>6. CASE StartEmpty(w) \/ Insert(w) \/ OverwriteRemove(w) \/ OverwriteChange(w)
    BY <1>4, <1>6 DEF StartEmpty, Insert, OverwriteRemove, OverwriteChange, NextPlace
<1>7. CASE Read(w)
    BY <1>3, <1>4, <1>5, <1>7 DEF Read, NextPlace
<1>8. CASE ReadData(w)
    BY <1>4, <1>5, <1>8 DEF ReadData, NextPlace
<1> QED
    BY <1>6, <1>7, <1>8

\* A file that cannot be opened for reading is taken for a missing one.
LEMMA ReadOpenFailsKept ==
    ASSUME MadeInv, up, NEW w \in Worker, ReadOpenFails(w)
    PROVE  MadeInv'
<1>1. /\ UNCHANGED disk
      /\ pc[w] \in {"loadConfig", "read", "readData", "probe", "reread"}
    BY DEF ReadOpenFails
<1>2. cmd[w] \in Command
    BY <1>1, FoundFacts
<1>3. CASE pc[w] = "loadConfig"
    <2>1. /\ DOMAIN names' = Worker /\ names'[w] = {}
          /\ \A v \in Worker : v # w => names'[v] = names[v]
          /\ BeginWriteConfig(w, {}, "check") /\ UNCHANGED <<cmd, process, history>>
        BY <1>3 DEF ReadOpenFails, MadeInv
    <2> QED
        BY <1>1, <1>2, <2>1, WriteConfigKept DEF NextPlace, process, history
<1>4. CASE pc[w] \in {"read", "readData"}
    <2>1. cmd[w].d \in Made /\ UNCHANGED <<cmd, names, up, dropped>>
        BY <1>4, FoundFacts DEF ReadOpenFails, Entered, process, history
    <2>2. PICK next \in {"reread", "unique"} : BeginWriteRows(w, <<>>, next)
        BY <1>4 DEF ReadOpenFails
    <2> QED
        BY <1>1, <1>2, <2>1, <2>2, WriteRowsKept DEF NextPlace
<1>5. CASE pc[w] \in {"probe", "reread"}
    <2>1. CASE Reply(w, 3, <<>>)
        BY <1>1, <2>1, ReplyKept
    <2>2. CASE Goto(w, "use") /\ UNCHANGED <<cmd, names, out, process, history>>
        <3>1. /\ UNCHANGED <<config, up>> /\ Made' = Made /\ Listable' = Listable
              /\ cmd[w].d \in Made /\ out[w] = NoWrite
            BY <1>1, <1>5, <2>2, FoundFacts
               DEF Entered, disk, process, history, Made, Listable
        <3> QED
            BY <1>1, <1>2, <1>5, <2>2, <3>1, GotoKept, FoundFacts DEF MadeInv
    <2> QED
        BY <1>5, <2>1, <2>2 DEF ReadOpenFails
<1> QED
    BY <1>1, <1>3, <1>4, <1>5

-----------------------------------------------------------------------------
\* Every step keeps the invariant.
LEMMA NextMade == MadeInv /\ [Next]_vars => MadeInv'
<1> SUFFICES ASSUME MadeInv, [Next]_vars PROVE MadeInv'
    OBVIOUS
<1>1. ASSUME NEW w \in Worker, up, Handler(w)
      PROVE  MadeInv'
    BY <1>1, BeginKept, LoadConfigKept, OpenKept, WriteFailsKept, FlushKept, ListKept,
       UnlinkKept, RowsKept, FileKept DEF Handler, OpenFails
<1>5. ASSUME NEW w \in Worker, up, NoDescriptor(w)
      PROVE  MadeInv'
    BY <1>5, WriteFailsKept, ReadOpenFailsKept, ReplyKept DEF NoDescriptor, RemoveAllFails
<1>2. CASE Crash
    BY <1>2, DieKept DEF Crash, history
<1>3. CASE Restart
    <2>1. UNCHANGED <<config, cmd, pc, names, out>> /\ Made' = Made /\ Listable' = Listable /\ up' = TRUE
        BY <1>3 DEF Restart, disk, local, history, Made, Listable
    <2>2. \A w \in Worker : WorkerKnows(w)'
        BY <2>1 DEF MadeInv, WorkerKnows, Entered
    <2> QED
        BY <2>1, <2>2 DEF MadeInv
<1>4. CASE UNCHANGED vars
    <2>1. UNCHANGED <<config, cmd, pc, names, out, up>> /\ Made' = Made /\ Listable' = Listable
        BY <1>4 DEF vars, disk, local, process, history, Made, Listable
    <2>2. \A w \in Worker : WorkerKnows(w)'
        BY <2>1 DEF MadeInv, WorkerKnows, Entered
    <2> QED
        BY <2>1, <2>2 DEF MadeInv
<1> QED
    BY <1>1, <1>2, <1>3, <1>4, <1>5 DEF Next

\* No table is listed or known when the store starts.
LEMMA InitMade == Init => MadeInv
<1> SUFFICES ASSUME Init PROVE MadeInv
    OBVIOUS
<1>1. \A w \in Worker : WorkerKnows(w)
    BY NoWriteFacts DEF Init, WorkerKnows, Entered
<1> QED
    BY <1>1 DEF Init, MadeInv, NameText, Made, Listable

\* MadeInv is an invariant.
LEMMA MadeInvariant == Spec => []MadeInv
BY InitMade, NextMade, PTL DEF Spec

\* Whatever workers and crashes do to the list and to the directories, a table
\* that is listed, on disk or in the memory of a worker, had its directory made
\* and can only have lost it to a DELETE (RoktService::create and drop).
THEOREM TablesListedWereMade == Spec => []ListedTablesWereMade
<1>1. MadeInv => ListedTablesWereMade
    BY DEF MadeInv, WorkerKnows, Made, Listable, ListedTablesWereMade
<1> QED
    BY <1>1, MadeInvariant, PTL

\* How many opens have failed is a number.
LEMMA FailuresCounted == Spec => [](failures \in Nat)
<1>1. Init => failures \in Nat
    BY DEF Init
<1>2. failures \in Nat /\ [Next]_vars => (failures \in Nat)'
    <2> SUFFICES ASSUME failures \in Nat, [Next]_vars PROVE failures' \in Nat
        OBVIOUS
    <2>1. failures' = failures \/ failures' = failures + 1
        BY DEF Next, NoDescriptor, Crash, Restart, vars
    <2> QED
        BY <2>1
<1> QED
    BY <1>1, <1>2, PTL DEF Spec

\* The steps of a handler that end the process.
LEMMA StepsThatEnd ==
    ASSUME up, ~up', NEW w \in Worker, Handler(w)
    PROVE  \/ OpenFails(w) /\ Die
           \/ cmd[w].op = "CREATE" /\ cmd[w].d \in Unmakeable
           \/ DirectoryIsThere(w) /\ cmd[w].d \notin dir
           \/ cmd[w].op = "CREATE" /\ cmd[w].d \in Undumpable
<1>1. CASE \/ \E c \in Command : Begin(w, c)
           \/ LoadConfig(w) \/ Refuse(w) \/ Open(w) \/ Flush(w) \/ Finish(w)
    BY <1>1 DEF Begin, LoadConfig, Refuse, Reply, Open, Flush, Finish, process
<1>2. CASE \/ MakeDirectory(w) \/ CreateFile(w) \/ Unlink(w) \/ RemoveDirectory(w)
           \/ StartEmpty(w) \/ StartAdd(w) \/ StartSelect(w)
    BY <1>2 DEF MakeDirectory, CreateFile, Unlink, RemoveDirectory, StartEmpty, StartAdd,
                StartSelect, Reply, process
<1>3. CASE \/ Read(w) \/ ReadData(w) \/ TestUnique(w) \/ Probe(w)
           \/ AnswerGet(w) \/ AnswerCount(w)
           \/ Insert(w) \/ OverwriteRemove(w) \/ OverwriteChange(w)
    BY <1>3 DEF Read, ReadData, TestUnique, Probe, AnswerGet, AnswerCount, Insert,
                OverwriteRemove, OverwriteChange, Reply, process
<1>4. CASE FindDirectory(w) \/ DirectoryIsThere(w) \/ SaveConfig(w)
    BY <1>4 DEF FindDirectory, Creating, DirectoryIsThere, SaveConfig, process
<1>5. CASE OpenFails(w)
    BY <1>5 DEF OpenFails, WriteFails, Reply, process
<1> QED
    BY <1>1, <1>2, <1>3, <1>4, <1>5 DEF Handler

\* When no descriptor is left, only the write that a handler cannot catch ends the
\* process.
LEMMA FailuresThatEnd ==
    ASSUME up, ~up', NEW w \in Worker, NoDescriptor(w)
    PROVE  cmd[w].op \notin {"GET", "REMOVE", "CHANGE"} /\ failures' = failures + 1
<1>1. CASE WriteFails(w)
    BY <1>1 DEF NoDescriptor, WriteFails, Reply, process
<1>2. CASE ReadOpenFails(w) \/ RemoveAllFails(w)
    BY <1>2 DEF ReadOpenFails, RemoveAllFails, Reply, process
<1> QED
    BY <1>1, <1>2 DEF NoDescriptor

\* A command ends the process only when it writes rows of a table that a DELETE
\* has removed, when it makes such a table while it is being removed, when its
\* name is improper, or when no descriptor is left (RoktDataset::writeDataset,
\* RoktService::create and writeConfig).
THEOREM AbortsAreExplained == Spec => AbortsExplained
<1> DEFINE Excuse(w) ==
        /\ cmd[w].op \notin {"GET", "REMOVE", "CHANGE"}
        /\ \/ cmd[w].d \in dropped
           \/ cmd[w].op = "CREATE" /\ cmd[w].d \in Unmakeable \cup Undumpable
           \/ failures' > failures
<1>1. ASSUME MadeInv, NEW w \in Worker, up, ~up', Handler(w)
      PROVE  Excuse(w)
    <2>1. CASE OpenFails(w) /\ Die
        <3>1. pc[w] = "open" /\ out[w].to \in Dataset \ dir
            BY <2>1 DEF OpenFails, WriteFails
        <3>2. cmd[w].d \in dropped
            BY <1>1, <3>1 DEF MadeInv, WorkerKnows, Made
        <3>3. cmd[w].op \notin {"GET", "REMOVE", "CHANGE"}
            BY <2>1, <1>1 DEF OpenFails, WriteFails, Reply, process
        <3> QED
            BY <3>2, <3>3
    <2>2. CASE DirectoryIsThere(w) /\ cmd[w].d \notin dir
        BY <1>1, <2>2 DEF DirectoryIsThere, MadeInv, WorkerKnows, Entered, Made
    <2> QED
        BY <1>1, <2>1, <2>2, StepsThatEnd
<1>2. ASSUME failures \in Nat, NEW w \in Worker, up, ~up', NoDescriptor(w)
      PROVE  Excuse(w)
    BY <1>2, FailuresThatEnd
<1>3. MadeInv /\ failures \in Nat =>
        \A w \in Worker : (up /\ ~up' /\ (Handler(w) \/ NoDescriptor(w))) => Excuse(w)
    BY <1>1, <1>2
<1> QED
    BY <1>3, MadeInvariant, FailuresCounted, PTL DEF AbortsExplained

-----------------------------------------------------------------------------
(* One worker, any number of crashes, and a descriptor for every open.     *)

\* The tables a command would find listed, and the rows it would read from x.
Listed == IF ConfigParses THEN config.val ELSE {}
Rows(x) == IF FileParses(x) THEN file[x].val ELSE <<>>

\* The tables are those the command of w began with, but its own may be empty.
TablesKept(w) ==
    LET d == cmd[w].d IN
    /\ Without(View, d) = Without(before, d)
    /\ d \in DOMAIN View <=> d \in DOMAIN before
    /\ d \in DOMAIN View => View[d] \in {before[d], <<>>}

\* What is left to write of the list.  A list that did not parse is being replaced
\* by the empty one; or CREATE or DELETE changes the entry of its own table.
ListRepair(w) ==
    /\ out[w].to = "config" /\ out[w].next = "check"
    /\ out[w].text = NameText({}) /\ names[w] = {}
    /\ ~ConfigParses /\ (pc[w] = "flush" => config = BlankNames)

ListUpdate(w) ==
    /\ out[w].to = "config" /\ out[w].next = "done" /\ cmd[w].op \in {"CREATE", "DELETE"}
    /\ LET S == out[w].text.val IN
       /\ S \subseteq Dataset /\ out[w].text = NameText(S)
       /\ S \ {cmd[w].d} = names[w] \ {cmd[w].d}
    /\ IF pc[w] = "flush"
       THEN config = BlankNames
            /\ Without(before, cmd[w].d) = [x \in names[w] \ {cmd[w].d} |-> Rows(x)]
       ELSE ConfigParses /\ config.val = names[w]

\* A write of rows on the way to something else is that of an empty table, which
\* the table already is for who reads it.
RowsWrite(w) ==
    /\ out[w].to = cmd[w].d
    /\ out[w].next \in {"saveConfig", "unique", "use", "reread", "done"}
    /\ ConfigParses /\ config.val = names[w]
    /\ out[w].next # "done" => out[w].text = RowText(<<>>) /\ Rows(cmd[w].d) = <<>>

Writing(w) == pc[w] \in {"open", "flush"}

\* Where the command of w stands and what it may rely on.
Progress(w) ==
    /\ cmd[w] \in Command
    /\ pc[w] \in {"loadConfig", "check", "open", "flush", "done", "exists", "saveConfig",
                  "mkdir", "isdir", "rmdir", "readData", "unique", "probe", "read", "reread",
                  "use"}
    /\ Writing(w) => /\ ListRepair(w) \/ ListUpdate(w) \/ RowsWrite(w)
                     /\ out[w].next \notin {"open", "flush", "idle", "loadConfig"}
    /\ pc[w] \notin {"loadConfig", "open", "flush", "done"} =>
           ConfigParses /\ config.val = names[w]
    /\ IF pc[w] = "done"
       THEN Without(View, cmd[w].d) = Without(before, cmd[w].d)
       ELSE (pc[w] = "flush" /\ ListUpdate(w)) \/ TablesKept(w)

CrashInv(w) ==
    /\ DOMAIN cmd = Worker /\ DOMAIN pc = Worker /\ DOMAIN names = Worker
    /\ DOMAIN out = Worker /\ DOMAIN file = Dataset
    /\ config.val \subseteq Dataset /\ names[w] \subseteq Dataset
    /\ cmd[w] = NoCommand <=> pc[w] = "idle"
    /\ cmd[w] # NoCommand => Progress(w)

-----------------------------------------------------------------------------
(* The texts of the list and what is read from it.                         *)

\* A truncated list does not parse, one whole text does.
LEMMA NameTextFacts ==
    /\ BlankNames.val = {} /\ BlankNames # NameText({})
    /\ \A S : NameText(S).val = S /\ Overlay(BlankNames, NameText(S)) = NameText(S)
<1>1. Cardinality({}) = 0
    BY FS_EmptySet
<1>2. BlankNames # NameText({})
    BY <1>1 DEF BlankNames, NameText
<1>3. ASSUME NEW S
      PROVE  Overlay(BlankNames, NameText(S)) = NameText(S)
    BY DEF Overlay, BlankNames, NameText
<1> QED
    BY <1>2, <1>3 DEF BlankNames, NameText

\* A table with a missing, truncated or empty file is read as an empty one.
LEMMA EmptyRows ==
    ASSUME NEW d, file[d].val = <<>> \/ ~FileParses(d)
    PROVE  Rows(d) = <<>>
BY DEF Rows

\* A command of the clients names a table, which is not the list.
LEMMA CommandTable ==
    /\ NoCommand \notin Command
    /\ \A c \in Command : c.d \in Dataset /\ c.d # "config"
BY CommandAssumption, DatasetAssumption DEF NoCommand

\* What the tables are in terms of the list and of the rows.
LEMMA ViewFacts ==
    /\ DOMAIN View = Listed
    /\ \A x \in Listed : View[x] = Rows(x)
    /\ \A d : Without(View, d) = [x \in Listed \ {d} |-> Rows(x)]
<1>1. View = [x \in Listed |-> Rows(x)]
    BY DEF View, Listed, Rows
<1> QED
    BY <1>1 DEF Without, Restrict

\* The same of the tables after a step.
LEMMA NextViewFacts ==
    /\ DOMAIN View' = Listed'
    /\ \A x \in Listed' : View'[x] = Rows(x)'
    /\ \A d : Without(View', d) = [x \in Listed' \ {d} |-> Rows(x)']
<1>1. View' = [x \in Listed' |-> Rows(x)']
    BY DEF View, Listed, Rows
<1> QED
    BY <1>1 DEF Without, Restrict

\* While list and files stay, so do the tables.
LEMMA SameTables ==
    ASSUME UNCHANGED <<config, file>>
    PROVE  /\ View' = View /\ ConfigParses' = ConfigParses /\ Listed' = Listed
           /\ \A x : Rows(x)' = Rows(x)
BY DEF View, ConfigParses, Listed, Rows, FileParses

\* A change of one file leaves the other tables alone.
LEMMA OtherTables ==
    ASSUME NEW d, UNCHANGED config, \A x \in Dataset : x # d => file'[x] = file[x],
           config.val \subseteq Dataset
    PROVE  /\ Without(View', d) = Without(View, d) /\ Listed' = Listed
           /\ ConfigParses' = ConfigParses
<1>1. Listed' = Listed /\ Listed \subseteq Dataset /\ ConfigParses' = ConfigParses
    BY DEF Listed, ConfigParses
<1>2. \A x \in Listed \ {d} : Rows(x)' = Rows(x)
    BY <1>1 DEF Rows, FileParses
<1>3. /\ Without(View, d) = [x \in Listed \ {d} |-> Rows(x)]
      /\ Without(View', d) = [x \in Listed' \ {d} |-> Rows(x)']
    BY ViewFacts, NextViewFacts
<1> QED
    BY <1>1, <1>2, <1>3

-----------------------------------------------------------------------------
(* The steps of the only worker w.                                         *)

\* With one worker the store is quiet when that worker has no command.
LEMMA QuietFacts ==
    ASSUME NEW w, Worker = {w}
    PROVE  Quiet <=> cmd[w] = NoCommand
BY DEF Quiet

\* Nothing is known of a worker without a command.
LEMMA NothingKnown ==
    ASSUME NEW w, Worker = {w}, UNCHANGED <<config, file>>, CrashInv(w),
           DOMAIN cmd' = Worker, DOMAIN pc' = Worker,
           DOMAIN names' = Worker, DOMAIN out' = Worker,
           cmd'[w] = NoCommand, pc'[w] = "idle", names'[w] = {}
    PROVE  CrashInv(w)'
BY DEF CrashInv

\* A reply ends a command.
LEMMA ReplyForgets ==
    ASSUME NEW w, Worker = {w}, UNCHANGED <<config, file>>, CrashInv(w),
           NEW code, NEW result, Reply(w, code, result)
    PROVE  CrashInv(w)'
BY NothingKnown DEF Reply, CrashInv

\* The death of the process ends it too.
LEMMA DieForgets ==
    ASSUME NEW w, Worker = {w}, UNCHANGED <<config, file>>, CrashInv(w), Die
    PROVE  CrashInv(w)'
BY NothingKnown DEF Die, CrashInv

\* The places where a handler neither waits for its list nor writes.
Inside == {"check", "exists", "mkdir", "isdir", "saveConfig", "rmdir", "readData",
           "unique", "probe", "read", "reread", "use"}

\* A command that is inside has the list in memory as it is on disk, and the
\* tables are still those it began with.
LEMMA InsideFacts ==
    ASSUME NEW w, CrashInv(w), pc[w] \in Inside
    PROVE  /\ cmd[w] \in Command /\ cmd[w].d \in Dataset /\ cmd[w].d # "config"
           /\ ConfigParses /\ config.val = names[w] /\ Listed = names[w]
           /\ TablesKept(w)
<1>1. cmd[w] # NoCommand /\ Progress(w)
    BY DEF CrashInv, Inside
<1> QED
    BY <1>1, CommandTable DEF Progress, Inside, Listed

\* From one such place to another, or back to the list.
LEMMA MovesInside ==
    ASSUME NEW w, Worker = {w}, CrashInv(w), pc[w] \in Inside,
           NEW place \in Inside \cup {"loadConfig"}, Goto(w, place),
           UNCHANGED <<config, file, cmd, names, out, before>>
    PROVE  CrashInv(w)'
<1>1. /\ pc'[w] = place /\ DOMAIN pc' = Worker
    BY DEF Goto, CrashInv
<1>2. TablesKept(w)'
    BY SameTables, InsideFacts DEF TablesKept
<1>3. ConfigParses' /\ config'.val = names'[w] /\ cmd'[w] \in Command
    BY InsideFacts, SameTables
<1>4. Progress(w)'
    BY <1>1, <1>2, <1>3 DEF Progress, Inside, Writing
<1> QED
    BY <1>1, <1>3, <1>4, CommandTable DEF CrashInv, Inside

\* Rows are about to be written: the last ones, or an empty table.
LEMMA BeginsRows ==
    ASSUME NEW w, Worker = {w}, CrashInv(w), pc[w] \in Inside,
           NEW s, NEW next \in {"saveConfig", "unique", "use", "reread", "done"},
           next # "done" => s = <<>> /\ Rows(cmd[w].d) = <<>>,
           BeginWriteRows(w, s, next),
           UNCHANGED <<config, file, cmd, names, before>>
    PROVE  CrashInv(w)'
<1>1. /\ pc'[w] = "open" /\ DOMAIN pc' = Worker /\ DOMAIN out' = Worker
      /\ out'[w] = [to |-> cmd[w].d, text |-> RowText(s), next |-> next]
    BY DEF BeginWriteRows, Goto, CrashInv
<1>2. TablesKept(w)'
    BY SameTables, InsideFacts DEF TablesKept
<1>3. ConfigParses' /\ config'.val = names'[w] /\ cmd'[w] \in Command
    BY InsideFacts, SameTables
<1>4. RowsWrite(w)'
    BY <1>1, <1>3 DEF RowsWrite, Rows, FileParses
<1>5. Progress(w)'
    BY <1>1, <1>2, <1>3, <1>4 DEF Progress, Inside, Writing
<1> QED
    BY <1>1, <1>3, <1>5, CommandTable DEF CrashInv

\* CREATE and DELETE are about to write the list.
LEMMA BeginsNewList ==
    ASSUME NEW w, Worker = {w}, CrashInv(w), pc[w] \in Inside, NEW S,
           BeginWriteConfig(w, S, "done"), cmd[w].op \in {"CREATE", "DELETE"},
           S = names[w] \cup {cmd[w].d} \/ S = names[w] \ {cmd[w].d},
           UNCHANGED <<config, file, cmd, names, before>>
    PROVE  CrashInv(w)'
<1>1. S \subseteq Dataset /\ S \ {cmd[w].d} = names[w] \ {cmd[w].d}
    BY InsideFacts DEF CrashInv
<1>2. /\ pc'[w] = "open" /\ DOMAIN pc' = Worker /\ DOMAIN out' = Worker
      /\ out'[w] = [to |-> "config", text |-> NameText(S), next |-> "done"]
    BY DEF BeginWriteConfig, Goto, CrashInv
<1>3. TablesKept(w)'
    BY SameTables, InsideFacts DEF TablesKept
<1>4. ConfigParses' /\ config'.val = names'[w] /\ cmd'[w] \in Command
    BY InsideFacts, SameTables
<1>5. ListUpdate(w)'
    <2>1. out'[w].text = NameText(S) /\ out'[w].to = "config" /\ out'[w].next = "done"
        BY <1>2
    <2>2. out'[w].text.val = S
        BY <2>1, NameTextFacts
    <2>3. /\ S \subseteq Dataset
          /\ S \ {cmd'[w].d} = names'[w] \ {cmd'[w].d} /\ cmd'[w].op \in {"CREATE", "DELETE"}
        BY <1>1
    <2> QED
        BY <1>2, <1>4, <2>1, <2>2, <2>3 DEF ListUpdate
<1>6. Progress(w)'
    BY <1>2, <1>3, <1>4, <1>5 DEF Progress, Inside, Writing
<1> QED
    BY <1>2, <1>4, <1>6, CommandTable DEF CrashInv

\* Unless dump has thrown.
LEMMA BeginsList ==
    ASSUME NEW w, Worker = {w}, CrashInv(w), SaveConfig(w)
    PROVE  CrashInv(w)'
<1>1. pc[w] \in Inside /\ UNCHANGED <<config, file>>
    BY DEF SaveConfig, Inside, disk
<1>2. CASE Die
    BY <1>1, <1>2, DieForgets
<1>3. ASSUME NEW S, BeginWriteConfig(w, S, "done"), cmd[w].op \in {"CREATE", "DELETE"},
             S = names[w] \cup {cmd[w].d} \/ S = names[w] \ {cmd[w].d},
             UNCHANGED <<cmd, names, before>>
      PROVE  CrashInv(w)'
    BY <1>1, <1>3, BeginsNewList
<1>4. \/ Die
      \/ \E S \in {names[w] \cup {cmd[w].d}, names[w] \ {cmd[w].d}} :
               /\ BeginWriteConfig(w, S, "done") /\ cmd[w].op \in {"CREATE", "DELETE"}
               /\ UNCHANGED <<cmd, names, before>>
    BY DEF SaveConfig, history
<1> QED
    BY <1>2, <1>3, <1>4

\* A command begins: it is to find the tables as they are now.
LEMMA Begins ==
    ASSUME NEW w, Worker = {w}, CrashInv(w), NEW c \in Command, Begin(w, c)
    PROVE  CrashInv(w)'
<1>1. /\ cmd'[w] = c /\ DOMAIN cmd' = Worker /\ pc'[w] = "loadConfig" /\ DOMAIN pc' = Worker
      /\ UNCHANGED <<config, file, names, out>>
    BY DEF Begin, Goto, disk, CrashInv
<1>2. before' = View /\ View' = View
    BY SameTables, QuietFacts, <1>1 DEF Begin
<1>3. TablesKept(w)'
    BY <1>2 DEF TablesKept
<1>4. Progress(w)'
    BY <1>1, <1>3 DEF Progress, Writing
<1> QED
    BY <1>1, <1>4, CommandTable DEF CrashInv

\* The list is loaded, or it is to be replaced by the empty one.
LEMMA Loads ==
    ASSUME NEW w, Worker = {w}, CrashInv(w), LoadConfig(w)
    PROVE  CrashInv(w)'
<1>1. /\ pc[w] = "loadConfig" /\ cmd[w] \in Command /\ TablesKept(w)
      /\ UNCHANGED <<config, file, cmd, before>>
    BY DEF LoadConfig, CrashInv, Progress, disk, history
<1>2. TablesKept(w)'
    BY <1>1, SameTables DEF TablesKept
<1>3. CASE ConfigParses
    <2>1. /\ names'[w] = config.val /\ DOMAIN names' = Worker /\ UNCHANGED out
          /\ pc'[w] = "check" /\ DOMAIN pc' = Worker
        BY <1>3 DEF LoadConfig, Goto, CrashInv
    <2>2. ConfigParses' /\ config'.val = names'[w]
        BY <1>1, <1>3, <2>1, SameTables
    <2>3. Progress(w)'
        BY <1>1, <1>2, <2>1, <2>2 DEF Progress, Writing
    <2> QED
        BY <1>1, <2>1, <2>3, CommandTable DEF CrashInv
<1>4. CASE ~ConfigParses
    <2>1. /\ names'[w] = {} /\ DOMAIN names' = Worker /\ DOMAIN out' = Worker
          /\ out'[w] = [to |-> "config", text |-> NameText({}), next |-> "check"]
          /\ pc'[w] = "open" /\ DOMAIN pc' = Worker
        BY <1>4 DEF LoadConfig, BeginWriteConfig, Goto, CrashInv
    <2>2. ListRepair(w)'
        BY <1>1, <1>4, <2>1, SameTables DEF ListRepair
    <2>3. Progress(w)'
        BY <1>1, <1>2, <2>1, <2>2 DEF Progress, Writing
    <2> QED
        BY <1>1, <2>1, <2>3, CommandTable DEF CrashInv
<1> QED
    BY <1>3, <1>4

\* What a worker that writes is writing.
LEMMA WritingFacts ==
    ASSUME NEW w, CrashInv(w), Writing(w)
    PROVE  /\ cmd[w] \in Command /\ cmd[w].d \in Dataset /\ cmd[w].d # "config"
           /\ ListRepair(w) \/ ListUpdate(w) \/ RowsWrite(w)
           /\ out[w].next \notin {"open", "flush", "idle", "loadConfig"}
           /\ pc[w] = "open" \/ ~ListUpdate(w) => TablesKept(w)
<1>1. cmd[w] # NoCommand /\ Progress(w) /\ pc[w] # "done"
    BY DEF CrashInv, Writing
<1> QED
    BY <1>1, CommandTable DEF Progress

\* The tables are unchanged by a step on the list that is listed as empty before
\* and after.
LEMMA NoTableListed ==
    ASSUME NEW w, Listed = {}, Listed' = {}, UNCHANGED <<cmd, before>>, TablesKept(w)
    PROVE  TablesKept(w)'
<1>1. Without(View', cmd[w].d) = Without(View, cmd[w].d)
    BY ViewFacts, NextViewFacts
<1> QED
    BY <1>1, ViewFacts, NextViewFacts DEF TablesKept

\* The file of the command's own table changes, and is read as an empty table.
LEMMA OwnTableEmpty ==
    ASSUME NEW w, CrashInv(w), cmd[w].d \in Dataset, UNCHANGED <<config, cmd, before>>,
           \A x \in Dataset : x # cmd[w].d => file'[x] = file[x],
           file'[cmd[w].d].val = <<>>, TablesKept(w)
    PROVE  TablesKept(w)'
<1> DEFINE d == cmd[w].d
<1>1. Without(View', d) = Without(View, d) /\ Listed' = Listed
    BY OtherTables DEF CrashInv
<1>2. Rows(d)' = <<>>
    BY DEF Rows
<1>3. d \in Listed' => View'[d] = <<>>
    BY <1>2, NextViewFacts
<1> QED
    BY <1>1, <1>3, ViewFacts, NextViewFacts DEF TablesKept

\* The ofstream is opened.
LEMMA Opens ==
    ASSUME NEW w, Worker = {w}, CrashInv(w), dir \subseteq Dataset, Open(w)
    PROVE  CrashInv(w)'
<1>1. /\ pc[w] = "open" /\ pc'[w] = "flush" /\ DOMAIN pc' = Worker
      /\ UNCHANGED <<cmd, names, out, before>>
    BY DEF Open, Goto, history, CrashInv
<1>2. Writing(w) /\ TablesKept(w)
    BY <1>1, WritingFacts DEF Writing
<1>3. CASE out[w].to = "config"
    <2>1. config' = BlankNames /\ UNCHANGED file
        BY <1>2, <1>3, WritingFacts, DatasetAssumption DEF Open
    <2>2. ~ConfigParses' /\ Listed' = {} /\ config'.val = {}
        BY <2>1, NameTextFacts DEF ConfigParses, Listed
    <2>3. CASE ListRepair(w)
        <3>1. TablesKept(w)'
            BY <1>1, <1>2, <2>2, <2>3, NoTableListed DEF ListRepair, Listed
        <3>2. ListRepair(w)'
            BY <1>1, <2>1, <2>2, <2>3 DEF ListRepair
        <3>3. Progress(w)'
            BY <1>1, <1>2, <3>1, <3>2, WritingFacts DEF Progress, Writing
        <3> QED
            BY <1>1, <1>2, <2>2, <2>1, <3>3, WritingFacts, CommandTable
               DEF CrashInv
    <2>4. CASE ListUpdate(w)
        <3>1. Without(before, cmd[w].d) = [x \in names[w] \ {cmd[w].d} |-> Rows(x)]
            BY <1>1, <1>2, <2>4, ViewFacts DEF ListUpdate, TablesKept, Listed
        <3>2. \A x : Rows(x)' = Rows(x)
            BY <2>1 DEF Rows, FileParses
        <3>3. Without(before', cmd'[w].d) = [x \in names'[w] \ {cmd'[w].d} |-> Rows(x)']
            BY <1>1, <3>1, <3>2
        <3>4. ListUpdate(w)'
            BY <1>1, <2>1, <2>4, <3>3 DEF ListUpdate
        <3>5. Progress(w)'
            BY <1>1, <1>2, <3>4, WritingFacts DEF Progress, Writing
        <3> QED
            BY <1>1, <1>2, <2>2, <2>1, <3>5, WritingFacts, CommandTable
               DEF CrashInv
    <2> QED
        BY <1>2, <1>3, <2>3, <2>4, WritingFacts DEF RowsWrite
<1>4. CASE out[w].to # "config"
    <2>1. RowsWrite(w) /\ out[w].to = cmd[w].d
        BY <1>2, <1>4, WritingFacts DEF ListRepair, ListUpdate, RowsWrite
    <2>2. /\ config' = config /\ DOMAIN file' = Dataset /\ file'[cmd[w].d] = BlankRows
          /\ \A x \in Dataset : x # cmd[w].d => file'[x] = file[x]
        BY <1>2, <1>4, <2>1, WritingFacts DEF Open, CrashInv
    <2>3. TablesKept(w)'
        BY <1>1, <1>2, <2>2, OwnTableEmpty, WritingFacts DEF BlankRows
    <2>4. RowsWrite(w)'
        BY <1>1, <2>1, <2>2 DEF RowsWrite, ConfigParses, Rows, BlankRows
    <2>5. Progress(w)'
        BY <1>1, <1>2, <2>3, <2>4, WritingFacts DEF Progress, Writing
    <2> QED
        BY <1>1, <1>2, <2>2, <2>5, WritingFacts, CommandTable DEF CrashInv
<1> QED
    BY <1>3, <1>4

\* The directory is gone and the open fails.
LEMMA OpenFailsForgets ==
    ASSUME NEW w, Worker = {w}, CrashInv(w), OpenFails(w)
    PROVE  CrashInv(w)'
BY ReplyForgets, DieForgets DEF OpenFails, WriteFails, disk

\* The ofstream is closed: the file holds the whole text.
LEMMA Flushes ==
    ASSUME NEW w, Worker = {w}, CrashInv(w), Flush(w)
    PROVE  CrashInv(w)'
<1>1. /\ pc[w] = "flush" /\ pc'[w] = out[w].next /\ DOMAIN pc' = Worker
      /\ DOMAIN out' = Worker /\ UNCHANGED <<cmd, names, before>>
    BY DEF Flush, Goto, history, CrashInv
<1>2. Writing(w) /\ cmd[w] \in Command
    BY <1>1, WritingFacts DEF Writing
<1>3. cmd[w].d \in Dataset /\ cmd[w].d # "config" /\ "config" \notin Dataset
    BY <1>2, CommandTable, DatasetAssumption
<1>4. CASE ListRepair(w)
    <2>0. config' = Overlay(config, out[w].text) /\ UNCHANGED file
        BY <1>3, <1>4 DEF Flush, ListRepair
    <2>1. config' = NameText({})
        BY <1>1, <1>4, <2>0, NameTextFacts DEF ListRepair
    <2>2. ConfigParses' /\ config'.val = {} /\ Listed' = {} /\ Listed = {}
        BY <1>4, <2>1, NameTextFacts DEF ConfigParses, Listed, ListRepair
    <2>3. TablesKept(w)'
        BY <1>1, <1>2, <1>4, <2>2, WritingFacts, NoTableListed DEF ListRepair, ListUpdate
    <2>4. Progress(w)'
        BY <1>1, <1>2, <1>4, <2>2, <2>3 DEF Progress, Writing, ListRepair
    <2> QED
        BY <1>1, <1>2, <1>4, <2>0, <2>2, <2>4, CommandTable
           DEF CrashInv, ListRepair
<1>5. CASE ListUpdate(w)
    <2> DEFINE S == out[w].text.val
    <2>0. config' = Overlay(config, out[w].text) /\ UNCHANGED file
        BY <1>3, <1>5 DEF Flush, ListUpdate
    <2>1. config' = NameText(S)
        BY <1>1, <1>5, <2>0, NameTextFacts DEF ListUpdate
    <2>2. ConfigParses' /\ config'.val = S /\ Listed' = S
        BY <2>1, NameTextFacts DEF ConfigParses, Listed
    <2>3. \A x : Rows(x)' = Rows(x)
        BY <2>0 DEF Rows, FileParses
    <2>4. /\ S \ {cmd[w].d} = names[w] \ {cmd[w].d}
          /\ Without(before, cmd[w].d) = [x \in names[w] \ {cmd[w].d} |-> Rows(x)]
        BY <1>1, <1>5 DEF ListUpdate
    <2> HIDE DEF S
    <2>5. Without(View', cmd[w].d) = Without(before, cmd[w].d)
        BY <2>2, <2>3, <2>4, NextViewFacts, SMTT(30)
    <2>6. Progress(w)'
        BY <1>1, <1>2, <1>5, <2>5 DEF Progress, Writing, ListUpdate
    <2> QED
        BY <1>1, <1>2, <1>5, <2>0, <2>2, <2>6, CommandTable DEF CrashInv, ListUpdate, S
<1>6. CASE RowsWrite(w)
    <2>1. /\ config' = config /\ DOMAIN file' = Dataset
          /\ file'[cmd[w].d].val = out[w].text.val
          /\ \A x \in Dataset : x # cmd[w].d => file'[x] = file[x]
        BY <1>1, <1>3, <1>6 DEF Flush, RowsWrite, Overlay, CrashInv
    <2>2. ConfigParses' /\ config'.val = names'[w]
        BY <1>1, <1>6, <2>1 DEF ConfigParses, RowsWrite
    <2>3. TablesKept(w)
        BY <1>2, <1>3, <1>6, WritingFacts DEF ListUpdate, RowsWrite
    <2>4. CASE out[w].next = "done"
        <3>1. Without(View', cmd[w].d) = Without(View, cmd[w].d)
            BY <2>1, OtherTables DEF CrashInv
        <3>2. Progress(w)'
            BY <1>1, <1>2, <2>3, <2>4, <3>1 DEF Progress, Writing, TablesKept
        <3> QED
            BY <1>1, <1>2, <2>1, <2>4, <3>2, CommandTable DEF CrashInv
    <2>5. CASE out[w].next # "done"
        <3>1. file'[cmd[w].d].val = <<>>
            BY <1>6, <2>1, <2>5 DEF RowsWrite, RowText
        <3>2. TablesKept(w)'
            BY <1>1, <1>3, <2>1, <2>3, <3>1, OwnTableEmpty
        <3>3. out[w].next \in Inside
            BY <1>6, <2>5 DEF RowsWrite, Inside
        <3>4. Progress(w)'
            BY <1>1, <1>2, <2>2, <3>2, <3>3 DEF Progress, Writing, Inside
        <3> QED
            BY <1>1, <1>2, <2>1, <3>3, <3>4, CommandTable DEF CrashInv, Inside
    <2> QED
        BY <2>4, <2>5
<1> QED
    BY <1>2, <1>4, <1>5, <1>6, WritingFacts

\* DELETE unlinks the file of its own table.
LEMMA Unlinks ==
    ASSUME NEW w, Worker = {w}, CrashInv(w), Unlink(w)
    PROVE  CrashInv(w)'
<1>1. /\ pc[w] = "check" /\ pc'[w] = "rmdir" /\ DOMAIN pc' = Worker
      /\ UNCHANGED <<config, cmd, names, before>> /\ DOMAIN out' = Worker
    BY DEF Unlink, Goto, history, CrashInv
<1>2. /\ cmd[w] \in Command /\ cmd[w].d \in Dataset /\ TablesKept(w)
      /\ ConfigParses /\ config.val = names[w]
    BY <1>1, InsideFacts DEF Inside
<1>3. /\ DOMAIN file' = Dataset /\ file'[cmd[w].d] = NoFile
      /\ \A x \in Dataset : x # cmd[w].d => file'[x] = file[x]
    BY <1>2 DEF Unlink, CrashInv
<1>4. TablesKept(w)'
    BY <1>1, <1>2, <1>3, OwnTableEmpty DEF NoFile
<1>5. ConfigParses' /\ config'.val = names'[w]
    BY <1>1, <1>2 DEF ConfigParses
<1>6. Progress(w)'
    BY <1>1, <1>2, <1>4, <1>5 DEF Progress, Writing
<1> QED
    BY <1>1, <1>2, <1>3, <1>6, CommandTable DEF CrashInv

\* The steps of CREATE and DELETE around their writes.
LEMMA MakesTable ==
    ASSUME NEW w, Worker = {w}, CrashInv(w),
           \/ FindDirectory(w) \/ MakeDirectory(w) \/ DirectoryIsThere(w)
           \/ CreateFile(w) \/ RemoveDirectory(w)
    PROVE  CrashInv(w)'
<1>1. CASE FindDirectory(w) \/ MakeDirectory(w) \/ DirectoryIsThere(w)
    <2>1. pc[w] \in Inside /\ UNCHANGED <<config, file>>
        BY <1>1 DEF FindDirectory, Creating, MakeDirectory, DirectoryIsThere, Inside, disk
    <2>2. \/ Die
          \/ /\ Goto(w, "exists") \/ Goto(w, "mkdir") \/ Goto(w, "isdir")
             /\ UNCHANGED <<cmd, names, out, before>>
        BY <1>1 DEF FindDirectory, MakeDirectory, DirectoryIsThere, history
    <2>3. {"exists", "mkdir", "isdir"} \subseteq Inside
        BY DEF Inside
    <2> QED
        BY <2>1, <2>2, <2>3, DieForgets, MovesInside
<1>2. CASE CreateFile(w)
    <2>1. pc[w] \in Inside /\ UNCHANGED <<config, file, cmd, names, before>>
        BY <1>2 DEF CreateFile, Inside, disk, history
    <2>2. CASE Exists(cmd[w].d)
        BY <1>2, <2>1, <2>2, MovesInside DEF CreateFile, Inside
    <2>3. CASE ~Exists(cmd[w].d)
        <3>1. Rows(cmd[w].d) = <<>>
            BY <2>3, EmptyRows DEF Exists, NoFile
        <3> QED
            BY <1>2, <2>1, <2>3, <3>1, BeginsRows DEF CreateFile
    <2> QED
        BY <2>2, <2>3
<1>3. CASE RemoveDirectory(w)
    BY <1>3, MovesInside, ReplyForgets DEF RemoveDirectory, Inside
<1> QED
    BY <1>1, <1>2, <1>3

\* The handlers of rows go to the file.
LEMMA GoesToTheFile ==
    ASSUME NEW w, Worker = {w}, CrashInv(w),
           StartEmpty(w) \/ StartAdd(w) \/ StartSelect(w) \/ Probe(w)
    PROVE  CrashInv(w)'
<1>1. pc[w] \in Inside /\ UNCHANGED <<config, file, cmd, names, before>>
    BY DEF StartEmpty, StartAdd, StartSelect, Probe, Found, Inside, disk, history
<1>2. CASE StartEmpty(w)
    BY <1>1, <1>2, BeginsRows DEF StartEmpty
<1>3. CASE StartAdd(w)
    BY <1>1, <1>3, MovesInside DEF StartAdd, Inside
<1>4. CASE StartSelect(w)
    BY <1>1, <1>4, MovesInside DEF StartSelect, Inside
<1>5. CASE Probe(w)
    <2>1. (IF Exists(cmd[w].d) THEN "read" ELSE "use") \in Inside
        BY DEF Inside
    <2> QED
        BY <1>1, <1>5, <2>1, MovesInside DEF Probe
<1> QED
    BY <1>2, <1>3, <1>4, <1>5

\* The file is read, or made, or replaced by the empty table that it is read as.
LEMMA Reads ==
    ASSUME NEW w, Worker = {w}, CrashInv(w), Read(w) \/ ReadData(w)
    PROVE  CrashInv(w)'
<1>1. /\ pc[w] \in Inside /\ UNCHANGED <<config, file>>
      /\ \/ Goto(w, "use") /\ UNCHANGED <<cmd, names, out, before>>
         \/ Goto(w, "unique") /\ UNCHANGED <<cmd, names, out, before>>
         \/ Reply(w, 3, <<>>)
         \/ /\ \E next \in {"use", "reread", "unique"} : BeginWriteRows(w, <<>>, next)
            /\ ~Exists(cmd[w].d) \/ ~FileParses(cmd[w].d)
            /\ UNCHANGED <<cmd, names, before>>
    BY DEF Read, ReadData, Inside, disk, history
<1>2. ASSUME ~Exists(cmd[w].d) \/ ~FileParses(cmd[w].d)
      PROVE  Rows(cmd[w].d) = <<>>
    BY <1>2, EmptyRows DEF Exists, NoFile
<1> QED
    BY <1>1, <1>2, MovesInside, ReplyForgets, BeginsRows DEF Inside

\* The UNIQUE test, and the answers.
LEMMA TestsOrAnswers ==
    ASSUME NEW w, Worker = {w}, CrashInv(w),
           TestUnique(w) \/ AnswerGet(w) \/ AnswerCount(w) \/ Refuse(w) \/ Finish(w)
    PROVE  CrashInv(w)'
<1>1. CASE TestUnique(w)
    <2>1. pc[w] \in Inside /\ UNCHANGED <<config, file>>
        BY <1>1 DEF TestUnique, Inside, disk
    <2>2. \/ Reply(w, 10, <<>>)
          \/ Goto(w, "loadConfig") /\ UNCHANGED <<cmd, names, out, before>>
        BY <1>1 DEF TestUnique, history
    <2> QED
        BY <2>1, <2>2, ReplyForgets, MovesInside
<1>2. CASE AnswerGet(w) \/ AnswerCount(w) \/ Refuse(w) \/ Finish(w)
    BY <1>2, ReplyForgets DEF AnswerGet, AnswerCount, Refuse, Finish, disk
<1> QED
    BY <1>1, <1>2

\* The rows are to be written back.
LEMMA WritesBack ==
    ASSUME NEW w, Worker = {w}, CrashInv(w),
           Insert(w) \/ OverwriteRemove(w) \/ OverwriteChange(w)
    PROVE  CrashInv(w)'
<1>1. pc[w] \in Inside /\ UNCHANGED <<config, file, cmd, names, before>>
    BY DEF Insert, OverwriteRemove, OverwriteChange, Inside, disk, history
<1>2. \E s : BeginWriteRows(w, s, "done")
    BY DEF Insert, OverwriteRemove, OverwriteChange
<1> QED
    BY <1>1, <1>2, BeginsRows

\* Only CREATE and DELETE change the directories, for a table that a command
\* names.
LEMMA DirectoriesOfTables ==
    ASSUME NEW w, Worker = {w}, CrashInv(w), dir \subseteq Dataset, Handler(w)
    PROVE  dir' \subseteq Dataset
<1>1. CASE MakeDirectory(w) \/ RemoveDirectory(w)
    <2>1. cmd[w].d \in Dataset
        BY <1>1, InsideFacts DEF MakeDirectory, RemoveDirectory, Inside
    <2> QED
        BY <1>1, <2>1 DEF MakeDirectory, RemoveDirectory
<1>2. CASE dir' = dir
    BY <1>2
<1>3. MakeDirectory(w) \/ RemoveDirectory(w) \/ dir' = dir
    BY DEF Handler, Begin, LoadConfig, Refuse, Open, OpenFails, WriteFails, Flush, Finish,
           FindDirectory, DirectoryIsThere, CreateFile,
           SaveConfig, Unlink, StartEmpty, StartAdd, StartSelect, Read, ReadData,
           TestUnique, Probe, AnswerGet, AnswerCount, Insert, OverwriteRemove,
           OverwriteChange, disk
<1> QED
    BY <1>1, <1>2, <1>3

-----------------------------------------------------------------------------
\* Every step keeps the invariant.
LEMMA NextCrash ==
    ASSUME NEW w, Worker = {w}, CrashInv(w), dir \subseteq Dataset, [Next]_vars,
           MaxFailures = 0, failures \in Nat
    PROVE  CrashInv(w)' /\ dir' \subseteq Dataset
<1>1. ASSUME Handler(w)
      PROVE  CrashInv(w)'
    BY <1>1, Begins, Loads, Opens, OpenFailsForgets, Flushes, BeginsList, Unlinks,
       MakesTable, GoesToTheFile, Reads, TestsOrAnswers, WritesBack DEF Handler
<1>2. ASSUME Handler(w)
      PROVE  dir' \subseteq Dataset
    BY <1>2, DirectoriesOfTables
<1>3. ASSUME Crash
      PROVE  CrashInv(w)' /\ dir' \subseteq Dataset
    BY <1>3, DieForgets DEF Crash, disk
<1>4. ASSUME Restart \/ UNCHANGED vars
      PROVE  CrashInv(w)' /\ dir' \subseteq Dataset
    <2>1. UNCHANGED <<config, dir, file, cmd, pc, names, out, before>>
        BY <1>4 DEF Restart, vars, disk, local, history
    <2>2. cmd[w] # NoCommand => Progress(w)'
        <3> SUFFICES ASSUME cmd[w] # NoCommand
                     PROVE  Progress(w)'
            OBVIOUS
        <3>1. Progress(w)
            BY DEF CrashInv
        <3> QED
            BY <2>1, <3>1 DEF Progress, Writing, ListRepair, ListUpdate, RowsWrite, TablesKept,
                              View, ConfigParses, Rows, FileParses
    <2> QED
        BY <2>1, <2>2 DEF CrashInv
<1>5. ~NoDescriptor(w)
    BY DEF NoDescriptor
<1> QED
    BY <1>1, <1>2, <1>3, <1>4, <1>5 DEF Next

\* The store starts with no command and no table.
LEMMA InitCrash ==
    ASSUME NEW w, Worker = {w}, Init
    PROVE  CrashInv(w) /\ dir \subseteq Dataset
<1>1. config.val = {}
    BY NameTextFacts DEF Init
<1> QED
    BY <1>1 DEF Init, CrashInv

\* What a command relies on bounds what its death can cost.
LEMMA CrashInvBoundsDamage ==
    ASSUME NEW w, Worker = {w}, CrashInv(w)
    PROVE  DamageIsLocal
<1> SUFFICES ASSUME cmd[w] # NoCommand, ~ListIsTruncated(w)
             PROVE  LET d == cmd[w].d IN
                    /\ Without(View, d) = Without(before, d)
                    /\ pc[w] # "done" => /\ d \in DOMAIN View <=> d \in DOMAIN before
                                         /\ d \in DOMAIN View => View[d] \in {before[d], <<>>}
    BY DEF DamageIsLocal
<1>1. Progress(w)
    BY DEF CrashInv
<1>2. ~(pc[w] = "flush" /\ ListUpdate(w))
    BY DEF ListIsTruncated, ListUpdate
<1> QED
    BY <1>1, <1>2 DEF Progress, TablesKept

\* With one worker, whatever the number of crashes and the step at which each
\* comes, the tables that the interrupted command does not name are what they
\* were, and its own is what it was or empty, save while create or drop has the
\* list truncated.  No open is to fail for want of a descriptor.
THEOREM DamageOfACrash ==
    ASSUME NEW w, Worker = {w}, MaxFailures = 0
    PROVE  Spec => []DamageIsLocal
<1>1. Init => CrashInv(w) /\ dir \subseteq Dataset
    BY InitCrash
<1>2. CrashInv(w) /\ dir \subseteq Dataset /\ [Next]_vars /\ failures \in Nat =>
          (CrashInv(w) /\ dir \subseteq Dataset)'
    BY NextCrash
<1>3. CrashInv(w) => DamageIsLocal
    BY CrashInvBoundsDamage
<1> QED
    BY <1>1, <1>2, <1>3, FailuresCounted, PTL DEF Spec

-----------------------------------------------------------------------------
(* One worker: the sizes of the files, on which the bound of ADD depends.  *)

\* The content of a file of rows, or what is to be written there.
Sized(content) == content.val \in Seq(Value) /\ content.len \in -1..(MaxRows + 1)

\* What w may have in memory: an ADD has begun on a table with room for one more.
Room(w) == IF cmd[w].op = "ADD" THEN MaxRows ELSE MaxRows + 1

FilesSized ==
    /\ config.len \in 0..(Cardinality(Dataset) + 1)
    /\ DOMAIN file = Dataset /\ \A d \in Dataset : Sized(file[d])

RowsSized(w) ==
    /\ DOMAIN rows = Worker /\ DOMAIN checked = Worker
    /\ rows[w] \in Seq(Value) /\ Len(rows[w]) + 1 <= Room(w) /\ checked[w] \in BOOLEAN
    /\ pc[w] = "idle" => rows[w] = <<>>

\* An ADD finds room until it has written, and so does what a worker writes.
WritesFit(w) ==
    /\ cmd[w].op = "ADD" /\ pc[w] \notin {"idle", "done"} => file[cmd[w].d].len <= MaxRows
    /\ Writing(w) /\ out[w].to # "config" => Sized(out[w].text)

SizeInv(w) == FilesSized /\ RowsSized(w) /\ WritesFit(w)

\* Texts and files of no rows.
LEMMA EmptySizes ==
    /\ Sized(BlankRows) /\ Sized(NoFile) /\ Sized(RowText(<<>>))
    /\ BlankRows.len = 0 /\ NoFile.len = -1 /\ RowText(<<>>).len = 1
    /\ MaxRows \in Nat /\ MaxRows >= 1 /\ <<>> \in Seq(Value) /\ Len(<<>>) = 0
BY BoundAssumption DEF Sized, BlankRows, NoFile, RowText

\* A list of some of the tables is no longer than one of all.
LEMMA ListSizes ==
    /\ Cardinality(Dataset) \in Nat
    /\ \A S \in SUBSET Dataset : NameText(S).len \in 0..(Cardinality(Dataset) + 1)
<1>1. Cardinality(Dataset) \in Nat
    BY BoundAssumption, FS_CardinalityType
<1>2. ASSUME NEW S \in SUBSET Dataset
      PROVE  NameText(S).len \in 0..(Cardinality(Dataset) + 1)
    <2>1. IsFiniteSet(S) /\ Cardinality(S) <= Cardinality(Dataset)
        BY BoundAssumption, FS_Subset
    <2>2. Cardinality(S) \in Nat
        BY <2>1, FS_CardinalityType
    <2> QED
        BY <1>1, <2>1, <2>2 DEF NameText
<1> QED
    BY <1>1, <1>2

\* A worker without a command has no rows in memory.
LEMMA ForgetsRows ==
    ASSUME NEW w, Worker = {w}, SizeInv(w), UNCHANGED <<config, file>>,
           DOMAIN rows' = Worker, DOMAIN checked' = Worker,
           cmd'[w] = NoCommand, pc'[w] = "idle", rows'[w] = <<>>, checked'[w] = FALSE
    PROVE  SizeInv(w)'
<1>1. cmd'[w].op # "ADD"
    BY DEF NoCommand
<1>2. FilesSized'
    BY DEF SizeInv, FilesSized, Sized
<1>3. RowsSized(w)'
    <2>1. rows'[w] \in Seq(Value) /\ Len(rows'[w]) = 0
        BY EmptySizes
    <2>2. Room(w)' = MaxRows + 1
        BY <1>1 DEF Room
    <2>3. Len(rows'[w]) + 1 <= Room(w)'
        BY <2>1, <2>2, EmptySizes
    <2> QED
        BY <2>1, <2>3 DEF RowsSized
<1>4. WritesFit(w)'
    BY <1>1 DEF WritesFit, Writing
<1> QED
    BY <1>2, <1>3, <1>4 DEF SizeInv

\* So does a reply.
LEMMA ReplySizes ==
    ASSUME NEW w, Worker = {w}, SizeInv(w), CrashInv(w), UNCHANGED <<config, file>>,
           NEW code, NEW result, Reply(w, code, result)
    PROVE  SizeInv(w)'
<1>1. /\ DOMAIN rows' = Worker /\ DOMAIN checked' = Worker
      /\ cmd'[w] = NoCommand /\ pc'[w] = "idle" /\ rows'[w] = <<>> /\ checked'[w] = FALSE
    BY DEF Reply, SizeInv, RowsSized, CrashInv
<1> QED
    BY <1>1, ForgetsRows

\* And so does the end of the process.
LEMMA DieSizes ==
    ASSUME NEW w, Worker = {w}, SizeInv(w), UNCHANGED <<config, file>>, Die
    PROVE  SizeInv(w)'
BY ForgetsRows DEF Die

\* A handler moves on, with rows in memory that fit.
LEMMA MovesSized ==
    ASSUME NEW w, Worker = {w}, SizeInv(w), CrashInv(w), pc[w] \notin {"idle", "done"},
           NEW place, place \notin {"open", "flush", "idle"}, Goto(w, place),
           UNCHANGED <<config, file, cmd>>,
           DOMAIN rows' = Worker, DOMAIN checked' = Worker,
           rows'[w] \in Seq(Value), Len(rows'[w]) + 1 <= Room(w), checked'[w] \in BOOLEAN
    PROVE  SizeInv(w)'
<1>1. pc'[w] = place
    BY DEF Goto, CrashInv
<1>2. FilesSized'
    BY DEF SizeInv, FilesSized, Sized
<1>3. RowsSized(w)'
    BY <1>1 DEF RowsSized, Room
<1>4. WritesFit(w)'
    BY <1>1 DEF SizeInv, WritesFit, Writing
<1> QED
    BY <1>2, <1>3, <1>4 DEF SizeInv

\* The same with the rows it has.
LEMMA MovesOn ==
    ASSUME NEW w, Worker = {w}, SizeInv(w), CrashInv(w), pc[w] \notin {"idle", "done"},
           NEW place, place \notin {"open", "flush", "idle"}, Goto(w, place),
           UNCHANGED <<config, file, cmd, rows, checked>>
    PROVE  SizeInv(w)'
BY MovesSized DEF SizeInv, RowsSized

\* A handler begins to write.
LEMMA BeginsSized ==
    ASSUME NEW w, Worker = {w}, SizeInv(w), CrashInv(w), pc[w] \notin {"idle", "done"},
           UNCHANGED <<config, file, cmd, rows, checked>>,
           \/ \E s, next : BeginWriteRows(w, s, next) /\ Sized(RowText(s))
           \/ \E S, next : BeginWriteConfig(w, S, next)
    PROVE  SizeInv(w)'
<1>1. pc'[w] = "open"
    BY DEF BeginWriteRows, BeginWriteConfig, Goto, CrashInv
<1>2. out'[w].to # "config" => Sized(out'[w].text)
    BY DEF BeginWriteRows, BeginWriteConfig, CrashInv
<1>3. FilesSized'
    BY DEF SizeInv, FilesSized, Sized
<1>4. RowsSized(w)'
    BY <1>1 DEF SizeInv, RowsSized, Room
<1>5. WritesFit(w)'
    BY <1>1, <1>2 DEF SizeInv, WritesFit, Sized
<1> QED
    BY <1>3, <1>4, <1>5 DEF SizeInv

\* A command begins, an ADD on a table with room for a row.
LEMMA BeginSizes ==
    ASSUME NEW w, Worker = {w}, SizeInv(w), CrashInv(w), NEW c \in Command, Begin(w, c)
    PROVE  SizeInv(w)'
<1>1. /\ cmd'[w] = c /\ pc'[w] = "loadConfig" /\ UNCHANGED <<config, file, rows, checked>>
      /\ c.op = "ADD" => file[c.d].len <= MaxRows
    BY DEF Begin, Goto, disk, CrashInv
<1>2. rows[w] = <<>>
    BY DEF Begin, CrashInv, SizeInv, RowsSized
<1>3. FilesSized'
    BY <1>1 DEF SizeInv, FilesSized, Sized
<1>4. RowsSized(w)'
    BY <1>1, <1>2, EmptySizes DEF SizeInv, RowsSized, Room
<1>5. WritesFit(w)'
    BY <1>1 DEF WritesFit, Writing
<1> QED
    BY <1>3, <1>4, <1>5 DEF SizeInv

\* The ofstream is opened: the file is empty.
LEMMA OpenSizes ==
    ASSUME NEW w, Worker = {w}, SizeInv(w), CrashInv(w), Open(w)
    PROVE  SizeInv(w)'
<1>1. /\ pc[w] = "open" /\ pc'[w] = "flush" /\ UNCHANGED <<cmd, rows, checked, out>>
    BY DEF Open, Goto, CrashInv
<1>2. \/ config' = BlankNames /\ UNCHANGED file
      \/ /\ config' = config
         /\ file' = [file EXCEPT ![out[w].to] = BlankRows]
    BY DEF Open
<1>3. BlankNames.len = 0
    BY DEF BlankNames
<1>4. \A d \in Dataset : file'[d] = file[d] \/ file'[d] = BlankRows
    BY <1>2 DEF SizeInv, FilesSized
<1>5. FilesSized'
    BY <1>2, <1>3, <1>4, EmptySizes, ListSizes, SMTT(30) DEF SizeInv, FilesSized, Sized
<1>6. RowsSized(w)'
    BY <1>1 DEF SizeInv, RowsSized, Room
<1>7. cmd[w].d \in Dataset
    BY <1>1, WritingFacts DEF Writing
<1>8. WritesFit(w)'
    BY <1>1, <1>4, <1>7, EmptySizes DEF SizeInv, WritesFit, Writing, Sized
<1> QED
    BY <1>5, <1>6, <1>8 DEF SizeInv

\* The ofstream is closed: the file is as long as what was written, or as before.
LEMMA FlushSizes ==
    ASSUME NEW w, Worker = {w}, SizeInv(w), CrashInv(w), Flush(w)
    PROVE  SizeInv(w)'
<1>1. /\ pc[w] = "flush" /\ pc'[w] = out[w].next /\ UNCHANGED <<cmd, rows, checked>>
    BY DEF Flush, Goto, CrashInv
<1>2. /\ cmd[w].d \in Dataset /\ cmd[w].d # "config" /\ "config" \notin Dataset
      /\ ListRepair(w) \/ ListUpdate(w) \/ RowsWrite(w)
      /\ out[w].next \notin {"open", "flush", "idle"}
    BY <1>1, WritingFacts, DatasetAssumption DEF Writing
<1>3. RowsSized(w)'
    BY <1>1, <1>2 DEF SizeInv, RowsSized, Room
<1>4. CASE ListRepair(w) \/ ListUpdate(w)
    <2>1. config' = Overlay(config, out[w].text) /\ UNCHANGED file
        BY <1>2, <1>4 DEF Flush, ListRepair, ListUpdate
    <2>2. out[w].text.len \in 0..(Cardinality(Dataset) + 1)
        BY <1>4, ListSizes DEF ListRepair, ListUpdate
    <2>3. config'.len \in 0..(Cardinality(Dataset) + 1)
        BY <2>1, <2>2, ListSizes DEF SizeInv, FilesSized, Overlay
    <2>4. FilesSized'
        BY <2>1, <2>3 DEF SizeInv, FilesSized, Sized
    <2>5. WritesFit(w)'
        BY <1>1, <1>2, <2>1 DEF SizeInv, WritesFit, Writing
    <2> QED
        BY <1>3, <2>4, <2>5 DEF SizeInv
<1>5. CASE RowsWrite(w)
    <2>1. /\ out[w].to = cmd[w].d /\ UNCHANGED config
          /\ file' = [file EXCEPT ![cmd[w].d] = Overlay(@, out[w].text)]
        BY <1>2, <1>5 DEF Flush, RowsWrite
    <2>2. Sized(out[w].text) /\ Sized(file[cmd[w].d])
        BY <1>1, <1>2, <2>1 DEF SizeInv, WritesFit, Writing, FilesSized
    <2>3. file'[cmd[w].d] = Overlay(file[cmd[w].d], out[w].text)
        BY <1>2, <2>1 DEF SizeInv, FilesSized
    <2>4. Sized(file'[cmd[w].d])
        BY <2>2, <2>3, EmptySizes DEF Sized, Overlay
    <2>5. FilesSized'
        BY <1>2, <2>1, <2>4 DEF SizeInv, FilesSized, Sized
    <2>6. ASSUME cmd[w].op = "ADD", out[w].next # "done"
          PROVE  file'[cmd[w].d].len <= MaxRows
        <3>1. out[w].text.len = 1
            BY <1>5, <2>6, EmptySizes DEF RowsWrite
        <3>2. file[cmd[w].d].len <= MaxRows
            BY <1>1, <2>6 DEF SizeInv, WritesFit
        <3> QED
            BY <2>3, <3>1, <3>2, EmptySizes DEF Overlay
    <2>7. WritesFit(w)'
        BY <1>1, <1>2, <2>6 DEF WritesFit, Writing
    <2> QED
        BY <1>3, <2>5, <2>7 DEF SizeInv
<1> QED
    BY <1>2, <1>4, <1>5

\* The steps of CREATE and DELETE, and that of loadConfig.
LEMMA ListSteps ==
    ASSUME NEW w, Worker = {w}, SizeInv(w), CrashInv(w),
           \/ LoadConfig(w) \/ FindDirectory(w) \/ MakeDirectory(w) \/ DirectoryIsThere(w)
           \/ CreateFile(w) \/ SaveConfig(w) \/ Unlink(w) \/ RemoveDirectory(w)
    PROVE  SizeInv(w)'
<1>1. CASE \/ LoadConfig(w) \/ FindDirectory(w) \/ MakeDirectory(w) \/ DirectoryIsThere(w)
           \/ CreateFile(w) \/ SaveConfig(w)
    <2>1. pc[w] \notin {"idle", "done"} /\ UNCHANGED <<config, file>>
        BY <1>1 DEF LoadConfig, FindDirectory, Creating, MakeDirectory, DirectoryIsThere,
                    CreateFile, SaveConfig, disk
    <2>2. \/ Die
          \/ /\ \/ \E place \in {"check", "exists", "mkdir", "isdir", "saveConfig"} :
                       Goto(w, place)
                \/ \E next : BeginWriteRows(w, <<>>, next)
                \/ \E S, next : BeginWriteConfig(w, S, next)
             /\ UNCHANGED <<cmd, rows, checked>>
        BY <1>1 DEF LoadConfig, FindDirectory, MakeDirectory, DirectoryIsThere, CreateFile,
                    SaveConfig
    <2>3. CASE /\ \E place \in {"check", "exists", "mkdir", "isdir", "saveConfig"} :
                     Goto(w, place)
               /\ UNCHANGED <<cmd, rows, checked>>
        BY <2>1, <2>3, MovesOn
    <2>4. CASE /\ \/ \E next : BeginWriteRows(w, <<>>, next)
                  \/ \E S, next : BeginWriteConfig(w, S, next)
               /\ UNCHANGED <<cmd, rows, checked>>
        BY <2>1, <2>4, BeginsSized, EmptySizes
    <2>5. CASE Die
        BY <2>1, <2>5, DieSizes
    <2> QED
        BY <2>2, <2>3, <2>4, <2>5
<1>2. CASE Unlink(w)
    <2>1. /\ pc[w] = "check" /\ pc'[w] = "rmdir"
          /\ cmd[w].op = "DELETE" /\ UNCHANGED <<config, cmd, rows, checked>>
          /\ file' = [file EXCEPT ![cmd[w].d] = NoFile]
        BY <1>2 DEF Unlink, Goto, CrashInv
    <2>2. \A d \in Dataset : file'[d] = file[d] \/ file'[d] = NoFile
        BY <2>1 DEF SizeInv, FilesSized
    <2>3. FilesSized'
        BY <2>1, <2>2, EmptySizes DEF SizeInv, FilesSized, Sized
    <2>4. RowsSized(w)'
        BY <2>1 DEF SizeInv, RowsSized, Room
    <2>5. WritesFit(w)'
        BY <2>1 DEF WritesFit, Writing
    <2> QED
        BY <2>3, <2>4, <2>5 DEF SizeInv
<1>3. CASE RemoveDirectory(w)
    <2>1. /\ pc[w] = "rmdir" /\ UNCHANGED <<config, file>>
          /\ \/ Goto(w, "saveConfig") /\ UNCHANGED <<cmd, rows, checked>>
             \/ Reply(w, 457, <<>>)
        BY <1>3 DEF RemoveDirectory
    <2> QED
        BY <2>1, MovesOn, ReplySizes
<1> QED
    BY <1>1, <1>2, <1>3

\* What is read from a file fits into memory.
LEMMA ReadFits ==
    ASSUME NEW w, SizeInv(w), CrashInv(w), pc[w] \in Inside, FileParses(cmd[w].d)
    PROVE  /\ file[cmd[w].d].val \in Seq(Value)
           /\ Len(file[cmd[w].d].val) + 1 <= Room(w)
<1>1. cmd[w].d \in Dataset /\ pc[w] \notin {"idle", "done"}
    BY InsideFacts DEF Inside
<1>2. file[cmd[w].d].len = Len(file[cmd[w].d].val) + 1
    BY DEF FileParses, RowText
<1>3. Sized(file[cmd[w].d])
    BY <1>1 DEF SizeInv, FilesSized
<1> QED
    BY <1>1, <1>2, <1>3 DEF SizeInv, WritesFit, Sized, Room

\* The steps that read rows, or are about to.
LEMMA ReadingSteps ==
    ASSUME NEW w, Worker = {w}, SizeInv(w), CrashInv(w),
           \/ StartEmpty(w) \/ StartAdd(w) \/ StartSelect(w) \/ Probe(w)
           \/ Read(w) \/ ReadData(w) \/ TestUnique(w)
    PROVE  SizeInv(w)'
<1>1. /\ pc[w] \in Inside /\ pc[w] \notin {"idle", "done"} /\ UNCHANGED <<config, file>>
    BY DEF StartEmpty, StartAdd, StartSelect, Probe, Read, ReadData, TestUnique, Found,
           Inside, disk
<1>2. \/ /\ \E place \in {"readData", "probe", "read", "use"} : Goto(w, place)
         /\ UNCHANGED <<cmd, rows, checked>>
      \/ /\ \E next : BeginWriteRows(w, <<>>, next)
         /\ UNCHANGED <<cmd, rows, checked>>
      \/ /\ \E place \in {"use", "unique"} : Goto(w, place)
         /\ FileParses(cmd[w].d) /\ rows' = [rows EXCEPT ![w] = file[cmd[w].d].val]
         /\ UNCHANGED <<cmd, checked>>
      \/ /\ Goto(w, "loadConfig") /\ UNCHANGED cmd
         /\ rows' = [rows EXCEPT ![w] = <<>>] /\ checked' = [checked EXCEPT ![w] = TRUE]
      \/ \E code : Reply(w, code, <<>>)
    BY DEF StartEmpty, StartAdd, StartSelect, Probe, Read, ReadData, TestUnique
<1>3. RowsSized(w)
    BY DEF SizeInv
<1>4. CASE /\ \E place \in {"use", "unique"} : Goto(w, place)
           /\ FileParses(cmd[w].d) /\ rows' = [rows EXCEPT ![w] = file[cmd[w].d].val]
           /\ UNCHANGED <<cmd, checked>>
    <2>1. DOMAIN rows' = Worker /\ rows'[w] = file[cmd[w].d].val
        BY <1>3, <1>4 DEF RowsSized
    <2>2. DOMAIN checked' = Worker /\ checked'[w] \in BOOLEAN
        BY <1>3, <1>4 DEF RowsSized
    <2> QED
        BY <1>1, <1>4, <2>1, <2>2, ReadFits, MovesSized
<1>5. CASE /\ Goto(w, "loadConfig") /\ UNCHANGED cmd
           /\ rows' = [rows EXCEPT ![w] = <<>>] /\ checked' = [checked EXCEPT ![w] = TRUE]
    <2>1. /\ DOMAIN rows' = Worker /\ rows'[w] = <<>>
          /\ DOMAIN checked' = Worker /\ checked'[w] = TRUE
        BY <1>3, <1>5 DEF RowsSized
    <2>2. /\ rows'[w] \in Seq(Value) /\ Len(rows'[w]) = 0
          /\ 1 <= Room(w) /\ checked'[w] \in BOOLEAN
        BY <2>1, EmptySizes DEF Room
    <2>3. Len(rows'[w]) + 1 <= Room(w)
        BY <2>2
    <2> QED
        BY <1>1, <1>5, <2>1, <2>2, <2>3, MovesSized
<1>6. CASE /\ \E place \in {"readData", "probe", "read", "use"} : Goto(w, place)
           /\ UNCHANGED <<cmd, rows, checked>>
    BY <1>1, <1>6, MovesOn
<1>7. CASE /\ \E next : BeginWriteRows(w, <<>>, next)
           /\ UNCHANGED <<cmd, rows, checked>>
    BY <1>1, <1>7, BeginsSized, EmptySizes
<1>8. CASE \E code : Reply(w, code, <<>>)
    BY <1>1, <1>8, ReplySizes
<1> QED
    BY <1>2, <1>4, <1>5, <1>6, <1>7, <1>8

\* The rows that are written back: one more, for which ADD has left room, fewer, or
\* as many.
LEMMA WritesBackSized ==
    ASSUME NEW w, Worker = {w}, SizeInv(w), CrashInv(w),
           Insert(w) \/ OverwriteRemove(w) \/ OverwriteChange(w)
    PROVE  SizeInv(w)'
<1>1. /\ pc[w] \in Inside /\ pc[w] \notin {"idle", "done"}
      /\ UNCHANGED <<config, file, cmd, rows, checked>>
    BY DEF Insert, OverwriteRemove, OverwriteChange, Inside, disk
<1>2. cmd[w] \in Command
    BY <1>1, InsideFacts
<1>3. /\ rows[w] \in Seq(Value) /\ Len(rows[w]) \in Nat
      /\ Len(rows[w]) + 1 <= Room(w) /\ MaxRows \in Nat
    BY EmptySizes DEF SizeInv, RowsSized
<1>4. CASE Insert(w)
    <2>1. cmd[w].v \in Value /\ Room(w) = MaxRows
        BY <1>2, <1>4, CommandAssumption DEF Insert, Room
    <2>2. Sized(RowText(Append(rows[w], cmd[w].v)))
        BY <1>3, <2>1 DEF Sized, RowText
    <2> QED
        BY <1>1, <1>4, <2>2, BeginsSized DEF Insert
<1>5. CASE OverwriteRemove(w)
    <2>1. /\ NotMatching(rows[w], cmd[w]) \in Seq(Value)
          /\ Len(NotMatching(rows[w], cmd[w])) <= Len(rows[w])
        BY <1>3, AmongFacts, AmongLength DEF NotMatching
    <2>2. Sized(RowText(NotMatching(rows[w], cmd[w])))
        BY <1>3, <2>1 DEF Sized, RowText, Room
    <2> QED
        BY <1>1, <1>5, <2>2, BeginsSized DEF OverwriteRemove
<1>6. CASE OverwriteChange(w)
    <2> DEFINE s == [k \in DOMAIN rows[w] |-> IF rows[w][k] \in cmd[w].match
                                              THEN cmd[w].v ELSE rows[w][k]]
    <2>1. cmd[w].v \in Value
        BY <1>2, <1>6, CommandAssumption DEF OverwriteChange
    <2>2. DOMAIN rows[w] = 1..Len(rows[w])
        BY <1>3
    <2>3. s \in [1..Len(rows[w]) -> Value]
        BY <1>3, <2>1, <2>2
    <2>4. s \in Seq(Value) /\ Len(s) = Len(rows[w])
        BY <1>3, <2>3
    <2> HIDE DEF s
    <2>5. Sized(RowText(s))
        BY <1>3, <2>4 DEF Sized, RowText, Room
    <2>6. BeginWriteRows(w, s, "done")
        BY <1>6 DEF OverwriteChange, s
    <2> QED
        BY <1>1, <2>5, <2>6, BeginsSized
<1> QED
    BY <1>4, <1>5, <1>6

\* Every step keeps the sizes.
LEMMA NextSizes ==
    ASSUME NEW w, Worker = {w}, SizeInv(w), CrashInv(w), [Next]_vars,
           MaxFailures = 0, failures \in Nat
    PROVE  SizeInv(w)'
<1>1. ASSUME NEW code, NEW result, Reply(w, code, result), UNCHANGED disk
      PROVE  SizeInv(w)'
    BY <1>1, ReplySizes DEF disk
<1>2. ASSUME Die, UNCHANGED disk
      PROVE  SizeInv(w)'
    BY <1>2, DieSizes DEF disk
<1>3. ASSUME OpenFails(w) \/ Refuse(w) \/ Finish(w) \/ AnswerGet(w) \/ AnswerCount(w)
      PROVE  SizeInv(w)'
    BY <1>1, <1>2, <1>3 DEF OpenFails, WriteFails, Refuse, Finish, AnswerGet, AnswerCount
<1>4. ASSUME Handler(w)
      PROVE  SizeInv(w)'
    BY <1>3, <1>4, BeginSizes, OpenSizes, FlushSizes, ListSteps, ReadingSteps,
       WritesBackSized DEF Handler
<1>5. ASSUME Restart \/ UNCHANGED vars
      PROVE  SizeInv(w)'
    BY <1>5 DEF Restart, vars, disk, local, SizeInv, FilesSized, RowsSized, WritesFit,
                Sized, Room, Writing
<1>6. ~NoDescriptor(w)
    BY DEF NoDescriptor
<1> QED
    BY <1>2, <1>4, <1>5, <1>6 DEF Next, Crash

\* At the start there is one text, that of the empty list.
LEMMA InitSizes ==
    ASSUME NEW w, Worker = {w}, Init
    PROVE  SizeInv(w)
<1>1. FilesSized
    BY EmptySizes, ListSizes DEF Init, FilesSized
<1>2. RowsSized(w)
    BY EmptySizes DEF Init, RowsSized, Room, NoCommand
<1>3. WritesFit(w)
    BY DEF Init, WritesFit, Writing, NoCommand
<1> QED
    BY <1>1, <1>2, <1>3 DEF SizeInv

\* The types follow from what the three invariants say.
LEMMA TypesFollow ==
    ASSUME NEW w, Worker = {w}, MadeInv, CrashInv(w), dir \subseteq Dataset, SizeInv(w)
    PROVE  TypeOK
<1>1. /\ config.val \subseteq Dataset /\ config.len \in 0..(Cardinality(Dataset) + 1)
      /\ \A d \in Dataset : file[d].val \in Seq(Value) /\ file[d].len \in -1..(MaxRows + 1)
    BY DEF CrashInv, SizeInv, FilesSized, Sized
<1>2. (cmd[w] = NoCommand /\ pc[w] = "idle") \/ Progress(w)
    BY DEF CrashInv
<1>3. /\ cmd[w] \in Command \cup {NoCommand}
      /\ pc[w] \in {"idle", "loadConfig", "check", "open", "flush", "done", "exists",
                    "mkdir", "isdir", "saveConfig", "rmdir", "readData", "unique", "probe", "read",
                    "reread", "use"}
    BY <1>2 DEF Progress
<1>4. names[w] \subseteq Dataset /\ rows[w] \in Seq(Value) /\ checked[w] \in BOOLEAN
    BY DEF CrashInv, SizeInv, RowsSized
<1>5. out[w] = NoWrite \/ out[w].to \in Dataset \cup {"config", "unlinked"}
    <2>1. CASE Writing(w)
        BY <2>1, WritingFacts DEF ListRepair, ListUpdate, RowsWrite
    <2>2. CASE ~Writing(w)
        BY <2>2 DEF Writing, MadeInv, WorkerKnows
    <2> QED
        BY <2>1, <2>2
<1> QED
    BY <1>1, <1>3, <1>4, <1>5 DEF TypeOK

\* With one worker the files stay within their sizes, that of the list within the
\* number of tables and those of the rows within the bound on what ADD begins on,
\* and every worker is at a place of its handler with a write of that handler
\* (RoktService and RoktDataset).
THEOREM TypesOfStores ==
    ASSUME NEW w, Worker = {w}, MaxFailures = 0
    PROVE  Spec => []TypeOK
<1> DEFINE Inv == CrashInv(w) /\ dir \subseteq Dataset /\ SizeInv(w)
<1>1. Init => Inv
    BY InitCrash, InitSizes
<1>2. Inv /\ [Next]_vars /\ failures \in Nat => Inv'
    BY NextCrash, NextSizes
<1>3. MadeInv /\ Inv => TypeOK
    BY TypesFollow
<1> QED
    BY <1>1, <1>2, <1>3, MadeInvariant, FailuresCounted, PTL DEF Spec
=============================================================================
