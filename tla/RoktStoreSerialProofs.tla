------------------------ MODULE RoktStoreSerialProofs ------------------------
(***************************************************************************)
(* What the commands of ROKT do when one worker runs them, the process is  *)
(* not killed and no open fails: the files implement the tables of         *)
(* TableStore.  Proof for every set of tables, values and commands.        *)
(***************************************************************************)
EXTENDS RoktStoreProofs

RowCommand(c) == c.op \notin {"CREATE", "DELETE"}

\* g is a map from some tables, whose names can be dumped, to their rows.
TableMap(g) == DOMAIN g \subseteq Dataset \ Undumpable /\ g = [x \in DOMAIN g |-> g[x]]

\* There is no table x: neither directory nor file, or what a CREATE has left that
\* could not dump its name.
Absent(x) == \/ x \notin dir /\ file[x] = NoFile
             \/ x \in Undumpable /\ x \in dir /\ file[x] = RowText(<<>>)

\* The directory and the file of x are those of table x of g, or there is none.
StoredIn(g, x) == IF x \in DOMAIN g THEN x \in dir /\ file[x] = RowText(g[x])
                                    ELSE Absent(x)

AllStored(g) == \A x \in Dataset : StoredIn(g, x)

\* List, directories and files hold the tables g.
Stores(g) == config = NameText(DOMAIN g) /\ AllStored(g)

\* The rows that a command c on rows leaves in the table of rows r.
NewRows(c, r) ==
    CASE c.op = "EMPTY" -> <<>>
      [] c.op = "ADD" -> Append(r, c.v)
      [] c.op = "REMOVE" -> NotMatching(r, c)
      [] c.op = "CHANGE" -> [k \in DOMAIN r |-> IF r[k] \in c.match THEN c.v ELSE r[k]]

\* The tables that a command c which is not refused leaves where there was g.
Result(c, g) ==
    CASE c.op = "CREATE" -> [x \in DOMAIN g \cup {c.d} |-> IF x = c.d THEN <<>> ELSE g[x]]
      [] c.op = "DELETE" -> [x \in DOMAIN g \ {c.d} |-> g[x]]
      [] OTHER -> [g EXCEPT ![c.d] = NewRows(c, g[c.d])]

\* The value that an ADD is to add has been looked for.
Tested(c) == c.op = "ADD" /\ c.unique => ~Contains(before[c.d], c.v)

-----------------------------------------------------------------------------
(* The steps of a command, by what is on disk.                             *)

\* Nothing was written yet.
Reading(w) ==
    LET c == cmd[w] IN
    /\ pc[w] \in {"loadConfig", "check", "readData", "unique", "probe", "read", "use"}
    /\ Stores(before)
    /\ checked[w] => c.d \in DOMAIN before /\ c.op = "ADD" /\ Tested(c)
    /\ pc[w] # "loadConfig" => names[w] = DOMAIN before
    /\ pc[w] \notin {"loadConfig", "check"} => RowCommand(c) /\ c.d \in DOMAIN before
    /\ pc[w] \in {"unique", "use"} => rows[w] = before[c.d]
    /\ pc[w] \in {"probe", "read", "use"} => Tested(c) /\ c.op # "EMPTY"
    /\ pc[w] = "probe" => c.op = "ADD"
    /\ pc[w] \in {"readData", "unique"} => c.op = "ADD" /\ c.unique

\* The tables that the command does not name are as they were.
OthersStored(w) == \A x \in Dataset : x # cmd[w].d => StoredIn(before, x)

\* The files of its own table are between those of before and those of the result.
Changing(w) ==
    LET c == cmd[w] IN
    /\ config = NameText(DOMAIN before) /\ names[w] = DOMAIN before
    /\ OthersStored(w)
    /\ \/ /\ c.op = "CREATE" /\ c.d \notin DOMAIN before
          /\ \/ pc[w] = "mkdir" /\ c.d \notin dir /\ file[c.d] = NoFile
             \/ /\ pc[w] = "exists" /\ c.d \in dir
                /\ \/ file[c.d] = NoFile
                   \/ c.d \in Undumpable /\ file[c.d] = RowText(<<>>)
             \/ /\ c.d \in dir /\ Writing(w) /\ (pc[w] = "flush" => file[c.d] = BlankRows)
                /\ out[w] = [to |-> c.d, text |-> RowText(<<>>), next |-> "saveConfig"]
       \/ /\ c.op = "DELETE" /\ c.d \in DOMAIN before
          /\ pc[w] = "rmdir" /\ file[c.d] = NoFile
       \/ /\ c.op \in {"ADD", "EMPTY", "REMOVE", "CHANGE"} /\ c.d \in DOMAIN before
          /\ c.d \in dir /\ Tested(c)
          /\ Writing(w) /\ (pc[w] = "flush" => file[c.d] = BlankRows)
          /\ out[w] = [to |-> c.d, text |-> RowText(NewRows(c, before[c.d])), next |-> "done"]

\* The files are those of the result, the list is to be written.
Listing(w) ==
    LET c == cmd[w] IN
    /\ AllStored(Result(c, before)) /\ c.op \in {"CREATE", "DELETE"}
    /\ c.op = "CREATE" <=> c.d \notin DOMAIN before
    /\ \/ /\ pc[w] = "saveConfig" /\ names[w] = DOMAIN before
          /\ config = NameText(DOMAIN before)
       \/ /\ Writing(w) /\ (pc[w] = "flush" => config = BlankNames)
          /\ c.op = "CREATE" => c.d \notin Undumpable
          /\ out[w] = [to |-> "config", text |-> NameText(DOMAIN Result(c, before)),
                       next |-> "done"]

\* Everything is written.
Written(w) ==
    LET c == cmd[w] IN
    /\ pc[w] = "done" /\ Stores(Result(c, before)) /\ Tested(c)
    /\ c.op \notin {"GET", "COUNT"}
    /\ c.op = "CREATE" <=> c.d \notin DOMAIN before
    /\ c.op = "CREATE" => c.d \notin Undumpable

SerialInv(w) ==
    /\ DOMAIN cmd = Worker /\ DOMAIN pc = Worker /\ DOMAIN names = Worker
    /\ DOMAIN rows = Worker /\ DOMAIN checked = Worker /\ DOMAIN out = Worker
    /\ DOMAIN file = Dataset /\ dir \subseteq Dataset
    /\ checked[w] \in BOOLEAN /\ crashes = 0
    /\ cmd[w] = NoCommand <=> pc[w] = "idle"
    /\ cmd[w] = NoCommand => TableMap(View) /\ Stores(View) /\ ~checked[w]
    /\ cmd[w] # NoCommand =>
           /\ cmd[w] \in Command /\ TableMap(before)
           /\ Reading(w) \/ Changing(w) \/ Listing(w) \/ Written(w)
-----------------------------------------------------------------------------
(* Texts and tables.                                                       *)

\* Rows written on a truncated file are what the file holds, and no text is that
\* of a missing file.
LEMMA RowTextFacts ==
    \A s : /\ RowText(s).val = s /\ RowText(s) # NoFile
           /\ Overlay(BlankRows, RowText(s)) = RowText(s)
<1> SUFFICES ASSUME NEW s
             PROVE  /\ RowText(s).val = s /\ RowText(s) # NoFile
                    /\ Overlay(BlankRows, RowText(s)) = RowText(s)
    OBVIOUS
<1>1. RowText(<<>>) # NoFile
    BY DEF RowText, NoFile
<1>2. PICK n : RowText(s) = [val |-> s, len |-> n]
    BY DEF RowText
<1> QED
    BY <1>1, <1>2 DEF NoFile, Overlay, BlankRows

\* When list, directories and files hold the tables g, a command finds them.
LEMMA ViewIs ==
    ASSUME NEW g, TableMap(g), Stores(g)
    PROVE  View = g
<1>1. ConfigParses /\ config.val = DOMAIN g
    BY NameTextFacts DEF Stores, ConfigParses
<1>2. \A x \in DOMAIN g : FileParses(x) /\ file[x].val = g[x]
    BY RowTextFacts DEF Stores, AllStored, StoredIn, Absent, TableMap, FileParses
<1>3. View = [x \in DOMAIN g |-> g[x]]
    BY <1>1, <1>2 DEF View
<1> QED
    BY <1>3 DEF TableMap

\* The same after a step that leaves the disk alone.
LEMMA NextViewIs ==
    ASSUME NEW g, TableMap(g), Stores(g), UNCHANGED disk
    PROVE  View' = g
<1>1. View' = View
    BY SameTables DEF disk
<1> QED
    BY <1>1, ViewIs

\* What CREATE, DELETE and the commands on rows leave, table by table.
LEMMA CreateResult ==
    ASSUME NEW c \in Command, NEW g, TableMap(g), c.op = "CREATE"
    PROVE  /\ c.d \notin Undumpable => TableMap(Result(c, g))
           /\ DOMAIN Result(c, g) = DOMAIN g \cup {c.d}
           /\ Result(c, g)[c.d] = <<>>
           /\ \A x \in DOMAIN g : x # c.d => Result(c, g)[x] = g[x]
<1>1. Result(c, g) = [x \in DOMAIN g \cup {c.d} |-> IF x = c.d THEN <<>> ELSE g[x]]
    BY DEF Result
<1> QED
    BY <1>1, CommandTable DEF TableMap

\* DELETE takes its table away and leaves the others.
LEMMA DeleteResult ==
    ASSUME NEW c \in Command, NEW g, TableMap(g), c.op = "DELETE"
    PROVE  /\ TableMap(Result(c, g)) /\ DOMAIN Result(c, g) = DOMAIN g \ {c.d}
           /\ \A x \in DOMAIN g : x # c.d => Result(c, g)[x] = g[x]
<1>1. Result(c, g) = [x \in DOMAIN g \ {c.d} |-> g[x]]
    BY DEF Result
<1> QED
    BY <1>1 DEF TableMap

\* A command on rows changes those of its table.
LEMMA RowResult ==
    ASSUME NEW c \in Command, NEW g, TableMap(g), RowCommand(c), c.d \in DOMAIN g
    PROVE  /\ TableMap(Result(c, g)) /\ DOMAIN Result(c, g) = DOMAIN g
           /\ Result(c, g)[c.d] = NewRows(c, g[c.d])
           /\ \A x \in DOMAIN g : x # c.d => Result(c, g)[x] = g[x]
<1>1. Result(c, g) = [g EXCEPT ![c.d] = NewRows(c, g[c.d])]
    BY DEF Result, RowCommand
<1> HIDE DEF NewRows
<1> QED
    BY <1>1, CommandTable DEF TableMap

-----------------------------------------------------------------------------
(* The two ways in which a step of the only worker w goes.                 *)

\* The command goes on: the tables are still those it began with.
Continues(w) ==
    /\ UNCHANGED <<cmd, before, answer, crashes>>
    /\ DOMAIN pc' = Worker /\ DOMAIN names' = Worker /\ DOMAIN rows' = Worker
    /\ DOMAIN checked' = Worker /\ DOMAIN out' = Worker /\ DOMAIN file' = Dataset
    /\ dir' \subseteq Dataset /\ checked'[w] \in BOOLEAN /\ pc'[w] # "idle"

\* A step with which the command goes on keeps the invariant and the tables.
LEMMA GoesOn ==
    ASSUME NEW w, Worker = {w}, SerialInv(w), cmd[w] # NoCommand, Continues(w),
           Reading(w)' \/ Changing(w)' \/ Listing(w)' \/ Written(w)'
    PROVE  SerialInv(w)' /\ UNCHANGED <<Held, answer>>
<1>1. Held = before /\ Held' = before'
    BY DEF Held, Quiet, Continues
<1>2. cmd[w] \in Command /\ TableMap(before)
    BY DEF SerialInv
<1>3. TableMap(before)'
    BY <1>2 DEF Continues, TableMap
<1> QED
    BY <1>1, <1>2, <1>3 DEF SerialInv, Continues

\* The command is answered: the tables are those that are stored.
LEMMA Answers ==
    ASSUME NEW w, Worker = {w}, SerialInv(w), cmd[w] # NoCommand,
           NEW code, NEW result, Reply(w, code, result), UNCHANGED disk,
           NEW g, TableMap(g), Stores(g)
    PROVE  /\ SerialInv(w)' /\ Held = before /\ Held' = g
           /\ answer' = <<cmd[w], code, result>>
<1>1. cmd'[w] = NoCommand /\ cmd[w] # NoCommand /\ View' = g
    BY NextViewIs DEF Reply, SerialInv
<1>2. Held = before /\ Held' = g
    BY <1>1 DEF Held, Quiet
<1>3. TableMap(View)' /\ Stores(View)'
    BY <1>1 DEF TableMap, Stores, AllStored, StoredIn, Absent, disk
<1>4. /\ DOMAIN cmd' = Worker /\ DOMAIN pc' = Worker /\ DOMAIN names' = Worker
      /\ DOMAIN rows' = Worker /\ DOMAIN checked' = Worker /\ DOMAIN out' = Worker
      /\ pc'[w] = "idle" /\ checked'[w] = FALSE /\ crashes' = crashes
      /\ answer' = <<cmd[w], code, result>>
    BY DEF Reply, SerialInv, process
<1> QED
    BY <1>1, <1>2, <1>3, <1>4 DEF SerialInv, disk

\* The process ends, with a command that has changed no table.
LEMMA Dies ==
    ASSUME NEW w, Worker = {w}, SerialInv(w), cmd[w] # NoCommand, Die,
           UNCHANGED <<disk, crashes, history>>, TableMap(before), Stores(before)
    PROVE  SerialInv(w)' /\ UNCHANGED <<Held, answer>>
<1>1. cmd'[w] = NoCommand /\ View' = before
    BY NextViewIs DEF Die
<1>2. Held = before /\ Held' = before
    BY <1>1 DEF Held, Quiet
<1>3. TableMap(View)' /\ Stores(View)'
    BY <1>1 DEF TableMap, Stores, AllStored, StoredIn, Absent, disk
<1>4. /\ DOMAIN cmd' = Worker /\ DOMAIN pc' = Worker /\ DOMAIN names' = Worker
      /\ DOMAIN rows' = Worker /\ DOMAIN checked' = Worker /\ DOMAIN out' = Worker
      /\ pc'[w] = "idle" /\ checked'[w] = FALSE /\ crashes' = crashes /\ answer' = answer
    BY DEF Die, history
<1> QED
    BY <1>1, <1>2, <1>3, <1>4 DEF SerialInv, disk

\* What a running command has to go by.
LEMMA RunningFacts ==
    ASSUME NEW w, SerialInv(w), pc[w] # "idle"
    PROVE  /\ cmd[w] # NoCommand /\ cmd[w] \in Command /\ TableMap(before)
           /\ cmd[w].d \in Dataset /\ cmd[w].d # "config"
           /\ Reading(w) \/ Changing(w) \/ Listing(w) \/ Written(w)
BY CommandTable DEF SerialInv

\* Nothing has been written at these places.
LEMMA ReadingFacts ==
    ASSUME NEW w, SerialInv(w),
           pc[w] \in {"loadConfig", "check", "readData", "unique", "probe", "read",
                      "reread", "use"}
    PROVE  /\ cmd[w] # NoCommand /\ cmd[w] \in Command /\ cmd[w].d \in Dataset
           /\ TableMap(before) /\ Reading(w) /\ pc[w] # "reread"
           /\ ConfigParses /\ config.val = DOMAIN before
           /\ cmd[w].d \in DOMAIN before =>
                  /\ cmd[w].d \in dir /\ FileParses(cmd[w].d) /\ Exists(cmd[w].d)
                  /\ file[cmd[w].d].val = before[cmd[w].d]
<1>1. Reading(w) /\ pc[w] # "reread"
    BY RunningFacts DEF Changing, Listing, Written, Writing, Reading
<1>2. ConfigParses /\ config.val = DOMAIN before
    BY <1>1, NameTextFacts DEF Reading, Stores, ConfigParses
<1>3. ASSUME cmd[w].d \in DOMAIN before
      PROVE  /\ cmd[w].d \in dir /\ FileParses(cmd[w].d) /\ Exists(cmd[w].d)
             /\ file[cmd[w].d].val = before[cmd[w].d]
    BY <1>1, <1>3, RunningFacts, RowTextFacts
       DEF Reading, Stores, AllStored, StoredIn, Absent, FileParses, Exists
<1> QED
    BY <1>1, <1>2, <1>3, RunningFacts

\* A command begins with the tables as they are.
LEMMA SerialBegins ==
    ASSUME NEW w, Worker = {w}, SerialInv(w), NEW c \in Command, Begin(w, c)
    PROVE  SerialInv(w)' /\ UNCHANGED <<Held, answer>>
<1>1. /\ cmd[w] = NoCommand /\ cmd'[w] = c /\ c # NoCommand /\ pc'[w] = "loadConfig"
      /\ UNCHANGED <<config, dir, file, names, rows, checked, out, crashes, answer>>
      /\ DOMAIN cmd' = Worker /\ DOMAIN pc' = Worker
    BY CommandTable DEF Begin, Goto, disk, SerialInv
<1>2. before' = View /\ Held = View /\ Held' = before'
    BY <1>1 DEF Begin, Quiet, Held
<1>3. TableMap(View) /\ Stores(View) /\ ~checked[w]
    BY <1>1 DEF SerialInv
<1>4. TableMap(before)'
    BY <1>2, <1>3 DEF TableMap
<1>5. Stores(before)'
    BY <1>1, <1>2, <1>3 DEF Stores, AllStored, StoredIn, Absent
<1>6. Reading(w)'
    BY <1>1, <1>3, <1>5 DEF Reading
<1> QED
    BY <1>1, <1>2, <1>4, <1>6 DEF SerialInv

\* The list is loaded; it parses.
LEMMA SerialLoads ==
    ASSUME NEW w, Worker = {w}, SerialInv(w), LoadConfig(w)
    PROVE  SerialInv(w)' /\ UNCHANGED <<Held, answer>>
<1>1. /\ cmd[w] # NoCommand /\ Reading(w) /\ ConfigParses /\ config.val = DOMAIN before
      /\ pc[w] = "loadConfig"
    BY ReadingFacts DEF LoadConfig
<1>2. /\ names'[w] = DOMAIN before /\ pc'[w] = "check" /\ Continues(w)
      /\ UNCHANGED <<config, dir, file, cmd, rows, checked, before>>
    BY <1>1 DEF LoadConfig, Goto, Continues, SerialInv, disk, process, history
<1>3. Reading(w)'
    BY <1>1, <1>2 DEF Reading, Stores, AllStored, StoredIn, Absent, Tested
<1> QED
    BY <1>1, <1>2, <1>3, GoesOn

\* The other steps before anything is written, on to place.
LEMMA SerialMoves ==
    ASSUME NEW w, Worker = {w}, SerialInv(w), Reading(w),
           NEW place \in {"loadConfig", "readData", "unique", "probe", "read", "use"},
           Goto(w, place), UNCHANGED <<disk, cmd, names, out, process, history>>,
           DOMAIN rows' = Worker, DOMAIN checked' = Worker, checked'[w] \in BOOLEAN,
           checked'[w] => checked[w] \/ Tested(cmd[w]),
           cmd[w].d \in DOMAIN before, RowCommand(cmd[w]), pc[w] # "loadConfig",
           checked'[w] => cmd[w].op = "ADD",
           place \in {"unique", "use"} => rows'[w] = before[cmd[w].d],
           place \in {"probe", "read", "use"} => Tested(cmd[w]) /\ cmd[w].op # "EMPTY",
           place = "probe" => cmd[w].op = "ADD",
           place \in {"readData", "unique"} => cmd[w].op = "ADD" /\ cmd[w].unique
    PROVE  SerialInv(w)' /\ UNCHANGED <<Held, answer>>
<1>1. /\ cmd[w] # NoCommand /\ pc'[w] = place /\ Continues(w)
      /\ UNCHANGED <<config, dir, file, cmd, names, before>>
    BY DEF Goto, Continues, SerialInv, disk, process, history, Reading
<1>2. Stores(before)' /\ (Tested(cmd[w])' <=> Tested(cmd[w]))
    BY <1>1 DEF Reading, Stores, AllStored, StoredIn, Absent, Tested
<1>3. Reading(w)'
    BY <1>1, <1>2 DEF Reading
<1> QED
    BY <1>1, <1>3, GoesOn

\* The steps of the handlers of rows up to the moment when the rows are in memory.
LEMMA SerialReads ==
    ASSUME NEW w, Worker = {w}, SerialInv(w),
           StartAdd(w) \/ StartSelect(w) \/ Probe(w) \/ Read(w) \/ ReadData(w)
    PROVE  SerialInv(w)' /\ UNCHANGED <<Held, answer>>
<1>1. /\ pc[w] \in {"check", "probe", "read", "reread", "readData"}
      /\ UNCHANGED <<disk, cmd, names, process, history>> \/ Read(w)
    BY DEF StartAdd, StartSelect, Probe, Read, ReadData, Found
<1>2. /\ Reading(w) /\ cmd[w] \in Command /\ pc[w] # "reread"
      /\ cmd[w].d \in DOMAIN before =>
             /\ FileParses(cmd[w].d) /\ Exists(cmd[w].d)
             /\ file[cmd[w].d].val = before[cmd[w].d]
      /\ DOMAIN rows = Worker /\ DOMAIN checked = Worker /\ checked[w] \in BOOLEAN
    BY <1>1, ReadingFacts DEF SerialInv
<1>3. cmd[w].d \in DOMAIN before /\ RowCommand(cmd[w])
    BY <1>1, <1>2 DEF Reading, StartAdd, StartSelect, Found, RowCommand, Probe, Read, ReadData
<1>4. CASE StartAdd(w)
    <2>1. /\ cmd[w].op = "ADD"
          /\ UNCHANGED <<disk, cmd, names, rows, checked, out, process, history>>
        BY <1>4 DEF StartAdd
    <2>2. cmd[w].unique \in BOOLEAN
        BY <1>2, <2>1, CommandAssumption
    <2>3. CASE cmd[w].unique /\ ~checked[w]
        <3>1. Goto(w, "readData")
            BY <1>4, <2>3 DEF StartAdd
        <3> QED
            BY <1>1, <1>2, <1>3, <2>1, <2>3, <3>1, SerialMoves
    <2>4. CASE cmd[w].unique => checked[w]
        <3>1. Goto(w, "probe") /\ Tested(cmd[w])
            BY <1>2, <1>4, <2>4 DEF StartAdd, Reading, Tested
        <3> QED
            BY <1>1, <1>2, <1>3, <2>1, <3>1, SerialMoves
    <2> QED
        BY <1>2, <2>2, <2>3, <2>4
<1>5. CASE StartSelect(w)
    <2>1. /\ Goto(w, "read") /\ cmd[w].op \in {"GET", "COUNT", "REMOVE", "CHANGE"}
          /\ UNCHANGED <<disk, cmd, names, rows, checked, out, process, history>>
        BY <1>5 DEF StartSelect
    <2>2. Tested(cmd[w])
        BY <2>1 DEF Tested
    <2> QED
        BY <1>1, <1>2, <1>3, <2>1, <2>2, SerialMoves DEF Reading
<1>6. CASE Probe(w)
    <2>1. /\ Goto(w, "read") /\ pc[w] = "probe"
          /\ UNCHANGED <<disk, cmd, names, rows, checked, out, process, history>>
        BY <1>2, <1>3, <1>6 DEF Probe
    <2> QED
        BY <1>2, <1>3, <2>1, SerialMoves DEF Reading
<1>7. CASE Read(w)
    <2>1. /\ rows' = [rows EXCEPT ![w] = before[cmd[w].d]] /\ Goto(w, "use") /\ pc[w] = "read"
          /\ UNCHANGED <<disk, cmd, names, checked, out, process, history>>
        BY <1>2, <1>3, <1>7 DEF Read
    <2> QED
        BY <1>2, <1>3, <2>1, SerialMoves DEF Reading
<1>8. CASE ReadData(w)
    <2>1. /\ rows' = [rows EXCEPT ![w] = before[cmd[w].d]] /\ Goto(w, "unique")
          /\ pc[w] = "readData"
          /\ UNCHANGED <<disk, cmd, names, checked, out, process, history>>
        BY <1>2, <1>3, <1>8 DEF ReadData
    <2> QED
        BY <1>2, <1>3, <2>1, SerialMoves DEF Reading
<1> QED
    BY <1>4, <1>5, <1>6, <1>7, <1>8

\* The rows are to be written back, or emptied.
LEMMA SerialWritesBack ==
    ASSUME NEW w, Worker = {w}, SerialInv(w),
           StartEmpty(w) \/ Insert(w) \/ OverwriteRemove(w) \/ OverwriteChange(w)
    PROVE  SerialInv(w)' /\ UNCHANGED <<Held, answer>>
<1>1. /\ pc[w] \in {"check", "use"}
      /\ cmd[w].op \in {"ADD", "EMPTY", "REMOVE", "CHANGE"}
      /\ UNCHANGED <<disk, cmd, names, rows, checked, process, history>>
      /\ pc[w] = "check" => cmd[w].op = "EMPTY" /\ cmd[w].d \in names[w]
    BY DEF StartEmpty, Insert, OverwriteRemove, OverwriteChange, Found
<1>2. /\ cmd[w] # NoCommand /\ Reading(w) /\ cmd[w].d \in Dataset
      /\ cmd[w].d \in DOMAIN before => cmd[w].d \in dir
    BY <1>1, ReadingFacts
<1>3. /\ cmd[w].d \in DOMAIN before /\ names[w] = DOMAIN before
      /\ pc[w] = "use" => rows[w] = before[cmd[w].d]
      /\ Tested(cmd[w])
    BY <1>1, <1>2 DEF Reading, Tested
<1>4. BeginWriteRows(w, NewRows(cmd[w], before[cmd[w].d]), "done")
    <2>1. CASE StartEmpty(w)
        BY <2>1 DEF StartEmpty, NewRows
    <2>2. CASE Insert(w)
        BY <1>3, <2>2 DEF Insert, NewRows
    <2>3. CASE OverwriteRemove(w)
        BY <1>3, <2>3 DEF OverwriteRemove, NewRows
    <2>4. CASE OverwriteChange(w)
        BY <1>3, <2>4 DEF OverwriteChange, NewRows
    <2> QED
        BY <2>1, <2>2, <2>3, <2>4
<1>5. /\ pc'[w] = "open" /\ Continues(w)
      /\ out'[w] = [to |-> cmd[w].d, text |-> RowText(NewRows(cmd[w], before[cmd[w].d])),
                    next |-> "done"]
      /\ UNCHANGED <<config, dir, file, cmd, names, before>>
    BY <1>1, <1>4 DEF BeginWriteRows, Goto, Continues, SerialInv, disk, process, history
<1>6. Changing(w)'
    <2>1. config' = NameText(DOMAIN before') /\ names'[w] = DOMAIN before'
        BY <1>2, <1>3, <1>5 DEF Reading, Stores
    <2>2. OthersStored(w)'
        BY <1>2, <1>5 DEF Reading, Stores, AllStored, OthersStored, StoredIn, Absent
    <2>3. Tested(cmd[w])' /\ Writing(w)'
        BY <1>3, <1>5 DEF Tested, Writing
    <2> QED
        BY <1>1, <1>2, <1>3, <1>5, <2>1, <2>2, <2>3 DEF Changing
<1> QED
    BY <1>2, <1>5, <1>6, GoesOn

\* Once the directory and the file of its own table are those of the tables g,
\* which differ from before in no other table, all are.
LEMMA NextAllStored ==
    ASSUME NEW w, OthersStored(w)', UNCHANGED <<cmd, before>>, NEW g,
           cmd[w].d \in DOMAIN g,
           \A x \in Dataset : x # cmd[w].d => (x \in DOMAIN g <=> x \in DOMAIN before),
           \A x \in DOMAIN before : x # cmd[w].d => g[x] = before[x],
           cmd[w].d \in dir', file'[cmd[w].d] = RowText(g[cmd[w].d])
    PROVE  \A x \in Dataset : IF x \in DOMAIN g THEN x \in dir' /\ file'[x] = RowText(g[x])
                                                ELSE Absent(x)'
<1>1. ASSUME NEW x \in Dataset, x # cmd[w].d
      PROVE  IF x \in DOMAIN g THEN x \in dir' /\ file'[x] = RowText(g[x])
                                ELSE Absent(x)'
    BY <1>1 DEF OthersStored, StoredIn, Absent
<1> QED
    BY <1>1

\* CREATE makes the directory, unless the name is too long.
LEMMA SerialCreates ==
    ASSUME NEW w, Worker = {w}, SerialInv(w),
           FindDirectory(w) \/ MakeDirectory(w) \/ DirectoryIsThere(w)
    PROVE  SerialInv(w)' /\ UNCHANGED <<Held, answer>>
<1>1. CASE FindDirectory(w)
    <2>1. /\ cmd[w] # NoCommand /\ Reading(w) /\ names[w] = DOMAIN before
          /\ TableMap(before) /\ Stores(before) /\ UNCHANGED disk
          /\ cmd[w].d \in Dataset /\ cmd[w].op = "CREATE" /\ cmd[w].d \notin DOMAIN before
        BY <1>1, ReadingFacts DEF FindDirectory, Creating, Reading
    <2>2. CASE cmd[w].d \in Unmakeable
        BY <1>1, <2>1, <2>2, Dies DEF FindDirectory
    <2>3. CASE cmd[w].d \notin Unmakeable
        <3>1. /\ pc'[w] = IF cmd[w].d \in dir THEN "exists" ELSE "mkdir"
              /\ Continues(w) /\ UNCHANGED <<config, dir, file, cmd, names, before>>
            BY <1>1, <2>1, <2>3
               DEF FindDirectory, Goto, Continues, SerialInv, disk, process, history
        <3>2. Absent(cmd[w].d)
            BY <2>1 DEF Stores, AllStored, StoredIn
        <3>3. config' = NameText(DOMAIN before') /\ OthersStored(w)'
            BY <2>1, <3>1 DEF Stores, AllStored, OthersStored, StoredIn, Absent
        <3>4. RowText(<<>>) # NoFile
            BY RowTextFacts
        <3>5. Changing(w)'
            BY <2>1, <3>1, <3>2, <3>3, <3>4 DEF Changing, Absent
        <3> QED
            BY <2>1, <3>1, <3>5, GoesOn
    <2> QED
        BY <2>2, <2>3
<1>2. CASE MakeDirectory(w)
    <2>1. cmd[w] # NoCommand /\ Changing(w) /\ pc[w] = "mkdir" /\ cmd[w].d \in Dataset
        BY <1>2, RunningFacts DEF MakeDirectory, Reading, Listing, Written, Writing
    <2>2. /\ cmd[w].d \notin dir /\ file[cmd[w].d] = NoFile /\ cmd[w].op = "CREATE"
          /\ cmd[w].d \notin DOMAIN before
        BY <2>1 DEF Changing, Writing
    <2>3. /\ pc'[w] = "exists" /\ dir' = dir \cup {cmd[w].d} /\ Continues(w)
          /\ UNCHANGED <<config, file, cmd, names, before>>
        BY <1>2, <2>1, <2>2 DEF MakeDirectory, Goto, Continues, SerialInv, process
    <2>4. OthersStored(w)'
        BY <2>1, <2>3 DEF Changing, OthersStored, StoredIn, Absent
    <2>5. Changing(w)'
        BY <2>1, <2>2, <2>3, <2>4 DEF Changing
    <2> QED
        BY <2>1, <2>3, <2>5, GoesOn
<1>3. ~DirectoryIsThere(w)
    BY RunningFacts DEF DirectoryIsThere, Reading, Changing, Listing, Written, Writing
<1> QED
    BY <1>1, <1>2, <1>3

\* It makes the file, unless it is there, of a CREATE that could not dump its name.
LEMMA SerialCreatesFile ==
    ASSUME NEW w, Worker = {w}, SerialInv(w), CreateFile(w)
    PROVE  SerialInv(w)' /\ UNCHANGED <<Held, answer>>
<1>1. /\ cmd[w] # NoCommand /\ Changing(w) /\ pc[w] = "exists" /\ cmd[w] \in Command
      /\ cmd[w].d \in Dataset /\ TableMap(before)
    BY RunningFacts DEF CreateFile, Reading, Listing, Written, Writing
<1>2. /\ cmd[w].op = "CREATE" /\ cmd[w].d \notin DOMAIN before /\ cmd[w].d \in dir
      /\ names[w] = DOMAIN before /\ config = NameText(DOMAIN before)
      /\ file[cmd[w].d] = NoFile \/ file[cmd[w].d] = RowText(<<>>)
    BY <1>1 DEF Changing, Writing
<1>3. CASE ~Exists(cmd[w].d)
    <2>1. /\ pc'[w] = "open" /\ Continues(w)
          /\ out'[w] = [to |-> cmd[w].d, text |-> RowText(<<>>), next |-> "saveConfig"]
          /\ UNCHANGED <<config, dir, file, cmd, names, before>>
        BY <1>3 DEF CreateFile, BeginWriteRows, Goto, Continues, SerialInv, disk,
                    process, history
    <2>2. OthersStored(w)'
        BY <1>1, <2>1 DEF Changing, OthersStored, StoredIn, Absent
    <2>3. Changing(w)'
        BY <1>1, <1>2, <2>1, <2>2 DEF Changing, Writing
    <2> QED
        BY <1>1, <2>1, <2>3, GoesOn
<1>4. CASE Exists(cmd[w].d)
    <2>1. /\ pc'[w] = "saveConfig" /\ Continues(w)
          /\ UNCHANGED <<config, dir, file, cmd, names, before>>
        BY <1>4 DEF CreateFile, Goto, Continues, SerialInv, disk, process, history
    <2>2. file[cmd[w].d] = RowText(<<>>)
        BY <1>2, <1>4 DEF Exists
    <2> DEFINE g == Result(cmd[w], before)
    <2>3. /\ DOMAIN g = DOMAIN before \cup {cmd[w].d} /\ g[cmd[w].d] = <<>>
          /\ \A x \in DOMAIN before : x # cmd[w].d => g[x] = before[x]
        BY <1>1, <1>2, CreateResult
    <2> HIDE DEF g
    <2>4. OthersStored(w)'
        BY <1>1, <2>1 DEF Changing, OthersStored, StoredIn, Absent
    <2>5. \A x \in Dataset : IF x \in DOMAIN g THEN x \in dir' /\ file'[x] = RowText(g[x])
                                               ELSE Absent(x)'
        BY <1>2, <2>1, <2>2, <2>3, <2>4, NextAllStored
    <2> USE DEF g
    <2>6. AllStored(Result(cmd[w], before))'
        BY <2>1, <2>5 DEF AllStored, StoredIn
    <2>7. Listing(w)'
        BY <1>2, <2>1, <2>6 DEF Listing
    <2> QED
        BY <1>1, <2>1, <2>7, GoesOn
<1> QED
    BY <1>3, <1>4

\* DELETE takes the file and then the directory, which is empty.
LEMMA SerialDeletes ==
    ASSUME NEW w, Worker = {w}, SerialInv(w), Unlink(w) \/ RemoveDirectory(w)
    PROVE  SerialInv(w)' /\ UNCHANGED <<Held, answer>>
<1>1. CASE Unlink(w)
    <2>1. /\ cmd[w] # NoCommand /\ Reading(w) /\ names[w] = DOMAIN before
          /\ cmd[w].d \in Dataset /\ cmd[w].op = "DELETE" /\ cmd[w].d \in DOMAIN before
        BY <1>1, ReadingFacts DEF Unlink, Reading
    <2>2. /\ pc'[w] = "rmdir" /\ file' = [file EXCEPT ![cmd[w].d] = NoFile] /\ Continues(w)
          /\ UNCHANGED <<config, dir, cmd, names, before>>
        BY <1>1, <2>1 DEF Unlink, Goto, Continues, SerialInv, process, history
    <2>3. /\ config' = NameText(DOMAIN before') /\ file'[cmd[w].d] = NoFile
          /\ OthersStored(w)'
        BY <2>1, <2>2 DEF Reading, Stores, AllStored, OthersStored, StoredIn, Absent, SerialInv
    <2>4. Changing(w)'
        BY <2>1, <2>2, <2>3 DEF Changing
    <2> QED
        BY <2>1, <2>2, <2>4, GoesOn
<1>2. CASE RemoveDirectory(w)
    <2>1. /\ cmd[w] # NoCommand /\ Changing(w) /\ pc[w] = "rmdir" /\ TableMap(before)
          /\ cmd[w] \in Command
        BY <1>2, RunningFacts DEF RemoveDirectory, Reading, Listing, Written, Writing
    <2>2. /\ ~Exists(cmd[w].d) /\ cmd[w].op = "DELETE" /\ cmd[w].d \in DOMAIN before
          /\ names[w] = DOMAIN before /\ file[cmd[w].d] = NoFile
          /\ config = NameText(DOMAIN before)
        BY <2>1 DEF Changing, Exists, Writing
    <2>3. /\ pc'[w] = "saveConfig" /\ dir' = dir \ {cmd[w].d} /\ Continues(w)
          /\ UNCHANGED <<config, file, cmd, names, before>>
        BY <1>2, <2>2 DEF RemoveDirectory, Goto, Continues, SerialInv, process
    <2>4. AllStored(Result(cmd[w], before))'
        <3> DEFINE g == Result(cmd[w], before)
        <3>0. /\ DOMAIN g = DOMAIN before \ {cmd[w].d}
              /\ \A x \in DOMAIN before : x # cmd[w].d => g[x] = before[x]
            BY <2>1, <2>2, DeleteResult
        <3>1. ASSUME NEW x \in Dataset, x = cmd[w].d
              PROVE  x \notin DOMAIN g /\ x \notin dir' /\ file'[x] = NoFile
            BY <2>1, <2>2, <2>3, <3>0, <3>1
        <3>2. ASSUME NEW x \in Dataset, x # cmd[w].d
              PROVE  IF x \in DOMAIN g THEN x \in dir' /\ file'[x] = RowText(g[x])
                                      ELSE Absent(x)'
            BY <2>1, <2>2, <2>3, <3>0, <3>2 DEF Changing, OthersStored, StoredIn, Absent
        <3> QED
            BY <2>3, <3>1, <3>2 DEF AllStored, StoredIn, Absent
    <2>5. Listing(w)'
        BY <2>2, <2>3, <2>4 DEF Listing
    <2> QED
        BY <2>1, <2>3, <2>5, GoesOn
<1> QED
    BY <1>1, <1>2

\* CREATE and DELETE are to write the list of the result.
LEMMA SerialSaves ==
    ASSUME NEW w, Worker = {w}, SerialInv(w), SaveConfig(w)
    PROVE  SerialInv(w)' /\ UNCHANGED <<Held, answer>>
<1>1. /\ cmd[w] # NoCommand /\ Listing(w) /\ pc[w] = "saveConfig"
      /\ cmd[w] \in Command /\ TableMap(before)
    BY RunningFacts DEF SaveConfig, Reading, Changing, Written, Writing
<1>2. names[w] = DOMAIN before
    BY <1>1 DEF Listing, Writing
<1>3. ASSUME cmd[w].op = "CREATE"
      PROVE  DOMAIN Result(cmd[w], before) = DOMAIN before \cup {cmd[w].d}
    BY <1>1, <1>3, CreateResult
<1>4. ASSUME cmd[w].op = "DELETE"
      PROVE  DOMAIN Result(cmd[w], before) = DOMAIN before \ {cmd[w].d}
    BY <1>1, <1>4, DeleteResult
<1>5. CASE cmd[w].op = "CREATE" /\ cmd[w].d \in Undumpable
    <2>1. Die /\ UNCHANGED <<disk, crashes, history>>
        BY <1>5 DEF SaveConfig
    <2>2. /\ cmd[w].d \notin DOMAIN before /\ AllStored(Result(cmd[w], before))
          /\ config = NameText(DOMAIN before)
        BY <1>1, <1>5 DEF Listing, Writing
    <2> DEFINE g == Result(cmd[w], before)
    <2>3. /\ DOMAIN g = DOMAIN before \cup {cmd[w].d} /\ g[cmd[w].d] = <<>>
          /\ \A x \in DOMAIN before : x # cmd[w].d => g[x] = before[x]
        BY <1>1, <1>5, CreateResult
    <2>4. AllStored(g)
        BY <2>2
    <2> HIDE DEF g
    <2>5. AllStored(before)
        BY <1>5, <2>2, <2>3, <2>4 DEF AllStored, StoredIn, Absent
    <2>6. Stores(before)
        BY <2>2, <2>5 DEF Stores
    <2> QED
        BY <1>1, <2>1, <2>6, Dies
<1> SUFFICES ASSUME ~(cmd[w].op = "CREATE" /\ cmd[w].d \in Undumpable)
             PROVE  SerialInv(w)' /\ UNCHANGED <<Held, answer>>
    BY <1>5
<1>6. BeginWriteConfig(w, DOMAIN Result(cmd[w], before), "done")
    BY <1>2, <1>3, <1>4 DEF SaveConfig
<1>7. /\ pc'[w] = "open" /\ Continues(w)
      /\ out'[w] = [to |-> "config", text |-> NameText(DOMAIN Result(cmd[w], before)),
                    next |-> "done"]
      /\ UNCHANGED <<config, dir, file, cmd, names, before>>
    BY <1>6 DEF SaveConfig, BeginWriteConfig, Goto, Continues, SerialInv, disk, process,
                history
<1>8. AllStored(Result(cmd[w], before))'
    BY <1>1, <1>7 DEF Listing, AllStored, OthersStored, StoredIn, Absent, Result, NewRows, NotMatching
<1>9. Listing(w)'
    BY <1>1, <1>7, <1>8 DEF Listing, Writing, Result, NewRows, NotMatching
<1> QED
    BY <1>1, <1>7, <1>9, GoesOn

\* Where a write goes, and what it writes.
LEMMA SerialWritingFacts ==
    ASSUME NEW w, SerialInv(w), Writing(w)
    PROVE  /\ cmd[w] # NoCommand /\ cmd[w] \in Command /\ TableMap(before)
           /\ cmd[w].d \in Dataset /\ cmd[w].d # "config" /\ "config" \notin Dataset
           /\ \/ Changing(w) /\ out[w].to = cmd[w].d /\ cmd[w].d \in dir
              \/ Listing(w) /\ out[w].to = "config"
<1>1. /\ cmd[w] # NoCommand /\ cmd[w] \in Command /\ TableMap(before)
      /\ cmd[w].d \in Dataset /\ cmd[w].d # "config"
      /\ Changing(w) \/ Listing(w)
    BY RunningFacts DEF Writing, Reading, Written
<1>2. ASSUME Changing(w)
      PROVE  out[w].to = cmd[w].d /\ cmd[w].d \in dir
    BY <1>2 DEF Changing, Writing
<1>3. ASSUME Listing(w)
      PROVE  out[w].to = "config"
    BY <1>3 DEF Listing, Writing
<1> QED
    BY <1>1, <1>2, <1>3, DatasetAssumption

\* The ofstream is opened.  The directory is there.
LEMMA SerialOpens ==
    ASSUME NEW w, Worker = {w}, SerialInv(w), Open(w)
    PROVE  SerialInv(w)' /\ UNCHANGED <<Held, answer>>
<1>1. /\ Writing(w) /\ pc[w] = "open" /\ pc'[w] = "flush" /\ Continues(w)
      /\ UNCHANGED <<dir, cmd, names, out, before>>
    BY DEF Open, Writing, Goto, Continues, SerialInv, process, history
<1>2. /\ cmd[w] # NoCommand /\ cmd[w].d \in Dataset /\ cmd[w].d # "config"
      /\ "config" \notin Dataset /\ dir \subseteq Dataset
    BY <1>1, SerialWritingFacts DEF SerialInv
<1>3. CASE Changing(w) /\ out[w].to = cmd[w].d /\ cmd[w].d \in dir
    <2>1. UNCHANGED config /\ file' = [file EXCEPT ![cmd[w].d] = BlankRows]
        BY <1>2, <1>3 DEF Open
    <2>2. OthersStored(w)' /\ file'[cmd[w].d] = BlankRows
        BY <1>1, <1>2, <1>3, <2>1 DEF Changing, OthersStored, StoredIn, Absent, SerialInv
    <2>3. Tested(cmd[w])' <=> Tested(cmd[w])
        BY <1>1 DEF Tested
    <2>4. RowText(NewRows(cmd[w], before[cmd[w].d]))'
              = RowText(NewRows(cmd[w], before[cmd[w].d]))
        BY <1>1
    <2>5. Changing(w)'
        BY <1>1, <1>3, <2>1, <2>2, <2>3, <2>4 DEF Changing, Writing
    <2> QED
        BY <1>1, <1>2, <2>5, GoesOn
<1>4. CASE Listing(w) /\ out[w].to = "config"
    <2>1. config' = BlankNames /\ UNCHANGED file
        BY <1>2, <1>4 DEF Open
    <2>2. AllStored(Result(cmd[w], before))'
        BY <1>1, <1>4, <2>1 DEF Listing, AllStored, StoredIn, Absent, Result, NewRows, NotMatching
    <2>3. Listing(w)'
        BY <1>1, <1>4, <2>1, <2>2 DEF Listing, Writing, Result, NewRows, NotMatching
    <2> QED
        BY <1>1, <1>2, <2>3, GoesOn
<1> QED
    BY <1>1, <1>3, <1>4, SerialWritingFacts

\* The open never fails.
LEMMA SerialOpenSucceeds ==
    ASSUME NEW w, SerialInv(w)
    PROVE  ~OpenFails(w)
<1> SUFFICES ASSUME OpenFails(w)
             PROVE  FALSE
    OBVIOUS
<1>1. Writing(w) /\ out[w].to \in Dataset \ dir
    BY DEF OpenFails, WriteFails, Writing
<1> QED
    BY <1>1, SerialWritingFacts

\* The ofstream is closed: the file holds the whole text.
LEMMA SerialFlushes ==
    ASSUME NEW w, Worker = {w}, SerialInv(w), Flush(w)
    PROVE  SerialInv(w)' /\ UNCHANGED <<Held, answer>>
<1>1. /\ Writing(w) /\ pc[w] = "flush" /\ pc'[w] = out[w].next
      /\ UNCHANGED <<dir, cmd, names, before>>
    BY DEF Flush, Writing, Goto, SerialInv, process, history
<1>2. /\ cmd[w] # NoCommand /\ cmd[w] \in Command /\ TableMap(before)
      /\ cmd[w].d \in Dataset /\ cmd[w].d # "config" /\ "config" \notin Dataset
    BY <1>1, SerialWritingFacts
<1>3. out[w].next # "idle" => Continues(w)
    BY <1>1 DEF Flush, Goto, Continues, SerialInv, process, history
<1>4. CASE Changing(w) /\ out[w].to = cmd[w].d
    <2>1. UNCHANGED config /\ file' = [file EXCEPT ![cmd[w].d] = Overlay(@, out[w].text)]
        BY <1>2, <1>4 DEF Flush
    <2>2. file'[cmd[w].d] = Overlay(file[cmd[w].d], out[w].text) /\ OthersStored(w)'
        BY <1>1, <1>2, <1>4, <2>1 DEF Changing, OthersStored, StoredIn, Absent, SerialInv
    <2>3. CASE cmd[w].op = "CREATE"
        <3>1. /\ out[w].text = RowText(<<>>) /\ out[w].next = "saveConfig"
              /\ file[cmd[w].d] = BlankRows /\ cmd[w].d \in dir /\ cmd[w].d \notin DOMAIN before
              /\ names[w] = DOMAIN before /\ config = NameText(DOMAIN before)
            BY <1>1, <1>4, <2>3 DEF Changing
        <3>2. file'[cmd[w].d] = RowText(<<>>)
            BY <2>2, <3>1, RowTextFacts
        <3> DEFINE g == Result(cmd[w], before)
        <3>3. /\ DOMAIN g = DOMAIN before \cup {cmd[w].d} /\ g[cmd[w].d] = <<>>
              /\ \A x \in DOMAIN before : x # cmd[w].d => g[x] = before[x]
            BY <1>2, <2>3, CreateResult
        <3> HIDE DEF g
        <3>4. \A x \in Dataset : IF x \in DOMAIN g THEN x \in dir' /\ file'[x] = RowText(g[x])
                                                   ELSE Absent(x)'
            BY <1>1, <2>2, <3>1, <3>2, <3>3, NextAllStored
        <3> USE DEF g
        <3>5. AllStored(Result(cmd[w], before))'
            BY <1>1, <3>4 DEF AllStored, StoredIn, Absent
        <3>6. Listing(w)'
            BY <1>1, <2>1, <2>3, <3>1, <3>5 DEF Listing
        <3> QED
            BY <1>2, <1>3, <3>1, <3>6, GoesOn
    <2>4. CASE RowCommand(cmd[w])
        <3>1. /\ out[w].text = RowText(NewRows(cmd[w], before[cmd[w].d]))
              /\ out[w].next = "done" /\ file[cmd[w].d] = BlankRows
              /\ cmd[w].d \in dir /\ cmd[w].d \in DOMAIN before
              /\ cmd[w].op \in {"ADD", "EMPTY", "REMOVE", "CHANGE"} /\ Tested(cmd[w])
            BY <1>1, <1>4, <2>4 DEF Changing, RowCommand
        <3>2. file'[cmd[w].d] = RowText(NewRows(cmd[w], before[cmd[w].d]))
            BY <2>2, <3>1, RowTextFacts
        <3> DEFINE g == Result(cmd[w], before)
        <3>3. /\ DOMAIN g = DOMAIN before /\ g[cmd[w].d] = NewRows(cmd[w], before[cmd[w].d])
              /\ \A x \in DOMAIN before : x # cmd[w].d => g[x] = before[x]
            BY <1>2, <2>4, <3>1, RowResult
        <3> HIDE DEF g
        <3>4. \A x \in Dataset : IF x \in DOMAIN g THEN x \in dir' /\ file'[x] = RowText(g[x])
                                                   ELSE Absent(x)'
            BY <1>1, <2>2, <3>1, <3>2, <3>3, NextAllStored
        <3>5. config' = NameText(DOMAIN g)
            BY <1>4, <2>1, <3>3 DEF Changing
        <3> USE DEF g
        <3>6. Stores(Result(cmd[w], before))'
            BY <1>1, <3>4, <3>5 DEF Stores, AllStored, StoredIn, Absent
        <3>7. Tested(cmd[w])' <=> Tested(cmd[w])
            BY <1>1 DEF Tested
        <3>8. Written(w)'
            BY <1>1, <3>1, <3>6, <3>7 DEF Written
        <3> QED
            BY <1>2, <1>3, <3>1, <3>8, GoesOn
    <2> QED
        BY <1>1, <1>4, <2>3, <2>4 DEF Changing, RowCommand
<1>5. CASE Listing(w) /\ out[w].to = "config"
    <2>1. /\ config = BlankNames /\ out[w].text = NameText(DOMAIN Result(cmd[w], before))
          /\ out[w].next = "done" /\ cmd[w].op \in {"CREATE", "DELETE"}
          /\ cmd[w].op = "CREATE" <=> cmd[w].d \notin DOMAIN before
          /\ cmd[w].op = "CREATE" => cmd[w].d \notin Undumpable
        BY <1>1, <1>5 DEF Listing
    <2>2. config' = Overlay(config, out[w].text) /\ UNCHANGED file
        BY <1>2, <1>5 DEF Flush
    <2>3. config' = NameText(DOMAIN Result(cmd[w], before))
        BY <2>1, <2>2, NameTextFacts
    <2>4. Stores(Result(cmd[w], before))'
        BY <1>1, <1>5, <2>2, <2>3
           DEF Listing, Stores, AllStored, StoredIn, Absent, Result, NewRows, NotMatching
    <2>5. Written(w)'
        BY <1>1, <2>1, <2>4 DEF Written, Tested, Result, NewRows, NotMatching
    <2> QED
        BY <1>2, <1>3, <2>1, <2>5, GoesOn
<1> QED
    BY <1>1, <1>4, <1>5, SerialWritingFacts

-----------------------------------------------------------------------------
(* The replies, as TableStore has them.                                    *)

\* TableStore selects rows as the handlers do.
LEMMA SameSelections ==
    /\ \A r, c : /\ Tables!Matching(r, c) = Matching(r, c)
                 /\ Tables!NotMatching(r, c) = NotMatching(r, c)
    /\ \A r, v : Tables!Contains(r, v) <=> Contains(r, v)
BY DEF Tables!Matching, Matching, Tables!NotMatching, NotMatching, Tables!Contains, Contains,
       Tables!Among, Among, Tables!Gathered, Gathered, Tables!Range, Range

\* The early returns of create, drop and from.
LEMMA SerialRefuses ==
    ASSUME NEW w, Worker = {w}, SerialInv(w), Refuse(w)
    PROVE  SerialInv(w)' /\ Tables!Next
<1>1. /\ pc[w] = "check" /\ UNCHANGED disk
      /\ cmd[w] # NoCommand /\ cmd[w] \in Command /\ TableMap(before) /\ Reading(w)
    BY ReadingFacts DEF Refuse
<1>2. Stores(before) /\ names[w] = DOMAIN before
    BY <1>1 DEF Reading
<1>3. ASSUME NEW code, Reply(w, code, <<>>)
      PROVE  /\ SerialInv(w)' /\ Held = before /\ Held' = before
             /\ answer' = <<cmd[w], code, <<>>>>
    BY <1>1, <1>2, <1>3, Answers
<1>4. CASE cmd[w].op = "CREATE" /\ cmd[w].d \in names[w] /\ Reply(w, 10, <<>>)
    <2>1. Tables!Create(cmd[w]) /\ SerialInv(w)'
        BY <1>2, <1>3, <1>4 DEF Tables!Create, Tables!Exists, Tables!Reply
    <2> QED
        BY <1>1, <2>1 DEF Tables!Next, Tables!Do
<1>5. CASE cmd[w].op = "DELETE" /\ cmd[w].d \notin names[w] /\ Reply(w, 567, <<>>)
    <2>1. Tables!Delete(cmd[w]) /\ SerialInv(w)'
        BY <1>2, <1>3, <1>5 DEF Tables!Delete, Tables!Exists, Tables!Reply
    <2> QED
        BY <1>1, <2>1 DEF Tables!Next, Tables!Do
<1>6. CASE /\ cmd[w].op \notin {"CREATE", "DELETE"} /\ cmd[w].d \notin names[w]
           /\ Reply(w, 1, <<>>)
    <2>1. Tables!Missing(cmd[w]) /\ SerialInv(w)'
        BY <1>2, <1>3, <1>6 DEF Tables!Missing, Tables!Exists, Tables!Reply
    <2> QED
        BY <1>1, <2>1 DEF Tables!Next, Tables!Do
<1> QED
    BY <1>4, <1>5, <1>6 DEF Refuse

\* The UNIQUE test finds the value, or the ADD goes back to the list.
LEMMA SerialTests ==
    ASSUME NEW w, Worker = {w}, SerialInv(w), TestUnique(w)
    PROVE  SerialInv(w)' /\ (UNCHANGED <<Held, answer>> \/ Tables!Next)
<1>1. /\ pc[w] = "unique" /\ UNCHANGED disk
      /\ cmd[w] # NoCommand /\ cmd[w] \in Command /\ TableMap(before) /\ Reading(w)
    BY ReadingFacts DEF TestUnique
<1>2. /\ Stores(before) /\ cmd[w].d \in DOMAIN before /\ rows[w] = before[cmd[w].d]
      /\ cmd[w].op = "ADD" /\ cmd[w].unique /\ RowCommand(cmd[w])
    BY <1>1 DEF Reading
<1>3. CASE Contains(rows[w], cmd[w].v)
    <2>1. Reply(w, 10, <<>>)
        BY <1>3 DEF TestUnique
    <2>2. /\ SerialInv(w)' /\ Held = before /\ Held' = before
          /\ answer' = <<cmd[w], 10, <<>>>>
        BY <1>1, <1>2, <2>1, Answers
    <2>3. Tables!Add(cmd[w])
        BY <1>2, <1>3, <2>2, SameSelections DEF Tables!Add, Tables!Exists, Tables!Reply
    <2> QED
        BY <1>1, <2>2, <2>3 DEF Tables!Next, Tables!Do
<1>4. CASE ~Contains(rows[w], cmd[w].v)
    <2>1. /\ Goto(w, "loadConfig") /\ checked' = [checked EXCEPT ![w] = TRUE]
          /\ rows' = [rows EXCEPT ![w] = <<>>]
          /\ UNCHANGED <<disk, cmd, names, out, process, history>>
        BY <1>4 DEF TestUnique
    <2>2. Tested(cmd[w])
        BY <1>2, <1>4 DEF Tested
    <2>3. /\ DOMAIN rows' = Worker /\ DOMAIN checked' = Worker /\ checked'[w] \in BOOLEAN
        BY <2>1 DEF SerialInv
    <2> QED
        BY <1>1, <1>2, <2>1, <2>2, <2>3, SerialMoves
<1> QED
    BY <1>3, <1>4

\* GET and COUNT answer from the rows that they have read.
LEMMA SerialAnswers ==
    ASSUME NEW w, Worker = {w}, SerialInv(w), AnswerGet(w) \/ AnswerCount(w)
    PROVE  SerialInv(w)' /\ Tables!Next
<1>1. /\ pc[w] = "use" /\ UNCHANGED disk
      /\ cmd[w] # NoCommand /\ cmd[w] \in Command /\ TableMap(before) /\ Reading(w)
    BY ReadingFacts DEF AnswerGet, AnswerCount
<1>2. /\ Stores(before) /\ cmd[w].d \in DOMAIN before /\ rows[w] = before[cmd[w].d]
    BY <1>1 DEF Reading
<1>3. ASSUME NEW code, NEW result, Reply(w, code, result)
      PROVE  /\ SerialInv(w)' /\ Held = before /\ Held' = before
             /\ answer' = <<cmd[w], code, result>>
    BY <1>1, <1>2, <1>3, Answers
<1>4. CASE AnswerGet(w)
    <2>1. CASE cmd[w].valid \/ rows[w] = <<>>
        <3>1. cmd[w].op = "GET" /\ Reply(w, 0, Matching(rows[w], cmd[w]))
            BY <1>4, <2>1 DEF AnswerGet
        <3>2. SerialInv(w)' /\ Tables!Get(cmd[w])
            BY <1>2, <1>3, <2>1, <3>1, SameSelections
               DEF Tables!Get, Tables!Exists, Tables!Reply
        <3> QED
            BY <1>1, <3>2 DEF Tables!Next, Tables!Do
    <2>2. CASE ~(cmd[w].valid \/ rows[w] = <<>>)
        <3>1. cmd[w].op = "GET" /\ Reply(w, 3, <<>>)
            BY <1>4, <2>2 DEF AnswerGet
        <3>2. SerialInv(w)' /\ Tables!Get(cmd[w])
            BY <1>2, <1>3, <2>2, <3>1, SameSelections
               DEF Tables!Get, Tables!Exists, Tables!Reply
        <3> QED
            BY <1>1, <3>2 DEF Tables!Next, Tables!Do
    <2> QED
        BY <2>1, <2>2
<1>5. CASE AnswerCount(w)
    <2>1. CASE cmd[w].valid
        <3>1. cmd[w].op = "COUNT" /\ Reply(w, 0, <<Len(Matching(rows[w], cmd[w]))>>)
            BY <1>5, <2>1 DEF AnswerCount
        <3>2. SerialInv(w)' /\ Tables!Count(cmd[w])
            BY <1>2, <1>3, <2>1, <3>1, SameSelections
               DEF Tables!Count, Tables!Exists, Tables!Reply
        <3> QED
            BY <1>1, <3>2 DEF Tables!Next, Tables!Do
    <2>2. CASE ~cmd[w].valid
        <3>1. cmd[w].op = "COUNT" /\ Reply(w, 423, <<>>)
            BY <1>5, <2>2 DEF AnswerCount
        <3>2. SerialInv(w)' /\ Tables!Count(cmd[w])
            BY <1>2, <1>3, <2>2, <3>1, SameSelections
               DEF Tables!Count, Tables!Exists, Tables!Reply
        <3> QED
            BY <1>1, <3>2 DEF Tables!Next, Tables!Do
    <2> QED
        BY <2>1, <2>2
<1> QED
    BY <1>4, <1>5

\* A command that has written everything leaves what TableStore promises of it.
LEMMA SerialFinishes ==
    ASSUME NEW w, Worker = {w}, SerialInv(w), Finish(w)
    PROVE  SerialInv(w)' /\ Tables!Next
<1> DEFINE c == cmd[w]
           g == Result(c, before)
<1>1. /\ c # NoCommand /\ c \in Command /\ TableMap(before) /\ Written(w) /\ UNCHANGED disk
    BY RunningFacts DEF Finish, Reading, Changing, Listing, Writing
<1>2. /\ Stores(g) /\ Tested(c) /\ c.op \notin {"GET", "COUNT"}
      /\ c.op = "CREATE" <=> c.d \notin DOMAIN before
      /\ c.op = "CREATE" => c.d \notin Undumpable
      /\ c.op \in {"CREATE", "DELETE", "ADD", "EMPTY", "REMOVE", "CHANGE"}
    BY <1>1, CommandAssumption DEF Written
<1>3. TableMap(g)
    BY <1>1, <1>2, CreateResult, DeleteResult, RowResult DEF RowCommand
<1>4. Reply(w, IF c.op = "ADD" THEN 2 ELSE 0, <<>>)
    BY DEF Finish
<1>5. /\ SerialInv(w)' /\ Held = before /\ Held' = g
      /\ answer' = <<c, IF c.op = "ADD" THEN 2 ELSE 0, <<>>>>
    BY <1>1, <1>2, <1>3, <1>4, Answers
<1>6. CASE c.op = "CREATE"
    <2>1. Tables!Create(c)
        BY <1>2, <1>5, <1>6 DEF Tables!Create, Tables!Exists, Tables!Reply, Result
    <2> QED
        BY <1>1, <1>5, <2>1 DEF Tables!Next, Tables!Do
<1>7. CASE c.op = "DELETE"
    <2>1. Tables!Delete(c)
        BY <1>2, <1>5, <1>7
           DEF Tables!Delete, Tables!Exists, Tables!Reply, Tables!Restrict, Result
    <2> QED
        BY <1>1, <1>5, <2>1 DEF Tables!Next, Tables!Do
<1>8. ASSUME RowCommand(c)
      PROVE  g = [before EXCEPT ![c.d] = NewRows(c, before[c.d])] /\ c.d \in DOMAIN before
    BY <1>2, <1>8 DEF Result, RowCommand
<1>9. CASE c.op = "ADD"
    <2>1. Tables!Add(c)
        BY <1>2, <1>5, <1>8, <1>9, SameSelections
           DEF Tables!Add, Tables!Exists, Tables!Reply, NewRows, RowCommand, Tested
    <2> QED
        BY <1>1, <1>5, <2>1 DEF Tables!Next, Tables!Do
<1>10. CASE c.op = "EMPTY"
    <2>1. Tables!Empty(c)
        BY <1>2, <1>5, <1>8, <1>10
           DEF Tables!Empty, Tables!Exists, Tables!Reply, NewRows, RowCommand
    <2> QED
        BY <1>1, <1>5, <2>1 DEF Tables!Next, Tables!Do
<1>11. CASE c.op = "REMOVE"
    <2>1. Tables!RemoveRows(c)
        BY <1>2, <1>5, <1>8, <1>11, SameSelections
           DEF Tables!RemoveRows, Tables!Exists, Tables!Reply, NewRows, RowCommand
    <2> QED
        BY <1>1, <1>5, <2>1 DEF Tables!Next, Tables!Do
<1>12. CASE c.op = "CHANGE"
    <2>1. Tables!Change(c)
        BY <1>2, <1>5, <1>8, <1>12
           DEF Tables!Change, Tables!Exists, Tables!Reply, NewRows, RowCommand
    <2> QED
        BY <1>1, <1>5, <2>1 DEF Tables!Next, Tables!Do
<1> QED
    BY <1>2, <1>6, <1>7, <1>9, <1>10, <1>11, <1>12

-----------------------------------------------------------------------------
\* Every step keeps the invariant and is a step of TableStore, or none.
LEMMA NextSerial ==
    ASSUME NEW w, Worker = {w}, MaxCrashes = 0, SerialInv(w), [Next]_vars,
           MaxFailures = 0, failures \in Nat
    PROVE  SerialInv(w)' /\ [Tables!Next]_<<Held, answer>>
<1>1. CASE Handler(w)
    BY <1>1, SerialBegins, SerialLoads, SerialReads, SerialWritesBack, SerialCreates,
       SerialCreatesFile, SerialDeletes, SerialSaves, SerialOpens, SerialOpenSucceeds, SerialFlushes,
       SerialRefuses, SerialTests, SerialAnswers, SerialFinishes DEF Handler
<1>2. ~Crash /\ ~NoDescriptor(w)
    BY DEF Crash, NoDescriptor, SerialInv
<1>3. CASE Restart \/ UNCHANGED vars
    <2>1. UNCHANGED <<disk, local, history, config, dir, file, cmd, pc, names, rows,
                      checked, out, crashes, answer, before>>
        BY <1>3 DEF Restart, vars, disk, local, process, history
    <2>2. View' = View /\ Held' = Held
        BY <2>1, SameTables DEF Held, Quiet
    <2>3. cmd[w] = NoCommand => TableMap(View)' /\ Stores(View)'
        BY <2>1, <2>2 DEF SerialInv, TableMap, Stores, AllStored, StoredIn, Absent
    <2>4. ASSUME cmd[w] # NoCommand
          PROVE  SerialInv(w)'
        <3>1. Continues(w) /\ (Reading(w) \/ Changing(w) \/ Listing(w) \/ Written(w))
            BY <2>1, <2>4 DEF Continues, SerialInv
        <3>2. NewRows(cmd[w], before[cmd[w].d])' = NewRows(cmd[w], before[cmd[w].d])
            BY <2>1
        <3>3. Tested(cmd[w])' <=> Tested(cmd[w])
            BY <2>1 DEF Tested
        <3>4. Result(cmd[w], before)' = Result(cmd[w], before)
            BY <2>1
        <3>5. ASSUME Reading(w)
              PROVE  Reading(w)'
            BY <2>1, <3>5 DEF Reading, Stores, AllStored, StoredIn, Absent, Tested
        <3>6. ASSUME Changing(w)
              PROVE  Changing(w)'
            BY <2>1, <3>6, <3>2, <3>3 DEF Changing, OthersStored, StoredIn, Absent, Writing
        <3>7. ASSUME Listing(w)
              PROVE  Listing(w)'
            BY <2>1, <3>7, <3>4 DEF Listing, AllStored, StoredIn, Absent, Writing
        <3>8. ASSUME Written(w)
              PROVE  Written(w)'
            BY <2>1, <3>8, <3>3, <3>4 DEF Written, Stores, AllStored, StoredIn, Absent
        <3> QED
            BY <2>4, <3>1, <3>5, <3>6, <3>7, <3>8, GoesOn
    <2>5. SerialInv(w)'
        BY <2>1, <2>3, <2>4 DEF SerialInv
    <2> QED
        BY <2>1, <2>2, <2>5
<1> QED
    BY <1>1, <1>2, <1>3 DEF Next

\* The store starts with no command and no table.
LEMMA InitSerial ==
    ASSUME NEW w, Worker = {w}, Init
    PROVE  SerialInv(w) /\ Tables!Init
<1>1. config = NameText({}) /\ ConfigParses /\ config.val = {}
    BY NameTextFacts DEF Init, ConfigParses
<1>2. View = [d \in {} |-> <<>>]
    BY <1>1 DEF View
<1>3. Held = View
    BY DEF Held, Quiet, Init
<1>4. TableMap(View) /\ Stores(View)
    BY <1>1, <1>2 DEF TableMap, Stores, AllStored, StoredIn, Absent, Init
<1>5. SerialInv(w)
    BY <1>4 DEF SerialInv, Init
<1> QED
    BY <1>2, <1>3, <1>5 DEF Tables!Init, Init

\* One worker and no crash: between two commands the list, the directories and the
\* files hold the same tables (RoktService, RoktDataset).
THEOREM ListAndDiskAgree ==
    ASSUME NEW w, Worker = {w}, MaxCrashes = 0, MaxFailures = 0
    PROVE  Spec => []ListMatchesDisk
<1>1. SerialInv(w) => ListMatchesDisk
    <2> SUFFICES ASSUME SerialInv(w), Quiet
                 PROVE  /\ ConfigParses /\ config.val = dir \ Undumpable
                        /\ \A d \in Dataset : IF d \in dir THEN FileParses(d) ELSE ~Exists(d)
        BY DEF ListMatchesDisk
    <2>1. TableMap(View) /\ Stores(View) /\ dir \subseteq Dataset
        BY QuietFacts DEF SerialInv
    <2>2. ConfigParses /\ config.val = DOMAIN View
        BY <2>1, NameTextFacts DEF Stores, ConfigParses
    <2>3. DOMAIN View = dir \ Undumpable
        BY <2>1 DEF TableMap, Stores, AllStored, StoredIn, Absent
    <2>4. \A d \in Dataset : IF d \in dir THEN FileParses(d) ELSE ~Exists(d)
        BY <2>1, RowTextFacts DEF Stores, AllStored, StoredIn, Absent, FileParses, Exists
    <2> QED
        BY <2>2, <2>3, <2>4
<1>2. Init => SerialInv(w)
    BY InitSerial
<1>3. SerialInv(w) /\ [Next]_vars /\ failures \in Nat => SerialInv(w)'
    BY NextSerial
<1> QED
    BY <1>1, <1>2, <1>3, FailuresCounted, PTL DEF Spec

\* One worker and no crash: the files and the handlers are the tables of
\* TableStore, in what is stored and in every reply (all command handlers).
THEOREM FilesImplementTables ==
    ASSUME NEW w, Worker = {w}, MaxCrashes = 0, MaxFailures = 0
    PROVE  Spec => ImplementsTables
<1>1. Init => SerialInv(w) /\ Tables!Init
    BY InitSerial
<1>2. SerialInv(w) /\ [Next]_vars /\ failures \in Nat =>
          SerialInv(w)' /\ [Tables!Next \/ crashes' > 0]_<<Held, answer>>
    BY NextSerial
<1> QED
    BY <1>1, <1>2, FailuresCounted, PTL DEF Spec, ImplementsTables, Tables!vars
=============================================================================
