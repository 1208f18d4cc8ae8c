----------------------------- MODULE RoktStore ------------------------------
(***************************************************************************)
(* The tables of ROKT as files: src/app/src/RoktService.cpp (the list of   *)
(* tables, kept in one configuration file), RoktDataset.cpp (one file per  *)
(* table, in a directory of its own) and what the command handlers do with *)
(* them.  Nothing locks a file: workers interleave between the system      *)
(* calls, and the process may die between two of them.                     *)
(*                                                                         *)
(* Every write is an ofstream that truncates the file when it is opened    *)
(* and writes the whole new text when it is closed, at offset 0.  Every    *)
(* read takes the whole file; a text that does not parse is replaced by    *)
(* the empty one.  AES-CTR with a fixed key and IV acts position by        *)
(* position, so ciphertexts overlay as their texts do and encryption is    *)
(* left out.                                                               *)
(*                                                                         *)
(* Abstractions: a row is the value of the one field the commands look at; *)
(* all rows, and all table names, have the same width, so the size of a    *)
(* text is the number of its elements plus one for the brackets.  What the *)
(* conditions of a command select is any set of values (module Conditions  *)
(* says which); the other clauses of GET only shape its answer.  Values    *)
(* are UTF-8; the names of tables may be improper, and an open may fail.   *)
(* Commands refused before they touch a file are left out, and so are the  *)
(* type ROTATE, which no command can ask for, and the empty name.          *)
(***************************************************************************)
EXTENDS Integers, Sequences, FiniteSets, SequencesExt, Selection

CONSTANTS
    Worker,      \* the worker threads that run handlers
    Dataset,     \* table names
    Unmakeable,  \* those no directory can be made for: too long in hexadecimal
                 \* for a file name, or the name of the list itself
    Undumpable,  \* those that are not UTF-8, which the list cannot be dumped with
    Value,       \* values of the field
    Command,     \* the commands the clients may send
    MaxRows,     \* bound: no ADD starts on a table that has as many rows
    MaxCommands, \* bound: how many commands are started (0: no bound)
    MaxCrashes,  \* bound: how many times the process is killed
    MaxFailures  \* bound: how many times no descriptor is left for an open

\* The marks that out[w].to may hold instead of a table name.
ASSUME DatasetAssumption ==
    /\ Dataset \cap {"config", "unlinked", "none"} = {}
    /\ Unmakeable \subseteq Dataset /\ Undumpable \subseteq Dataset

\* What TypeOK bounds the files with.
ASSUME BoundAssumption == MaxRows \in Nat \ {0} /\ IsFiniteSet(Dataset)

ASSUME CommandAssumption ==
    \A c \in Command :
        /\ c.op \in {"CREATE", "DELETE", "ADD", "GET", "COUNT", "EMPTY",
                     "REMOVE", "CHANGE"}
        /\ c.d \in Dataset
        /\ c.op = "ADD" => c.unique \in BOOLEAN
        /\ c.op \in {"ADD", "CHANGE"} => c.v \in Value
        /\ c.op \in {"GET", "COUNT", "REMOVE", "CHANGE"} => c.match \subseteq Value
        /\ c.op \in {"GET", "COUNT"} => c.valid \in BOOLEAN

VARIABLES
    config,      \* the configuration file: the set of tables, as a content
    dir,         \* the tables whose directory exists
    file,        \* file[d]: the content of the file of table d, or NoFile
    cmd,         \* cmd[w]: the command worker w runs, or NoCommand
    pc,          \* pc[w]: what the handler does next
    names,       \* names[w]: configJson["datasets"]
    rows,        \* rows[w]: the table as worker w has read it
    checked,     \* checked[w]: the UNIQUE test of an ADD has passed
    out,         \* out[w]: the write that worker w has begun or will begin
    up,          \* the process runs
    issued,      \* how many commands were started (bounded)
    crashes,     \* how many times the process was killed (bounded)
    failures,    \* how many opens failed for want of a descriptor (bounded)
    answer,      \* history: the last reply
    before,      \* history: the tables when the store was last quiet
    acked,       \* history: the ADD commands answered 2 since then
    dropped      \* history: tables whose directory a DELETE has removed and no
                 \* CREATE has made again

disk    == <<config, dir, file>>
local   == <<cmd, pc, names, rows, checked, out>>
process == <<up, issued, crashes>>
history == <<answer, before, acked, dropped>>
vars    == <<disk, local, process, failures, history>>

-----------------------------------------------------------------------------
(* The content of a file: the text last written at offset 0 and the length *)
(* of the file, which is longer when a shorter text overlaid a longer one. *)

NoCommand == [op |-> "none"]
NoWrite   == [to |-> "none"]

NameText(S) == [val |-> S, len |-> Cardinality(S) + 1]
RowText(s)  == [val |-> s, len |-> Len(s) + 1]

BlankNames == [val |-> {}, len |-> 0]                    \* just truncated
BlankRows  == [val |-> <<>>, len |-> 0]
NoFile     == [val |-> <<>>, len |-> -1]

\* Writing text over what the file holds: nothing, when it has just been truncated.
Overlay(content, text) ==
    [val |-> text.val, len |-> IF content.len > 0 /\ content.len > text.len
                               THEN content.len ELSE text.len]

\* Decryption never fails on these texts; parsing fails unless the file holds
\* one whole text and nothing more.
ConfigParses == config = NameText(config.val)
FileParses(d) == file[d] = RowText(file[d].val)

\* What the next command, running alone, would find.
View == [d \in IF ConfigParses THEN config.val ELSE {} |->
            IF FileParses(d) THEN file[d].val ELSE <<>>]

Exists(d) == file[d] # NoFile

Quiet == \A w \in Worker : cmd[w] = NoCommand

-----------------------------------------------------------------------------
\* The constructor of RoktService has made the root and an empty list.
Init ==
    /\ config = NameText({}) /\ dir = {} /\ file = [d \in Dataset |-> NoFile]
    /\ cmd = [w \in Worker |-> NoCommand]
    /\ pc = [w \in Worker |-> "idle"]
    /\ names = [w \in Worker |-> {}]
    /\ rows = [w \in Worker |-> <<>>]
    /\ checked = [w \in Worker |-> FALSE]
    /\ out = [w \in Worker |-> NoWrite]
    /\ up = TRUE /\ issued = 0 /\ crashes = 0 /\ failures = 0
    /\ before = View
    /\ answer = <<>> /\ acked = {} /\ dropped = {}

Goto(w, place) == pc' = [pc EXCEPT ![w] = place]

\* The handler returns: the worker forgets its local variables.
Reply(w, code, result) ==
    /\ answer' = <<cmd[w], code, result>>
    /\ acked' = IF code = 2 THEN acked \cup {cmd[w]} ELSE acked
    /\ cmd' = [cmd EXCEPT ![w] = NoCommand]
    /\ pc' = [pc EXCEPT ![w] = "idle"]
    /\ names' = [names EXCEPT ![w] = {}]
    /\ rows' = [rows EXCEPT ![w] = <<>>]
    /\ checked' = [checked EXCEPT ![w] = FALSE]
    /\ out' = [out EXCEPT ![w] = NoWrite]
    /\ UNCHANGED <<before, dropped, process>>

\* An ofstream will be opened on the file of table d, or on the configuration.
BeginWriteRows(w, s, next) ==
    /\ out' = [out EXCEPT ![w] = [to |-> cmd[w].d, text |-> RowText(s), next |-> next]]
    /\ Goto(w, "open")
BeginWriteConfig(w, S, next) ==
    /\ out' = [out EXCEPT ![w] = [to |-> "config", text |-> NameText(S), next |-> next]]
    /\ Goto(w, "open")

\* The process ends: what was not flushed is lost, the threads are gone.
Die ==
    /\ up' = FALSE
    /\ cmd' = [w \in Worker |-> NoCommand]
    /\ pc' = [w \in Worker |-> "idle"]
    /\ names' = [w \in Worker |-> {}]
    /\ rows' = [w \in Worker |-> <<>>]
    /\ checked' = [w \in Worker |-> FALSE]
    /\ out' = [w \in Worker |-> NoWrite]

-----------------------------------------------------------------------------
(* Steps that every command makes.                                         *)

Begin(w, c) ==
    /\ cmd[w] = NoCommand /\ (issued < MaxCommands \/ MaxCommands = 0)
    /\ c.op = "ADD" => file[c.d].len <= MaxRows
    /\ cmd' = [cmd EXCEPT ![w] = c]
    /\ Goto(w, "loadConfig")
    /\ issued' = IF MaxCommands = 0 THEN 0 ELSE issued + 1
    /\ before' = IF Quiet THEN View ELSE before
    /\ acked' = IF Quiet THEN {} ELSE acked
    /\ UNCHANGED <<disk, names, rows, checked, out, up, crashes, answer, dropped>>

\* loadConfig: a list that does not parse is replaced by the empty list.
LoadConfig(w) ==
    /\ pc[w] = "loadConfig"
    /\ \/ /\ ConfigParses
          /\ names' = [names EXCEPT ![w] = config.val]
          /\ Goto(w, "check") /\ UNCHANGED out
       \/ /\ ~ConfigParses
          /\ names' = [names EXCEPT ![w] = {}]
          /\ BeginWriteConfig(w, {}, "check")
    /\ UNCHANGED <<disk, cmd, rows, checked, process, history>>

\* The early returns of create, drop and from.
Refuse(w) ==
    /\ pc[w] = "check"
    /\ \/ cmd[w].op = "CREATE" /\ cmd[w].d \in names[w] /\ Reply(w, 10, <<>>)
       \/ cmd[w].op = "DELETE" /\ cmd[w].d \notin names[w] /\ Reply(w, 567, <<>>)
       \/ /\ cmd[w].op \notin {"CREATE", "DELETE"} /\ cmd[w].d \notin names[w]
          /\ Reply(w, 1, <<>>)
    /\ UNCHANGED disk

\* The ofstream is opened: the file is created or truncated.
Open(w) ==
    LET d == out[w].to IN
    /\ pc[w] = "open"
    /\ \/ d = "config" /\ config' = BlankNames /\ UNCHANGED file
       \/ d \in dir /\ file' = [file EXCEPT ![d] = BlankRows] /\ UNCHANGED config
    /\ Goto(w, "flush")
    /\ UNCHANGED <<dir, cmd, names, rows, checked, out, process, history>>

\* The ofstream cannot be opened.  create answers 423 for the file of its table;
\* writeDataset and writeConfig throw, which GET, REMOVE and CHANGE catch and the
\* other handlers do not.
WriteFails(w) ==
    /\ pc[w] = "open"
    /\ \/ cmd[w].op = "GET" /\ Reply(w, 1, <<>>)
       \/ cmd[w].op \in {"REMOVE", "CHANGE"} /\ Reply(w, 423, <<>>)
       \/ cmd[w].op = "CREATE" /\ out[w].to \in Dataset /\ Reply(w, 423, <<>>)
       \/ /\ \/ cmd[w].op \in {"DELETE", "ADD", "COUNT", "EMPTY"}
             \/ cmd[w].op = "CREATE" /\ out[w].to = "config"
          /\ Die /\ UNCHANGED <<issued, crashes, history>>
    /\ UNCHANGED disk

\* The directory of the table is gone.
OpenFails(w) == out[w].to \in Dataset \ dir /\ WriteFails(w)

\* The ofstream is closed.  out[w].to is "unlinked" when the file was unlinked meanwhile.
Flush(w) ==
    LET d == out[w].to IN
    /\ pc[w] = "flush"
    /\ config' = IF d = "config" THEN Overlay(config, out[w].text) ELSE config
    /\ file' = IF d \in Dataset THEN [file EXCEPT ![d] = Overlay(@, out[w].text)] ELSE file
    /\ Goto(w, out[w].next)
    /\ out' = [out EXCEPT ![w] = NoWrite]
    /\ UNCHANGED <<dir, cmd, names, rows, checked, process, history>>

\* The write was the last thing to do.
Finish(w) ==
    /\ pc[w] = "done"
    /\ Reply(w, IF cmd[w].op = "ADD" THEN 2 ELSE 0, <<>>)
    /\ UNCHANGED disk

-----------------------------------------------------------------------------
(* RoktService::create and RoktService::drop.                              *)

Creating(w) == pc[w] = "check" /\ cmd[w].op = "CREATE" /\ cmd[w].d \notin names[w]

\* create_directories looks for the directory first; for a name that cannot be
\* one it throws, and nothing catches that.
FindDirectory(w) ==
    /\ Creating(w)
    /\ \/ /\ cmd[w].d \in Unmakeable
          /\ Die /\ UNCHANGED <<issued, crashes, history>>
       \/ /\ cmd[w].d \notin Unmakeable
          /\ Goto(w, IF cmd[w].d \in dir THEN "exists" ELSE "mkdir")
          /\ UNCHANGED <<cmd, names, rows, checked, out, process, history>>
    /\ UNCHANGED disk

\* Variant: the list is written before the directory is made.
MakeDirectoryLate(w) ==
    /\ pc[w] = "mkdir"
    /\ \/ /\ cmd[w].d \notin names[w]
          /\ names' = [names EXCEPT ![w] = @ \cup {cmd[w].d}]
          /\ BeginWriteConfig(w, names[w] \cup {cmd[w].d}, "mkdir")
          /\ UNCHANGED <<dir, dropped>>
       \/ /\ cmd[w].d \in names[w]
          /\ dir' = dir \cup {cmd[w].d}
          /\ dropped' = dropped \ {cmd[w].d}
          /\ Goto(w, "exists")
          /\ UNCHANGED <<names, out>>
    /\ UNCHANGED <<config, file, cmd, rows, checked, process, answer, before, acked>>

\* mkdir, which another CREATE of the table may have done meanwhile.
MakeDirectory(w) ==
    /\ pc[w] = "mkdir"
    /\ dir' = dir \cup {cmd[w].d}
    /\ dropped' = dropped \ {cmd[w].d}
    /\ Goto(w, IF cmd[w].d \in dir THEN "isdir" ELSE "exists")
    /\ UNCHANGED <<config, file, cmd, names, rows, checked, out, process,
                   answer, before, acked>>

\* In that case it looks once more, and throws when a DELETE has been faster.
DirectoryIsThere(w) ==
    /\ pc[w] = "isdir"
    /\ \/ /\ cmd[w].d \in dir /\ Goto(w, "exists")
          /\ UNCHANGED <<cmd, names, rows, checked, out, process, history>>
       \/ /\ cmd[w].d \notin dir
          /\ Die /\ UNCHANGED <<issued, crashes, history>>
    /\ UNCHANGED disk

\* A file that is already there is kept, with whatever rows it holds.
CreateFile(w) ==
    /\ pc[w] = "exists"
    /\ \/ ~Exists(cmd[w].d) /\ BeginWriteRows(w, <<>>, "saveConfig")
       \/ Exists(cmd[w].d) /\ Goto(w, "saveConfig") /\ UNCHANGED out
    /\ UNCHANGED <<disk, cmd, names, rows, checked, process, history>>

\* Variant: DELETE writes the list back without erasing the table from it.
SaveConfigKeepsTable(w) ==
    /\ pc[w] = "saveConfig"
    /\ BeginWriteConfig(w, IF cmd[w].op = "CREATE" THEN names[w] \cup {cmd[w].d}
                                                   ELSE names[w], "done")
    /\ UNCHANGED <<disk, cmd, names, rows, checked, process, history>>

\* Variant: CREATE writes a new list instead of adding to the one it has loaded.
SaveConfigFromScratch(w) ==
    /\ pc[w] = "saveConfig"
    /\ BeginWriteConfig(w, IF cmd[w].op = "CREATE" THEN {cmd[w].d}
                                                   ELSE names[w] \ {cmd[w].d}, "done")
    /\ UNCHANGED <<disk, cmd, names, rows, checked, process, history>>

\* dump throws before the file is opened when the new name is not UTF-8.
SaveConfig(w) ==
    /\ pc[w] = "saveConfig"
    /\ \/ /\ cmd[w].op = "CREATE" /\ cmd[w].d \in Undumpable
          /\ Die /\ UNCHANGED <<issued, crashes, history>>
       \/ /\ cmd[w].op = "CREATE" /\ cmd[w].d \notin Undumpable
          /\ BeginWriteConfig(w, names[w] \cup {cmd[w].d}, "done")
          /\ UNCHANGED <<cmd, names, rows, checked, process, history>>
       \/ /\ cmd[w].op = "DELETE"
          /\ BeginWriteConfig(w, names[w] \ {cmd[w].d}, "done")
          /\ UNCHANGED <<cmd, names, rows, checked, process, history>>
    /\ UNCHANGED disk

\* remove_all, first half: the file.  A worker that has it open writes to nothing.
Unlink(w) ==
    LET d == cmd[w].d IN
    /\ pc[w] = "check" /\ cmd[w].op = "DELETE" /\ d \in names[w]
    /\ file' = [file EXCEPT ![d] = NoFile]
    /\ out' = [v \in Worker |-> IF pc[v] = "flush" /\ out[v].to = d
                                THEN [out[v] EXCEPT !.to = "unlinked"] ELSE out[v]]
    /\ Goto(w, "rmdir")
    /\ UNCHANGED <<config, dir, cmd, names, rows, checked, process, history>>

\* remove_all, second half: the directory, unless the file is there again.
RemoveDirectory(w) ==
    LET d == cmd[w].d IN
    /\ pc[w] = "rmdir"
    /\ \/ /\ ~Exists(d)
          /\ dir' = dir \ {d}
          /\ dropped' = dropped \cup {d}
          /\ Goto(w, "saveConfig")
          /\ UNCHANGED <<cmd, names, rows, checked, out, process, answer, before, acked>>
       \/ /\ Exists(d)
          /\ Reply(w, 457, <<>>)
          /\ UNCHANGED dir
    /\ UNCHANGED <<config, file>>

-----------------------------------------------------------------------------
(* RoktDataset and the handlers of rows.                                   *)

\* from has answered 0: the handler goes to the file.
Found(w) == /\ pc[w] = "check" /\ cmd[w].op \notin {"CREATE", "DELETE"}
            /\ cmd[w].d \in names[w]

\* EMPTY overwrites the file without reading it.
StartEmpty(w) ==
    /\ Found(w) /\ cmd[w].op = "EMPTY"
    /\ BeginWriteRows(w, <<>>, "done")
    /\ UNCHANGED <<disk, cmd, names, rows, checked, process, history>>

\* ADD ... UNIQUE passes here twice, first to look for the value, then to insert.
StartAdd(w) ==
    /\ Found(w) /\ cmd[w].op = "ADD"
    /\ \/ cmd[w].unique /\ ~checked[w] /\ Goto(w, "readData")
       \/ (cmd[w].unique => checked[w]) /\ Goto(w, "probe")
    /\ UNCHANGED <<disk, cmd, names, rows, checked, out, process, history>>

\* GET, COUNT, REMOVE and CHANGE select every row first.
StartSelect(w) ==
    /\ Found(w) /\ cmd[w].op \in {"GET", "COUNT", "REMOVE", "CHANGE"}
    /\ Goto(w, "read")
    /\ UNCHANGED <<disk, cmd, names, rows, checked, out, process, history>>

\* readDataset: a missing file is made first, a text that does not parse is
\* replaced by the empty table.  The file may be missing again after that:
\* insert then answers 3 and select an empty table.
Read(w) ==
    LET d == cmd[w].d IN
    /\ pc[w] \in {"read", "reread"}
    /\ \/ /\ FileParses(d)
          /\ rows' = [rows EXCEPT ![w] = file[d].val]
          /\ Goto(w, "use") /\ UNCHANGED <<cmd, names, checked, out, process, history>>
       \/ /\ Exists(d) /\ ~FileParses(d)
          /\ BeginWriteRows(w, <<>>, "use")
          /\ UNCHANGED <<cmd, names, rows, checked, process, history>>
       \/ /\ ~Exists(d) /\ pc[w] = "read"
          /\ BeginWriteRows(w, <<>>, "reread")
          /\ UNCHANGED <<cmd, names, rows, checked, process, history>>
       \/ /\ ~Exists(d) /\ pc[w] = "reread" /\ cmd[w].op # "ADD"
          /\ Goto(w, "use") /\ UNCHANGED <<cmd, names, rows, checked, out, process, history>>
       \/ /\ ~Exists(d) /\ pc[w] = "reread" /\ cmd[w].op = "ADD"
          /\ Reply(w, 3, <<>>)
    /\ UNCHANGED disk

\* readData, for UNIQUE: the same without the second attempt.
ReadData(w) ==
    LET d == cmd[w].d IN
    /\ pc[w] = "readData"
    /\ \/ /\ FileParses(d)
          /\ rows' = [rows EXCEPT ![w] = file[d].val]
          /\ Goto(w, "unique") /\ UNCHANGED out
       \/ /\ ~FileParses(d)
          /\ BeginWriteRows(w, <<>>, "unique") /\ UNCHANGED rows
    /\ UNCHANGED <<disk, cmd, names, checked, process, history>>

\* Variant: the result of the UNIQUE test is not looked at.
TestUniqueIgnored(w) ==
    /\ pc[w] = "unique"
    /\ checked' = [checked EXCEPT ![w] = TRUE]
    /\ rows' = [rows EXCEPT ![w] = <<>>]
    /\ Goto(w, "loadConfig")
    /\ UNCHANGED <<disk, cmd, names, out, process, history>>

\* The value is there: 10.  Otherwise from is called again before the insert.
TestUnique(w) ==
    /\ pc[w] = "unique"
    /\ \/ /\ Contains(rows[w], cmd[w].v)
          /\ Reply(w, 10, <<>>)
       \/ /\ ~Contains(rows[w], cmd[w].v)
          /\ checked' = [checked EXCEPT ![w] = TRUE]
          /\ rows' = [rows EXCEPT ![w] = <<>>]
          /\ Goto(w, "loadConfig")
          /\ UNCHANGED <<cmd, names, out, process, history>>
    /\ UNCHANGED disk

\* insert looks whether the file is there before it reads it.
Probe(w) ==
    /\ pc[w] = "probe"
    /\ Goto(w, IF Exists(cmd[w].d) THEN "read" ELSE "use")
    /\ UNCHANGED <<disk, cmd, names, rows, checked, out, process, history>>

Matching(r, c) == Among(r, c.match)
NotMatching(r, c) == Among(r, Range(r) \ c.match)

\* The rows are in memory: GET answers those its conditions select, or 3 when
\* the first row shows that they cannot be combined.
AnswerGet(w) ==
    /\ pc[w] = "use" /\ cmd[w].op = "GET"
    /\ \/ (cmd[w].valid \/ rows[w] = <<>>) /\ Reply(w, 0, Matching(rows[w], cmd[w]))
       \/ ~cmd[w].valid /\ rows[w] # <<>> /\ Reply(w, 3, <<>>)
    /\ UNCHANGED disk

\* COUNT looks at the form of its condition only now.
AnswerCount(w) ==
    /\ pc[w] = "use" /\ cmd[w].op = "COUNT"
    /\ \/ cmd[w].valid /\ Reply(w, 0, <<Len(Matching(rows[w], cmd[w]))>>)
       \/ ~cmd[w].valid /\ Reply(w, 423, <<>>)
    /\ UNCHANGED disk

\* Variant: insert reads the rows into a table that already holds them.
InsertReadsTwice(w) ==
    /\ pc[w] = "use" /\ cmd[w].op = "ADD"
    /\ BeginWriteRows(w, rows[w] \o Append(rows[w], cmd[w].v), "done")
    /\ UNCHANGED <<disk, cmd, names, rows, checked, process, history>>

\* The others write every row back.
Insert(w) ==
    /\ pc[w] = "use" /\ cmd[w].op = "ADD"
    /\ BeginWriteRows(w, Append(rows[w], cmd[w].v), "done")
    /\ UNCHANGED <<disk, cmd, names, rows, checked, process, history>>

OverwriteRemove(w) ==
    /\ pc[w] = "use" /\ cmd[w].op = "REMOVE"
    /\ BeginWriteRows(w, NotMatching(rows[w], cmd[w]), "done")
    /\ UNCHANGED <<disk, cmd, names, rows, checked, process, history>>

OverwriteChange(w) ==
    /\ pc[w] = "use" /\ cmd[w].op = "CHANGE"
    /\ BeginWriteRows(w, [k \in DOMAIN rows[w] |-> IF rows[w][k] \in cmd[w].match
                                                   THEN cmd[w].v ELSE rows[w][k]], "done")
    /\ UNCHANGED <<disk, cmd, names, rows, checked, process, history>>

-----------------------------------------------------------------------------
(* No descriptor is left for an open: the clients hold them all.           *)

\* An ifstream that cannot be opened is taken for a missing file, whether there
\* is one or not: the list, or the table, is written anew.
ReadOpenFails(w) ==
    /\ \/ /\ pc[w] = "loadConfig"
          /\ names' = [names EXCEPT ![w] = {}]
          /\ BeginWriteConfig(w, {}, "check") /\ UNCHANGED <<cmd, rows, checked, process, history>>
       \/ /\ pc[w] \in {"read", "readData"}
          /\ BeginWriteRows(w, <<>>, IF pc[w] = "read" THEN "reread" ELSE "unique")
          /\ UNCHANGED <<cmd, names, rows, checked, process, history>>
       \/ /\ pc[w] = "probe" \/ (pc[w] = "reread" /\ cmd[w].op # "ADD")
          /\ Goto(w, "use") /\ UNCHANGED <<cmd, names, rows, checked, out, process, history>>
       \/ pc[w] = "reread" /\ cmd[w].op = "ADD" /\ Reply(w, 3, <<>>)
    /\ UNCHANGED disk

\* remove_all cannot list the directory, and removes nothing.
RemoveAllFails(w) ==
    /\ pc[w] = "check" /\ cmd[w].op = "DELETE" /\ cmd[w].d \in names[w]
    /\ Reply(w, 457, <<>>)
    /\ UNCHANGED disk

NoDescriptor(w) ==
    /\ failures < MaxFailures /\ failures' = failures + 1
    /\ WriteFails(w) \/ ReadOpenFails(w) \/ RemoveAllFails(w)

-----------------------------------------------------------------------------
(* The process is killed at any moment, and started again.                 *)

Crash ==
    /\ crashes < MaxCrashes
    /\ crashes' = crashes + 1
    /\ Die
    /\ UNCHANGED <<disk, issued, failures, history>>

\* The constructor finds a configuration file, whatever it holds.
Restart ==
    /\ ~up
    /\ up' = TRUE
    /\ UNCHANGED <<disk, local, issued, crashes, failures, history>>

Handler(w) ==
    \/ \E c \in Command : Begin(w, c)
    \/ LoadConfig(w) \/ Refuse(w) \/ Open(w) \/ OpenFails(w) \/ Flush(w) \/ Finish(w)
    \/ FindDirectory(w) \/ MakeDirectory(w) \/ DirectoryIsThere(w)
    \/ CreateFile(w) \/ SaveConfig(w) \/ Unlink(w) \/ RemoveDirectory(w)
    \/ StartEmpty(w) \/ StartAdd(w) \/ StartSelect(w)
    \/ Read(w) \/ ReadData(w) \/ TestUnique(w) \/ Probe(w)
    \/ AnswerGet(w) \/ AnswerCount(w)
    \/ Insert(w) \/ OverwriteRemove(w) \/ OverwriteChange(w)

Next == \/ up /\ \E w \in Worker : Handler(w) /\ UNCHANGED failures
        \/ up /\ \E w \in Worker : NoDescriptor(w)
        \/ up /\ Crash
        \/ Restart

Spec == Init /\ [][Next]_vars

-----------------------------------------------------------------------------
(* What must hold.                                                         *)

\* Types of the variables; the size of a table is bounded by the guard of Begin
\* when one worker runs.
TypeOK ==
    /\ config.val \subseteq Dataset /\ config.len \in 0..(Cardinality(Dataset) + 1)
    /\ dir \subseteq Dataset
    /\ \A d \in Dataset : /\ file[d].val \in Seq(Value)
                          /\ file[d].len \in -1..(MaxRows + 1)
    /\ \A w \in Worker :
        /\ cmd[w] \in Command \cup {NoCommand}
        /\ pc[w] \in {"idle", "loadConfig", "check", "open", "flush", "done", "exists", "mkdir",
                      "isdir", "saveConfig", "rmdir", "readData", "unique", "probe", "read",
                      "reread", "use"}
        /\ names[w] \subseteq Dataset /\ rows[w] \in Seq(Value) /\ checked[w] \in BOOLEAN
        /\ out[w] = NoWrite \/ out[w].to \in Dataset \cup {"config", "unlinked"}

\* One worker: the commands are what TableStore promises, replies and rows, for
\* every sequence of commands, until the process is killed.  While a command runs
\* the tables are still those it began with; one that ends the process by an
\* improper name has done nothing.
Held == IF Quiet THEN View ELSE before
Tables == INSTANCE TableStore WITH tables <- Held
ImplementsTables == Tables!Init /\ [][Tables!Next \/ crashes' > 0]_(Tables!vars)

\* One worker: until the process is killed, between two commands the list of
\* tables, the directories and the files agree, and every file parses.  Only the
\* table of a name that cannot be dumped has a directory and is not listed.
ListMatchesDisk ==
    Quiet /\ crashes = 0 =>
        /\ ConfigParses /\ config.val = dir \ Undumpable
        /\ \A d \in Dataset : IF d \in dir THEN FileParses(d) ELSE ~Exists(d)

\* One worker, crashes at any step: the process dies with the disk as it is, so
\* this bounds what a crash can cost.  While a command runs, the tables it does
\* not name are what they were when it began, and its own table is still listed
\* if it was, and is what it was or empty, until nothing is left to write.  The exception is the
\* moment when CREATE or DELETE has truncated the list: then no table is left.
Without(tables, d) == Restrict(tables, DOMAIN tables \ {d})

ListIsTruncated(w) == /\ pc[w] = "flush" /\ out[w].to = "config"
                      /\ cmd[w].op \in {"CREATE", "DELETE"}

DamageIsLocal ==
    \A w \in Worker : cmd[w] # NoCommand =>
        \/ ListIsTruncated(w)
        \/ LET d == cmd[w].d IN
           /\ Without(View, d) = Without(before, d)
           /\ pc[w] # "done" => /\ d \in DOMAIN View <=> d \in DOMAIN before
                                /\ d \in DOMAIN View => View[d] \in {before[d], <<>>}

\* Several workers, crashes and failing opens: no table is listed that no CREATE
\* made, on disk or as some worker has loaded the list.  If the directory of a
\* listed table is gone, a DELETE removed it after that CREATE (its own entry may
\* be back, from a list that another worker loaded before).  A name that is
\* improper is never listed.
ListedTablesWereMade ==
    LET listed == config.val \cup UNION {names[w] : w \in Worker} IN
    /\ listed \subseteq dir \cup dropped
    /\ listed \cap (Unmakeable \cup Undumpable) = {}

\* Several workers, crashes and failing opens: a command ends the process only if
\* a DELETE removed the directory of its table, or if it is the CREATE of an
\* improper name, or if no descriptor was left.  GET, REMOVE and CHANGE never do.
AbortsExplained ==
    [][\A w \in Worker : (up /\ ~up' /\ (Handler(w) \/ NoDescriptor(w))) =>
          /\ cmd[w].op \notin {"GET", "REMOVE", "CHANGE"}
          /\ \/ cmd[w].d \in dropped
             \/ cmd[w].op = "CREATE" /\ cmd[w].d \in Unmakeable \cup Undumpable
             \/ failures' > failures]_vars

\* Several workers, ADD ... UNIQUE only: no table holds a value twice.
UniqueKept ==
    \A d \in Dataset : IsInjective(file[d].val)

\* Several workers, ADD only: when the store is quiet again the rows whose ADD
\* was answered 2 are in the table.
AcknowledgedRowsAreKept ==
    Quiet => \A c \in acked : Contains(file[c.d].val, c.v)
=============================================================================
