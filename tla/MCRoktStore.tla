---------------------------- MODULE MCRoktStore -----------------------------
(***************************************************************************)
(* Instances of RoktStore for TLC: the sets of commands.  Strings name the *)
(* tables and the values.                                                  *)
(***************************************************************************)
EXTENDS RoktStore

Plain(ops, ds) == [op : ops, d : ds]
Adds(ds, vs, unique) == [op : {"ADD"}, d : ds, v : vs, unique : unique]
Gets(ds, matches, valid) == [op : {"GET"}, d : ds, match : matches, valid : valid]

\* Every kind of command on a table with two values, its outcomes included:
\* conditions that select some rows, all or none, and malformed ones.
FirstTable ==
    Plain({"CREATE", "DELETE", "EMPTY"}, {"t"})
    \cup Adds({"t"}, {"x", "y"}, {TRUE}) \cup Adds({"t"}, {"x"}, {FALSE})
    \cup Gets({"t"}, {{"x"}}, BOOLEAN)
    \cup [op : {"COUNT"}, d : {"t"}, match : {{"x", "y"}}, valid : BOOLEAN]
    \cup [op : {"REMOVE"}, d : {"t"}, match : {{"x"}, {"x", "y"}}]
    \cup [op : {"CHANGE"}, d : {"t"}, match : {{"x"}}, v : {"y"}]

\* Enough commands on a second table for its rows and its entry to matter.
SecondTable == Plain({"CREATE"}, {"u"}) \cup Adds({"u"}, {"x"}, {TRUE})

\* CREATE of the names that are improper.
Improper == Plain({"CREATE"}, Unmakeable \cup Undumpable)

SingleCommand == FirstTable \cup SecondTable \cup Improper

\* Two workers on the list and on the rows of one table.
RaceCommand ==
    Plain({"CREATE", "DELETE"}, {"t"}) \cup Plain({"CREATE"}, {"u"})
    \cup Adds({"t"}, {"x"}, {TRUE}) \cup Gets({"t"}, {{"x"}}, {TRUE})
    \cup [op : {"REMOVE"}, d : {"t"}, match : {{"x"}}] \cup Improper

UniqueCommand == Plain({"CREATE"}, {"t"}) \cup Adds({"t"}, {"x"}, {TRUE})

InsertCommand == Plain({"CREATE"}, {"t"}) \cup Adds({"t"}, {"x", "y"}, {FALSE})
=============================================================================
