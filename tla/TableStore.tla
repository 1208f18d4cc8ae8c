----------------------------- MODULE TableStore -----------------------------
(***************************************************************************)
(* What the commands of ROKT promise about the tables when they run one    *)
(* after the other: a map from table names to sequences of rows, on which  *)
(* each command acts in one step and gets one reply.  A row is reduced to  *)
(* the value of the field the commands look at.                            *)
(*                                                                         *)
(* RoktStore, the model of the files behind the tables, is checked to      *)
(* implement this specification when a single worker runs the commands.    *)
(***************************************************************************)
EXTENDS Sequences, SequencesExt, Selection

CONSTANTS
    Command      \* the commands the clients send

VARIABLES
    tables,      \* tables[d]: the rows of table d, for each table there is
    answer       \* the last command, its reply code and the rows it returned

vars == <<tables, answer>>

Init ==
    /\ tables = [d \in {} |-> <<>>]
    /\ answer = <<>>

Exists(d) == d \in DOMAIN tables

Reply(c, code, result) == answer' = <<c, code, result>>

\* CREATE TABLE: 0 and an empty table, 10 when it exists.
Create(c) ==
    /\ c.op = "CREATE"
    /\ \/ /\ ~Exists(c.d)
          /\ tables' = [d \in DOMAIN tables \cup {c.d} |-> IF d = c.d THEN <<>> ELSE tables[d]]
          /\ Reply(c, 0, <<>>)
       \/ Exists(c.d) /\ UNCHANGED tables /\ Reply(c, 10, <<>>)

\* DELETE: 0 and no table any more, 567 when there was none.
Delete(c) ==
    /\ c.op = "DELETE"
    /\ \/ /\ Exists(c.d)
          /\ tables' = Restrict(tables, DOMAIN tables \ {c.d})
          /\ Reply(c, 0, <<>>)
       \/ ~Exists(c.d) /\ UNCHANGED tables /\ Reply(c, 567, <<>>)

\* Every other command on a missing table: 1.
Missing(c) ==
    /\ c.op \notin {"CREATE", "DELETE"} /\ ~Exists(c.d)
    /\ UNCHANGED tables /\ Reply(c, 1, <<>>)

\* ADD: 2 and one more row, 10 when the field is UNIQUE and the value there.
Add(c) ==
    LET old == tables[c.d] IN
    /\ c.op = "ADD" /\ Exists(c.d)
    /\ IF c.unique /\ Contains(old, c.v)
       THEN UNCHANGED tables /\ Reply(c, 10, <<>>)
       ELSE tables' = [tables EXCEPT ![c.d] = Append(old, c.v)] /\ Reply(c, 2, <<>>)

\* The rows a condition selects, and the others, in order.
Matching(r, c) == Among(r, c.match)
NotMatching(r, c) == Among(r, Range(r) \ c.match)

\* GET returns the rows that match, 3 when its conditions are malformed and
\* there is a row; COUNT returns their number, 423 when its condition is
\* malformed; neither changes anything.
Get(c) ==
    /\ c.op = "GET" /\ Exists(c.d)
    /\ UNCHANGED tables
    /\ IF c.valid \/ tables[c.d] = <<>> THEN Reply(c, 0, Matching(tables[c.d], c))
                                        ELSE Reply(c, 3, <<>>)

Count(c) ==
    /\ c.op = "COUNT" /\ Exists(c.d)
    /\ UNCHANGED tables
    /\ IF c.valid THEN Reply(c, 0, <<Len(Matching(tables[c.d], c))>>)
                  ELSE Reply(c, 423, <<>>)

Empty(c) ==
    /\ c.op = "EMPTY" /\ Exists(c.d)
    /\ tables' = [tables EXCEPT ![c.d] = <<>>] /\ Reply(c, 0, <<>>)

\* REMOVE keeps, in order, the rows that do not match.
RemoveRows(c) ==
    /\ c.op = "REMOVE" /\ Exists(c.d)
    /\ tables' = [tables EXCEPT ![c.d] = NotMatching(@, c)]
    /\ Reply(c, 0, <<>>)

\* CHANGE sets the field of the rows that match.
Change(c) ==
    LET old == tables[c.d] IN
    /\ c.op = "CHANGE" /\ Exists(c.d)
    /\ tables' = [tables EXCEPT ![c.d] =
                    [i \in DOMAIN old |-> IF old[i] \in c.match THEN c.v ELSE old[i]]]
    /\ Reply(c, 0, <<>>)

Do(c) ==
    Create(c) \/ Delete(c) \/ Missing(c) \/ Add(c) \/ Get(c) \/ Count(c)
    \/ Empty(c) \/ RemoveRows(c) \/ Change(c)

Next == \E c \in Command : Do(c)

Spec == Init /\ [][Next]_vars
=============================================================================
