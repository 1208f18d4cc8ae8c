---------------------------- MODULE QueryBuilder ----------------------------
(***************************************************************************)
(* How a client builds the text of a command: the fluent QueryBuilder of   *)
(* connectors/php/src/RoktClient.php, whose methods append words to a      *)
(* command in the order they are called, and a client that joins           *)
(* conditions by hand.  The text arrives whole or, since the server takes  *)
(* what one read brings, cut at any byte: its last word may be a beginning *)
(* of the word the client wrote.                                           *)
(*                                                                         *)
(* A text is a sequence of words; a value is its rank in Text, a limit its *)
(* number.  The semicolon at the end, which the parsers trim, is left out. *)
(***************************************************************************)
EXTENDS Integers, Sequences

CONSTANTS
    Beginning,     \* <<word, w>>: w is what one cut leaves of the word
    SelectArg,     \* fields given to select()
    TableArg,      \* tables given to from()
    WhereArg,      \* <<field, operator, value>> given to where()
    WriteArg,      \* the same, of a client that writes its own text
    GroupArg,      \* fields given to groupBy()
    OrderArg,      \* <<field, order>> given to orderBy(), "" for no order
    LimitArg,      \* numbers given to limit()
    SetArg,        \* <<field, value>> given to set()
    ValueArg,      \* values given to value()
    CountArg,      \* <<field, value>> given to count()
    MaxCalls,      \* bound: calls of one chain
    MaxRepeatCalls,\* bound: calls of a chain before a clause is repeated
    MaxCutCalls    \* bound: calls of a chain whose text may arrive cut

ASSUME BuilderAssumption ==
    /\ LimitArg \subseteq Int /\ {MaxCalls, MaxRepeatCalls, MaxCutCalls} \subseteq Nat
    /\ \A a \in OrderArg : a[2] \in {"", "ASC", "DESC"}
W(word) == [word |-> word]
V(value) == [value |-> value]

\* No client calls a field or a table as a word of the language, or as a word that
\* begins with one; a word is never the beginning of another but for OR and AS.
ASSUME NameAssumption ==
    LET Keyword == {"GET", "COUNT", "WHERE", "GROUP", "ORDER", "LIMIT"} IN
    /\ (SelectArg \cup GroupArg) \cap Keyword = {}
    /\ TableArg \cap (Keyword \cup {"IN", "="}) = {}
    /\ \A b \in Beginning, word \in Keyword : b[2] # W(word)
    /\ \A a \in WhereArg \cup WriteArg : a[1] \notin Keyword /\ a[2] \notin Keyword
    /\ \A a \in OrderArg : a[1] \notin Keyword
    /\ \A a \in SetArg : a[1] \notin Keyword

VARIABLES
    calls,     \* the calls made so far
    command,   \* QueryBuilder::command
    text       \* what has reached the server

builderVars == <<calls, command, text>>

BuilderInit == calls = <<>> /\ command = <<>> /\ text = <<>>

Called(name) == \E j \in DOMAIN calls : calls[j].call = name
StartedBy(name) == calls # <<>> /\ calls[1].call = name

Says(word) == \E j \in DOMAIN command : command[j] = W(word)

\* One call of the chain: its words go to the end of the command.
Say(call, words) ==
    /\ text = <<>> /\ Len(calls) < MaxCalls
    /\ calls' = Append(calls, call)
    /\ command' = command \o words
    /\ UNCHANGED text

Select == \E f \in SelectArg :
    calls = <<>> /\ Say([call |-> "select", fields |-> f], <<W("GET"), W(f)>>)
Change == calls = <<>> /\ Say([call |-> "change"], <<W("CHANGE")>>)
Remove == calls = <<>> /\ Say([call |-> "remove"], <<W("REMOVE")>>)

From == \E t \in TableArg :
    /\ calls # <<>> /\ ~Called("from")
    /\ Say([call |-> "from", table |-> t], <<W("IN"), W(t)>>)
As == /\ StartedBy("select") /\ ~Called("as")
      /\ Say([call |-> "as"], <<W("AS"), W("alias")>>)

\* A clause: those of a GET come behind from(), else it is refused.
MayAdd(name) ==
    /\ StartedBy("select") => Called("from")
    /\ Called(name) => Len(calls) <= MaxRepeatCalls

SayWhere(word, a) ==
    Say([call |-> "where", word |-> word, field |-> a[1], op |-> a[2], value |-> a[3]],
        <<W(word), W(a[1]), W(a[2]), V(a[3])>>)

\* The first call says WHERE, the later ones AND, wherever they come.
Where == \E a \in WhereArg :
    /\ calls # <<>> /\ MayAdd("where")
    /\ SayWhere(IF Says("WHERE") THEN "AND" ELSE "WHERE", a)

\* A client that writes its own text may say OR, or WHERE twice.
WriteWhere == \E a \in WriteArg, word \in {"OR", "WHERE"} :
    Says("WHERE") /\ MayAdd("where") /\ SayWhere(word, a)

GroupBy == \E f \in GroupArg :
    /\ StartedBy("select") /\ MayAdd("groupBy")
    /\ Say([call |-> "groupBy", field |-> f], <<W("GROUP"), W("BY"), W(f)>>)
OrderBy == \E a \in OrderArg :
    /\ StartedBy("select") /\ MayAdd("orderBy")
    /\ Say([call |-> "orderBy", field |-> a[1], order |-> a[2]],
           <<W("ORDER"), W("BY"), W(a[1])>> \o IF a[2] = "" THEN <<>> ELSE <<W(a[2])>>)
Limit == \E n \in LimitArg :
    /\ StartedBy("select") /\ MayAdd("limit")
    /\ Say([call |-> "limit", limit |-> n], <<W("LIMIT"), [limit |-> n]>>)

Set == \E a \in SetArg :
    /\ StartedBy("change") /\ ~Called("set")
    /\ Say([call |-> "set", field |-> a[1], value |-> a[2]],
           <<W(a[1]), W("="), V(a[2])>>)
Value == \E t \in ValueArg :
    /\ StartedBy("remove") /\ ~Called("value")
    /\ Say([call |-> "value", value |-> t], <<V(t)>>)

\* count() takes its table, and a key and a value joined by a colon.
Count == \E a \in CountArg, t \in TableArg :
    calls = <<>> /\ Say([call |-> "count"],
                        <<W("COUNT"), W(t), [field |-> a[1], value |-> a[2]]>>)

Beginnings(word) == {b[2] : b \in {b \in Beginning : b[1] = word}}

\* get() sends the command; one read of the server may bring its first bytes only.
Get ==
    /\ text = <<>> /\ calls # <<>>
    /\ \E n \in 1..Len(command) : \E w \in {command[n]} \cup Beginnings(command[n]) :
          /\ Len(calls) > MaxCutCalls => n = Len(command) /\ w = command[n]
          /\ text' = Append(SubSeq(command, 1, n - 1), w)
    /\ UNCHANGED <<calls, command>>

BuilderNext ==
    \/ Select \/ Change \/ Remove \/ From \/ As \/ Where \/ WriteWhere \/ GroupBy
    \/ OrderBy \/ Limit \/ Set \/ Value \/ Count \/ Get

-----------------------------------------------------------------------------
BuilderTypeOK ==
    /\ Len(calls) <= MaxCalls
    /\ \A j \in DOMAIN calls : "call" \in DOMAIN calls[j]
    /\ Len(text) <= Len(command)
    /\ \A p \in DOMAIN text :
          \/ text[p] = command[p]
          \/ p = Len(text) /\ text[p] \in Beginnings(command[p])
=============================================================================
