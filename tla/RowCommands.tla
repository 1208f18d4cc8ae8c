---------------------------- MODULE RowCommands -----------------------------
(***************************************************************************)
(* A GET, REMOVE, CHANGE or COUNT from its text to its answer: the parsers *)
(* of src/app/handlers, the loop over the rows of the table with           *)
(* evaluateConditions (module Conditions), and the stages of GET, one      *)
(* action each, in the order of the code.  The text comes from             *)
(* QueryBuilder.                                                           *)
(*                                                                         *)
(* A table is a sequence of rows, and an answer the positions of its rows. *)
(* A field that is absent may be missing or null.  The dump of a string    *)
(* begins with a quote, before the dump of a number, before that of an     *)
(* array; dumps of one kind are in the order of their texts.               *)
(***************************************************************************)
EXTENDS Conditions, QueryBuilder, Selection, FiniteSets

CONSTANTS
    Nested,        \* the fields whose name has a point, found inside an object
    Literal,       \* field -> the field of the row that is called so, letter by letter
    Table,         \* what the table may hold
    Undefined,     \* the text undefined
    NullText       \* the text null

ASSUME RowAssumption ==
    /\ Nested \subseteq Field /\ {Undefined, NullText} \subseteq Text
    /\ Literal \in [Field -> Field] /\ \A f \in Field \ Nested : Literal[f] = f
    /\ GroupArg \subseteq Field
    /\ \A a \in OrderArg : a[1] \in Field
    /\ \A a \in CountArg : a[1] \in Field
    /\ \A b \in Beginning :
          /\ "limit" \in DOMAIN b[2] => b[2].limit \in Int
          /\ "field" \in DOMAIN b[2] => b[2].field \in Field
          /\ "word" \in DOMAIN b[1] =>
                "word" \in DOMAIN b[2] /\ (b[1].word \in Field => b[2].word \in Field)
    /\ \A rows \in Table : rows \in Seq([Field -> RowValue])

VARIABLES
    place,     \* where the handler is
    pos,       \* the next word of the text
    params,    \* GetParams, RemoveParams or ChangeParams, without the conditions
    table,     \* the rows the handler has read
    k,         \* the row of the loop
    rows,      \* the rows selected so far, then the array of the answer
    groups,    \* GROUP BY: dump of the key -> rows; NoGroups without
    ignored,   \* ignoredCount
    stored,    \* the rows in the table
    reply      \* the answer; NoReply before

parserVars == <<place, pos, params>>
rowVars == <<table, k, rows>>
answerVars == <<groups, ignored, stored, reply>>
commandVars == <<vars, builderVars, parserVars, rowVars, answerVars>>

NoReply == [code |-> -1]
NoGroups == <<>>
NoRow == [f \in Field |-> [kind |-> "absent", null |-> FALSE]]
NoParams == [kind |-> "", fields |-> "*", alias |-> FALSE, group |-> "", order |-> "",
             desc |-> FALSE, limit |-> -1, field |-> "", value |-> 0]

CommandInit ==
    /\ BuilderInit
    /\ item = NoRow /\ conds = <<>> /\ i = 0 /\ result = Garbage /\ refused = FALSE
    /\ place = "head" /\ pos = 1 /\ params = NoParams
    /\ table = <<>> /\ k = 1 /\ rows = <<>>
    /\ groups = NoGroups /\ ignored = 0 /\ stored = <<>> /\ reply = NoReply

-----------------------------------------------------------------------------
(* The parsers.                                                            *)

WordAt(p, word) == p <= Len(text) /\ text[p] = W(word)

Operator == [op \in {"IS", "NOT", "==", "!=", "HAS"} |->
                CASE op = "IS" -> "==" [] op = "NOT" -> "!=" [] OTHER -> op]

\* The word at p is followed by a field, an operator and a value.
ConditionAt(p) == p + 3 <= Len(text) /\ text[p + 2].word \in DOMAIN Operator
ConditionFrom(p, logic) ==
    [field |-> text[p + 1].word, op |-> Operator[text[p + 2].word],
     value |-> text[p + 3].value, logic |-> logic]

\* IN and the name of the table are at p.
TableAt(p) == WordAt(p, "IN") /\ p + 1 <= Len(text)

Parse(newPlace, newPos, newParams, newConds) ==
    /\ place' = newPlace /\ pos' = newPos /\ params' = newParams /\ conds' = newConds
    /\ UNCHANGED <<item, i, result, refused, builderVars, rowVars, answerVars>>

\* GET fields [AS alias] IN table
GetHead ==
    /\ place = "head" /\ WordAt(1, "GET")
    /\ LET in == IF WordAt(3, "AS") THEN 5 ELSE 3 IN
       /\ TableAt(in)
       /\ Parse("clauses", in + 2,
                [NoParams EXCEPT !.kind = "GET", !.fields = text[2].word,
                                 !.alias = in = 5], <<>>)

\* REMOVE value IN table
RemoveValue ==
    /\ place = "head" /\ WordAt(1, "REMOVE")
    /\ Len(text) >= 2 /\ text[2] # W("WHERE") /\ TableAt(3)
    /\ Parse("load", 5, [NoParams EXCEPT !.kind = "REMOVE"],
             <<[field |-> "name", op |-> "==", value |-> text[2].value, logic |-> ""]>>)

\* REMOVE WHERE condition
RemoveWhere ==
    /\ place = "head" /\ WordAt(1, "REMOVE")
    /\ WordAt(2, "WHERE") /\ ConditionAt(2)
    /\ Parse("where", 6, [NoParams EXCEPT !.kind = "REMOVE"], <<ConditionFrom(2, "")>>)

\* CHANGE field = value
Assignment ==
    [NoParams EXCEPT !.kind = "CHANGE", !.field = text[2].word, !.value = text[4].value]

\* CHANGE field = value IN table: what follows is not looked at.
ChangeAll ==
    /\ place = "head" /\ WordAt(1, "CHANGE") /\ WordAt(3, "=") /\ TableAt(5)
    /\ Parse("load", 7, Assignment, <<>>)

ChangeWhere ==
    /\ place = "head" /\ WordAt(1, "CHANGE") /\ WordAt(3, "=")
    /\ WordAt(5, "WHERE") /\ ConditionAt(5)
    /\ Parse("where", 9, Assignment, <<ConditionFrom(5, "")>>)

CountHead ==
    /\ place = "head" /\ WordAt(1, "COUNT") /\ Len(text) >= 2
    /\ Parse("load", Len(text) + 1, [NoParams EXCEPT !.kind = "COUNT"], <<>>)

\* A WHERE of GET: its first condition has no logic, even when it is not the
\* first of the command.
WhereClause ==
    /\ place = "clauses" /\ WordAt(pos, "WHERE") /\ ConditionAt(pos)
    /\ Parse("where", pos + 4, params, Append(conds, ConditionFrom(pos, "")))

\* Variant: AND and OR are not stored.
MoreConditionPlain ==
    /\ place = "where"
    /\ \E logic \in {"AND", "OR"} :
          /\ WordAt(pos, logic) /\ ConditionAt(pos)
          /\ Parse("where", pos + 4, params, Append(conds, ConditionFrom(pos, "")))

MoreCondition ==
    /\ place = "where"
    /\ \E logic \in {"AND", "OR"} :
          /\ WordAt(pos, logic) /\ ConditionAt(pos)
          /\ Parse("where", pos + 4, params, Append(conds, ConditionFrom(pos, logic)))

NoMoreConditions ==
    place = "where" /\ ~WordAt(pos, "AND") /\ ~WordAt(pos, "OR")

\* Variant: the word that ends the conditions is read again.
EndGetConditionsKept ==
    /\ NoMoreConditions /\ params.kind = "GET"
    /\ Parse("clauses", pos, params, conds)

\* GET has taken the word that is neither AND nor OR, and goes on behind it.
EndGetConditions ==
    /\ NoMoreConditions /\ params.kind = "GET"
    /\ Parse("clauses", pos + 1, params, conds)

\* Variant: words before IN are passed over.
EndConditionsLoose ==
    /\ NoMoreConditions /\ params.kind # "GET"
    /\ \E p \in pos..Len(text) : TableAt(p)
    /\ Parse("load", Len(text) + 1, params, conds)

\* The table of a REMOVE or CHANGE is the last word its parser takes.
Dataset == text[pos - 1]

\* REMOVE and CHANGE want IN and the table.
EndConditions ==
    /\ NoMoreConditions /\ params.kind # "GET"
    /\ TableAt(pos)
    /\ Parse("load", pos + 2, params, conds)

KeyAt(p) == WordAt(p + 1, "BY") /\ p + 2 <= Len(text)

GroupClause ==
    /\ place = "clauses" /\ WordAt(pos, "GROUP") /\ KeyAt(pos)
    /\ Parse("clauses", pos + 3, [params EXCEPT !.group = text[pos + 2].word], conds)

\* The word behind the key is taken whatever it is.
OrderClause ==
    /\ place = "clauses" /\ WordAt(pos, "ORDER") /\ KeyAt(pos)
    /\ Parse("clauses", pos + 4,
             [params EXCEPT !.order = text[pos + 2].word,
                            !.desc = WordAt(pos + 3, "DESC") \/ (@ /\ ~WordAt(pos + 3, "ASC"))],
             conds)

LimitAt(p) == p + 1 <= Len(text) /\ "limit" \in DOMAIN text[p + 1]

LimitClause ==
    /\ place = "clauses" /\ WordAt(pos, "LIMIT") /\ LimitAt(pos)
    /\ Parse("clauses", pos + 2, [params EXCEPT !.limit = text[pos + 1].limit], conds)

SkipWord ==
    /\ place = "clauses" /\ pos <= Len(text)
    /\ text[pos] \notin {W("WHERE"), W("GROUP"), W("ORDER"), W("LIMIT")}
    /\ Parse("clauses", pos + 1, params, conds)

EndText ==
    /\ place = "clauses" /\ pos > Len(text)
    /\ Parse("load", pos, params, conds)

Answer(r) ==
    /\ reply' = r /\ place' = "end"
    /\ UNCHANGED <<vars, builderVars, pos, params, rowVars, groups, ignored, stored>>

\* The parser has returned false: some word is missing or not allowed.  A text that
\* begins with no command has no handler at all.
Malformed ==
    \/ /\ place = "head"
       /\ \/ WordAt(1, "GET") /\ ~TableAt(IF WordAt(3, "AS") THEN 5 ELSE 3)
          \/ /\ WordAt(1, "REMOVE") /\ ~(Len(text) >= 2 /\ text[2] # W("WHERE") /\ TableAt(3))
             /\ ~(WordAt(2, "WHERE") /\ ConditionAt(2))
          \/ /\ WordAt(1, "CHANGE") /\ ~(WordAt(3, "=") /\ TableAt(5))
             /\ ~(WordAt(3, "=") /\ WordAt(5, "WHERE") /\ ConditionAt(5))
          \/ WordAt(1, "COUNT") /\ Len(text) < 2
          \/ \A word \in {"GET", "REMOVE", "CHANGE", "COUNT"} : ~WordAt(1, word)
    \/ /\ place = "clauses"
       /\ \/ WordAt(pos, "WHERE") /\ ~ConditionAt(pos)
          \/ \E word \in {"GROUP", "ORDER"} : WordAt(pos, word) /\ ~KeyAt(pos)
          \/ WordAt(pos, "LIMIT") /\ ~LimitAt(pos)
    \/ /\ place = "where"
       /\ IF NoMoreConditions THEN params.kind # "GET" /\ ~TableAt(pos)
          ELSE ~ConditionAt(pos)

RefuseText == text # <<>> /\ Malformed /\ Answer([code |-> 423])

Parser ==
    \/ GetHead \/ RemoveValue \/ RemoveWhere \/ ChangeAll \/ ChangeWhere \/ CountHead
    \/ WhereClause \/ MoreCondition \/ EndGetConditions \/ EndConditions
    \/ GroupClause \/ OrderClause \/ LimitClause \/ SkipWord \/ EndText \/ RefuseText

-----------------------------------------------------------------------------
(* The loop over the rows, and what each command does with them.           *)

\* The rows of the table, one after the other.
Positions == [n \in DOMAIN table |-> n]

\* from() fails: there is no table of that name, or it cannot be read.
NoTable == place = "load" /\ Answer([code |-> 1])

\* from() and select() give the rows of the table.
Load ==
    /\ place = "load"
    /\ \E t \in Table :
          /\ table' = t /\ stored' = t
          /\ item' = IF t = <<>> THEN NoRow ELSE t[1]
    /\ place' = IF params.kind = "COUNT" THEN "count" ELSE "rows"
    /\ UNCHANGED <<conds, i, result, refused, builderVars, pos, params, k, rows,
                   groups, ignored, reply>>

\* GET without a condition takes the rows as they are; for CHANGE an empty list
\* of conditions holds of every row.
TakeAll ==
    /\ place = "rows" /\ conds = <<>>
    /\ rows' = Positions /\ k' = Len(table) + 1
    /\ place' = IF params.kind = "GET" THEN "group" ELSE "write"
    /\ UNCHANGED <<vars, builderVars, pos, params, table, answerVars>>

EvaluateRow ==
    /\ place = "rows" /\ conds # <<>> /\ k <= Len(table)
    /\ FirstCondition \/ NextCondition
    /\ UNCHANGED <<builderVars, parserVars, rowVars, answerVars>>

\* Variant: the conditions of the next row go on from the result of this one.
EndRowKept ==
    /\ place = "rows" /\ k <= Len(table) /\ i > 0 /\ Done
    /\ rows' = IF result THEN Append(rows, k) ELSE rows
    /\ k' = k + 1
    /\ item' = IF k < Len(table) THEN table[k + 1] ELSE NoRow
    /\ i' = IF result /\ Len(conds) > 1 THEN 1 ELSE 0
    /\ result' = IF i' = 1 THEN result ELSE Garbage
    /\ UNCHANGED <<conds, refused, builderVars, parserVars, table, answerVars>>

\* The next row has a bool of its own, not initialised.
EndRow ==
    /\ place = "rows" /\ k <= Len(table) /\ i > 0 /\ Done
    /\ rows' = IF result THEN Append(rows, k) ELSE rows
    /\ k' = k + 1
    /\ item' = IF k < Len(table) THEN table[k + 1] ELSE NoRow
    /\ i' = 0 /\ result' = Garbage
    /\ UNCHANGED <<conds, refused, builderVars, parserVars, table, answerVars>>

RefuseRow == place = "rows" /\ refused /\ Answer([code |-> 3])

EndRows ==
    /\ place = "rows" /\ conds # <<>> /\ k > Len(table)
    /\ place' = IF params.kind = "GET" THEN "group" ELSE "write"
    /\ UNCHANGED <<vars, builderVars, pos, params, rowVars, answerVars>>

\* Variant: a name with a point is followed into the object.
ChangedInside(row) ==
    [row EXCEPT ![params.field] = [kind |-> "string", text |-> params.value]]

\* The new value is a string, and a name with a point becomes a field of its own.
Changed(row) ==
    [row EXCEPT ![Literal[params.field]] = [kind |-> "string", text |-> params.value]]

Overwrite ==
    /\ place = "write"
    /\ LET taken == {rows[n] : n \in DOMAIN rows}
           kept == Among(Positions, DOMAIN table \ taken) IN
       stored' = IF params.kind = "REMOVE" THEN [n \in DOMAIN kept |-> table[kept[n]]]
                 ELSE [n \in DOMAIN table |-> IF n \in taken THEN Changed(table[n])
                                              ELSE table[n]]
    /\ reply' = [code |-> 0, count |-> Len(rows)] /\ place' = "end"
    /\ UNCHANGED <<vars, builderVars, pos, params, rowVars, groups, ignored>>

\* contains(): a name with a point is not followed; a null is found.
Holds(row, f) == LET v == row[Literal[f]] IN v.kind = "absent" => v.null

\* Variant: a field that is missing counts as null.
CountedNull(row, f, t) ==
    LET v == row[Literal[f]] IN IF v.kind = "absent" THEN t = NullText ELSE v.text = t

\* The string is the value, or the dump of what is not a string.
Counted(row, f, t) ==
    /\ Holds(row, f)
    /\ LET v == row[Literal[f]] IN IF v.kind = "absent" THEN t = NullText ELSE v.text = t

\* A condition whose colon has not arrived is found out behind from().
Colon == Len(text) >= 3 => "field" \in DOMAIN text[3]
RefuseCount == place = "count" /\ ~Colon /\ Answer([code |-> 423])

CountRows ==
    /\ place = "count" /\ Colon
    /\ rows' = Among(Positions,
                     {n \in DOMAIN table : Len(text) = 2 \/ Counted(table[n], text[3].field,
                                                                   text[3].value)})
    /\ reply' = [code |-> 0, count |-> Len(rows')] /\ place' = "end"
    /\ UNCHANGED <<vars, builderVars, pos, params, table, k, groups, ignored, stored>>

-----------------------------------------------------------------------------
(* The stages of GET.                                                      *)

Dump(v) ==
    <<CASE v.kind = "string" -> 0 [] v.kind = "number" -> 1
        [] v.kind = "array" -> 2 [] v.kind = "absent" -> 3,
      IF v.kind = "absent" THEN 0 ELSE v.text>>

\* Variant: strings are not quoted.
GroupKeyUnquoted(row, f) ==
    LET v == row[f] IN
    IF v.kind = "absent" /\ ~v.null /\ f \notin Nested THEN <<0, Undefined>>
    ELSE <<IF v.kind = "absent" THEN 3 ELSE 0, Dump(v)[2]>>

\* A plain field that is missing groups as the string undefined; a nested one,
\* and a null, as null.
GroupKey(row, f) ==
    LET v == row[f] IN
    IF v.kind = "absent" /\ ~v.null /\ f \notin Nested
    THEN Dump([kind |-> "string", text |-> Undefined]) ELSE Dump(v)

GroupRows ==
    /\ place = "group" /\ place' = "order"
    /\ IF params.group = "" THEN UNCHANGED <<rows, groups>>
       ELSE LET key(n) == GroupKey(table[n], params.group) IN
            /\ groups' = [g \in {key(rows[n]) : n \in DOMAIN rows} |->
                            Among(rows, {n \in DOMAIN table : key(n) = g})]
            /\ rows' = <<>>
    /\ UNCHANGED <<vars, builderVars, pos, params, table, k, ignored, stored, reply>>

\* Variant: strings are compared without their quotes.
PrecedesUnquoted(a, b) ==
    IF a.kind = "number" /\ b.kind = "number" THEN a.val < b.val ELSE a.text < b.text

\* Numbers by value, everything else by dump.
Precedes(a, b) ==
    IF a.kind = "number" /\ b.kind = "number" THEN a.val < b.val
    ELSE LET da == Dump(a)  db == Dump(b) IN
         da[1] < db[1] \/ (da[1] = db[1] /\ da[2] < db[2])

\* The comparator of std::sort, on rows.
Before(m, n) ==
    LET a == table[m][params.order]  b == table[n][params.order] IN
    IF params.desc THEN Precedes(b, a) ELSE Precedes(a, b)

IsArray == params.group = ""
Sortable(n) == table[n][params.order].kind # "absent"

\* std::sort may leave equal rows in any order.
Sortings(s) ==
    {t \in [DOMAIN s -> {s[n] : n \in DOMAIN s}] :
        \A m, n \in DOMAIN s : m < n => t[m] # t[n] /\ ~Before(t[n], t[m])}

\* Rows without the key are dropped and counted.
OrderRows ==
    /\ place = "order" /\ place' = "limit"
    /\ IF IsArray /\ params.order # ""
       THEN LET present == Among(rows, {n \in DOMAIN table : Sortable(n)}) IN
            /\ ignored' = Len(rows) - Len(present)
            /\ rows' \in Sortings(present)
       ELSE UNCHANGED <<rows, ignored>>
    /\ UNCHANGED <<vars, builderVars, pos, params, table, k, groups, stored, reply>>

\* Variant: the rows are limited after the projection.
LimitRowsProjected ==
    /\ place = "limit" /\ place' = "project"
    /\ LET held == IF params.fields = "*" \/ ~IsArray THEN rows
                   ELSE Among(rows, {n \in DOMAIN table : Holds(table[n], params.fields)}) IN
       rows' = IF IsArray /\ params.limit > 0 /\ Len(held) > params.limit
               THEN SubSeq(held, 1, params.limit) ELSE held
    /\ UNCHANGED <<vars, builderVars, pos, params, table, k, answerVars>>

\* Variant: the last rows are kept.
LimitRowsLast ==
    /\ place = "limit" /\ place' = "project"
    /\ rows' = IF IsArray /\ params.limit > 0 /\ Len(rows) > params.limit
               THEN SubSeq(rows, Len(rows) - params.limit + 1, Len(rows)) ELSE rows
    /\ UNCHANGED <<vars, builderVars, pos, params, table, k, answerVars>>

\* A limit of 0 or less is none.
LimitRows ==
    /\ place = "limit" /\ place' = "project"
    /\ rows' = IF IsArray /\ params.limit > 0 /\ Len(rows) > params.limit
               THEN SubSeq(rows, 1, params.limit) ELSE rows
    /\ UNCHANGED <<vars, builderVars, pos, params, table, k, answerVars>>

\* After the limit, rows without the field asked for are dropped.
ProjectRows ==
    /\ place = "project" /\ place' = "answer"
    /\ rows' = IF params.fields # "*" /\ IsArray
               THEN Among(rows, {n \in DOMAIN table : Holds(table[n], params.fields)})
               ELSE rows
    /\ UNCHANGED <<vars, builderVars, pos, params, table, k, answerVars>>

\* The alias names the elements of an array; any clause wraps the answer.
AnswerRows ==
    /\ place = "answer"
    /\ Answer([code |-> 0, aliased |-> params.alias /\ IsArray,
               wrapped |-> \/ conds # <<>> \/ params.group # "" \/ params.order # ""
                           \/ params.limit # -1 \/ params.alias])

Handler ==
    \/ NoTable \/ Load \/ TakeAll \/ EvaluateRow \/ EndRow \/ RefuseRow \/ EndRows
    \/ Overwrite \/ RefuseCount \/ CountRows
    \/ GroupRows \/ OrderRows \/ LimitRows \/ ProjectRows \/ AnswerRows

Server == Parser \/ Handler

CommandNext ==
    \/ BuilderNext /\ UNCHANGED <<vars, parserVars, rowVars, answerVars>>
    \/ text # <<>> /\ Server

CommandSpec == CommandInit /\ [][CommandNext]_commandVars

-----------------------------------------------------------------------------
(* What must hold.                                                         *)

\* The handler's state; the bool of the loop is read only when it is written.
CommandTypeOK ==
    /\ place \in {"head", "clauses", "where", "load", "rows", "count", "write", "group",
                  "order", "limit", "project", "answer", "end"}
    /\ BuilderTypeOK
    /\ pos \in 1..(Len(text) + 4) /\ k \in 1..(Len(table) + 1)
    /\ i \in 0..Len(conds) /\ (i > 0 => result \in BOOLEAN)
    /\ \A n \in DOMAIN rows : rows[n] \in DOMAIN table
    /\ ignored \in 0..Len(table) /\ reply.code \in {-1, 0, 1, 3, 423}

\* The calls behind from(), what a chain means when one call is one clause.
FromAt == CHOOSE j \in DOMAIN calls : calls[j].call = "from"
Behind == SubSeq(calls, FromAt + 1, Len(calls))

\* Which of the calls s reach the parameters of a GET.  A clause is lost when it
\* comes right behind conditions, or right behind an ORDER BY without an order, that
\* are not lost themselves; AND and OR are lost when they do not continue conditions
\* that are kept; an alias is lost behind from().
Open(call) == call.call = "where" \/ (call.call = "orderBy" /\ call.order = "")
Keeps(s) ==
    LET kept[j \in DOMAIN s] ==
            CASE s[j].call = "as" -> FALSE
              [] s[j].call = "where" /\ s[j].word # "WHERE" ->
                    j > 1 /\ kept[j - 1] /\ s[j - 1].call = "where"
              [] OTHER -> j = 1 \/ ~(kept[j - 1] /\ Open(s[j - 1]))
    IN kept
Kept == Keeps(Behind)

\* The last call that Is() selects among the kept ones gives the parameter.
LastKept(Is(_), Take(_), default) ==
    LET S == {j \in DOMAIN Behind : Kept[j] /\ Is(Behind[j])} IN
    IF S = {} THEN default
    ELSE Take(Behind[CHOOSE j \in S : \A m \in S : m <= j])

ConditionsOf(s) ==
    [n \in DOMAIN s |->
        [field |-> s[n].field, op |-> Operator[s[n].op], value |-> s[n].value,
         logic |-> IF s[n].word = "WHERE" THEN "" ELSE s[n].word]]

\* What the parser makes of a GET that arrives whole: nothing but the clauses named
\* above is lost, and what is lost changes nothing else
\* (GetCommandHandler::parseCommand).
ParsedAsAsked ==
    (place = "load" /\ params.kind = "GET" /\ text = command) =>
        LET wheres == Among([j \in DOMAIN Behind |-> j],
                            {j \in DOMAIN Behind : Kept[j] /\ Behind[j].call = "where"}) IN
        /\ params.fields = calls[1].fields
        /\ params.alias = (calls[2].call = "as")
        /\ conds = ConditionsOf([n \in DOMAIN wheres |-> Behind[wheres[n]]])
        /\ params.group = LastKept(LAMBDA c : c.call = "groupBy", LAMBDA c : c.field, "")
        /\ params.order = LastKept(LAMBDA c : c.call = "orderBy", LAMBDA c : c.field, "")
        /\ params.desc = LastKept(LAMBDA c : c.call = "orderBy" /\ c.order # "",
                                 LAMBDA c : c.order = "DESC", FALSE)
        /\ params.limit = LastKept(LAMBDA c : c.call = "limit", LAMBDA c : c.limit, -1)

\* The clause that comes right behind the conditions of a WHERE is heard as well
\* ("le token ... sera traité par la suite", GetCommandHandler.h:141,146).
ClauseBehindWhereIsHeard ==
    (place = "load" /\ params.kind = "GET" /\ text = command) =>
        \A j \in DOMAIN Behind : (j > 1 /\ Behind[j - 1].call = "where") =>
            /\ Behind[j].call = "groupBy" => params.group # ""
            /\ Behind[j].call = "orderBy" => params.order # ""
            /\ Behind[j].call = "limit" => params.limit # -1

\* A REMOVE or CHANGE that is carried out, even one whose text has arrived cut, has
\* every condition its client has called before from(), and the others not at all,
\* each with its whole value, and CHANGE its whole assignment.  Only the name of the
\* table may be a beginning of the one asked for, when the cut is in it.
WritesAsAsked ==
    (place = "load" /\ params.kind \in {"REMOVE", "CHANGE"}) =>
        LET before == SubSeq(calls, 1, FromAt - 1)
            Calls(name) ==
                Among(before, {before[j] : j \in {j \in DOMAIN before : before[j].call = name}})
            values == Calls("value") IN
        /\ Called("from")
        /\ conds = [n \in DOMAIN values |->
                      [field |-> "name", op |-> "==", value |-> values[n].value,
                       logic |-> ""]] \o ConditionsOf(Calls("where"))
        /\ params.kind = "CHANGE" =>
              /\ params.field = Calls("set")[1].field
              /\ params.value = Calls("set")[1].value
        /\ \/ Dataset = W(calls[FromAt].table)
           \/ text # command /\ Dataset \in Beginnings(W(calls[FromAt].table))

\* "Can't verify condition" answers only a text that says WHERE twice; what the
\* fluent builder writes is never answered so.
RefusalNeedsTwoWheres ==
    reply.code = 3 =>
        \E m, n \in DOMAIN calls :
            /\ m < n - 1
            /\ \A j \in {m, n} : calls[j].call = "where" /\ calls[j].word = "WHERE"

Selects(n) == conds = <<>> \/ Verdict(table[n], conds, Len(conds))
Answered(n) == \E m \in DOMAIN rows : rows[m] = n

\* REMOVE takes away, and CHANGE sets the one field of, exactly the rows whose own
\* verdict says so; the other fields and the other rows stay as they were, in their
\* order, and the answer says how many rows it was.
OnlyVerdictRowsChange ==
    (place = "end" /\ reply.code = 0 /\ params.kind \in {"REMOVE", "CHANGE"}) =>
        /\ reply.count = Cardinality({n \in DOMAIN table : Selects(n)})
        /\ params.kind = "REMOVE" =>
              stored = LET kept == Among(Positions, {n \in DOMAIN table : ~Selects(n)}) IN
                       [n \in DOMAIN kept |-> table[kept[n]]]
        /\ params.kind = "CHANGE" =>
              stored = [n \in DOMAIN table |->
                           [f \in Field |->
                               IF Selects(n) /\ f = Literal[params.field]
                               THEN [kind |-> "string", text |-> params.value]
                               ELSE table[n][f]]]

\* Every row a GET selects is answered once, or one of the stages accounts for it.
\* Rows without the key of ORDER BY are ignored, and counted; a positive limit lets
\* through that many of the others, or all of them when they are no more, and no row
\* that comes behind one it leaves out; of these, and only after the limit, the rows
\* without the field asked for are left out.
RowsAccountedFor ==
    (place = "answer") =>
        LET Ignored(n) == params.order # "" /\ ~Sortable(n)
            Lacking(n) == params.fields # "*" /\ ~Holds(table[n], params.fields)
            Passing == {n \in DOMAIN table : Selects(n) /\ ~Ignored(n)}
            Comes(m, n) == IF params.order = "" THEN m < n ELSE Before(m, n) IN
        IF IsArray
        THEN /\ \A m, n \in DOMAIN rows : m # n => rows[m] # rows[n]
             /\ \E L \in SUBSET Passing :
                   /\ IF params.limit > 0 /\ Cardinality(Passing) > params.limit
                      THEN Cardinality(L) = params.limit ELSE L = Passing
                   /\ \A m \in Passing \ L, n \in L : ~Comes(m, n)
                   /\ \A n \in DOMAIN table : Answered(n) <=> n \in L /\ ~Lacking(n)
             /\ ignored = Cardinality({n \in DOMAIN table : Selects(n) /\ Ignored(n)})
        ELSE /\ ignored = 0
             /\ \A n \in DOMAIN table :
                   Cardinality({g \in DOMAIN groups :
                                   \E m \in DOMAIN groups[g] : groups[g][m] = n})
                      = (IF Selects(n) THEN 1 ELSE 0)

\* The rows of a sorted answer are in order, and a limit leaves out no row that
\* comes before one it lets through.
BestRowsFirst ==
    (place = "answer" /\ IsArray /\ params.order # "") =>
        /\ \A m, n \in DOMAIN rows : m < n => ~Before(rows[n], rows[m])
        /\ \A n \in DOMAIN table :
              (/\ Selects(n) /\ Sortable(n) /\ ~Answered(n)
               /\ params.fields # "*" => Holds(table[n], params.fields))
                 => \A m \in DOMAIN rows : ~Before(n, rows[m])

\* Two rows share a group only when the key is equal in both, or absent in both, or
\* one lacks a plain key and the other holds the text undefined.
GroupsKeepValuesApart ==
    (place = "answer" /\ ~IsArray) =>
        \A g \in DOMAIN groups : \A m, n \in DOMAIN groups[g] :
            LET Key(r) == table[groups[g][r]][params.group] IN
            \/ Key(m) = Key(n) \/ {Key(m).kind, Key(n).kind} = {"absent"}
            \/ \A r \in {m, n} :
                  \/ Key(r).kind = "absent" /\ ~Key(r).null
                  \/ Key(r).kind = "string" /\ Key(r).text = Undefined

\* What std::sort needs of a comparator that mixes numbers and dumps, on pain of
\* undefined behaviour: a strict order whose ties are an equivalence.
SortIsStrictWeak ==
    (place = "order" /\ IsArray /\ params.order # "") =>
        LET S == {n \in DOMAIN table : Sortable(n)}
            Tie(a, b) == ~Before(a, b) /\ ~Before(b, a) IN
        \A a, b, c \in S :
            /\ ~Before(a, a)
            /\ Before(a, b) /\ Before(b, c) => Before(a, c)
            /\ Tie(a, b) /\ Tie(b, c) => Tie(a, c)

\* COUNT t k:v, with a plain k, counts no row that GET with WHERE k IS v would not
\* select, except those whose k is null; and all of them when v is not a number.  (A
\* name with a point is looked for as it is by COUNT, inside an object by WHERE.)
CountAgreesWithWhere ==
    (place = "end" /\ reply.code = 0 /\ params.kind = "COUNT" /\ Len(text) = 3) =>
        LET f == text[3].field
            t == text[3].value
            Found(n) == evaluateCondition(table[n], [field |-> f, op |-> "==", value |-> t])
                            = Evaluated(TRUE)
            Null(n) == table[n][f].kind = "absent" /\ table[n][f].null IN
        \A n \in DOMAIN table : (f \notin Nested /\ ~Null(n)) =>
            /\ Answered(n) => Found(n)
            /\ (Found(n) /\ t \notin DOMAIN NumberOf) => Answered(n)
=============================================================================
