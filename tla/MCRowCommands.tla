--------------------------- MODULE MCRowCommands ----------------------------
(***************************************************************************)
(* Instance of RowCommands for TLC.  The texts, in string order, are "",   *)
(* "10", "9", the dump of an array, "b", "bob", "eve", "null" and          *)
(* "undefined".  "age" is a plain field, which may arrive as "ag", and     *)
(* "d.age" a nested one; "(d.age)" stands for the field of a row that is   *)
(* called d.age itself, as CHANGE makes it.  Two tables mix numbers, a     *)
(* string that is a number, an array, null and missing fields; the third   *)
(* is empty.                                                               *)
(***************************************************************************)
EXTENDS RowCommands, TLC

Missing == [kind |-> "absent", null |-> FALSE]
Null == [kind |-> "absent", null |-> TRUE]
Number(n, t) == [kind |-> "number", val |-> n, text |-> t]
String(t) == [kind |-> "string", text |-> t]
Array(S, t) == [kind |-> "array", elems |-> S, text |-> t]

Row(name, age, nested, dotted) ==
    [f \in Field |-> CASE f = "name" -> name [] f = "age" -> age [] f = "d.age" -> nested
                       [] f = "(d.age)" -> dotted [] OTHER -> Missing]

MCText == 0..8
MCNumberOf == (1 :> 10) @@ (2 :> 9)
MCLiteral == [f \in Field |-> IF f = "d.age" THEN "(d.age)" ELSE f]
MCRowValue == {Missing, Null, Number(10, 1), Number(9, 2), String(2), String(5),
               String(6), String(8), Array({5}, 3)}
MCTable == {
    <<>>,
    <<Row(String(5), Number(10, 1), Null, Missing),
      Row(String(6), Number(9, 2), Number(9, 2), String(2)),
      Row(Missing, String(2), Number(10, 1), Null),
      Row(Null, Missing, Missing, Missing)>>,
    <<Row(Array({5}, 3), String(8), String(5), Number(9, 2)),
      Row(String(5), Missing, Number(9, 2), Missing),
      Row(String(5), Number(9, 2), String(2), String(5))>>}
MCClause == {<<[field |-> "name", op |-> "==", value |-> 1, logic |-> ""]>>}

\* What may be left of a word: some beginning of each kind of word.
MCCount(f, t) == [field |-> f, value |-> t]
MCBeginning ==
    {<<W(b[1]), W(b[2])>> : b \in {<<"ASC", "AS">>, <<"ORDER", "OR">>, <<"WHERE", "WH">>,
        <<"AND", "AN">>, <<"REMOVE", "REM">>, <<"users", "user">>, <<"age", "ag">>}}
    \cup {<<V(5), V(4)>>} \cup {<<[limit |-> 12], [limit |-> 1]>>}
    \cup {<<MCCount("age", 2), MCCount("age", 0)>>, <<MCCount("name", 5), MCCount("name", 4)>>,
          <<MCCount("age", 2), W("ag")>>}

MCWhereArg == {<<"age", "IS", 2>>, <<"name", "NOT", 5>>}
MCWriteArg == {<<"name", "HAS", 5>>, <<"age", ">", 2>>}
MCOrderArg == {<<"age", "">>, <<"d.age", "DESC">>, <<"age", "ASC">>}
MCSetArg == {<<"age", 2>>, <<"d.age", 1>>}
MCCountArg == {<<f, t>> : f \in {"name", "age", "d.age"}, t \in {2, 5, 7}}
=============================================================================
