---------------------------- MODULE MCConditions ----------------------------
(***************************************************************************)
(* Instance of Conditions for TLC: two fields; the texts "1", "5",         *)
(* ["bob"], "bob" and "nan", in this order.  A field of a row holds        *)
(* nothing, the number 1 or 5, "bob" or ["bob"]; clauses have one, two or  *)
(* three conditions.                                                       *)
(***************************************************************************)
EXTENDS Conditions, TLC

Absent == [kind |-> "absent"]
Number(n, t) == [kind |-> "number", val |-> n, text |-> t]
String(t) == [kind |-> "string", text |-> t]
Array(S, t) == [kind |-> "array", elems |-> S, text |-> t]

MCText == 1..5
MCNumberOf == (1 :> 1) @@ (2 :> 5) @@ (5 :> NaN)
MCRowValue == {Absent, Number(1, 1), Number(5, 2), String(4), Array({4}, 3)}

Condition(fields, ops, logic) ==
    [field : fields, op : ops, value : MCText, logic : logic]
First == Condition(Field, {"==", "!=", "HAS"}, {""})
Others == Condition(Field, {"!=", "HAS"}, {"AND", "OR", ""})
MCClause == {<<a>> : a \in First} \cup {<<a, b>> : a \in First, b \in Others}
            \cup {<<a, b, c>> : a \in Condition({"name"}, {"=="}, {""}),
                                b \in Condition({"age"}, {"!="}, {"AND", "OR"}),
                                c \in Condition({"name"}, {"HAS", "=="}, {"AND", "OR"})}
=============================================================================
