----------------------------- MODULE Conditions -----------------------------
(***************************************************************************)
(* How a WHERE clause decides about one row: evaluateConditions of         *)
(* src/app/lib/ConditionUtils.h, which GET, REMOVE and CHANGE call for     *)
(* every row with a bool of theirs that is not initialised.                *)
(*                                                                         *)
(* Texts are numbered in string order.  A text may also begin with a       *)
(* number (what std::stod reads), NaN included.  A field, nested or not,   *)
(* that is missing or null is "absent".  The parsers let only ==, != and   *)
(* HAS through; evaluateCondition knows the order as well.                 *)
(***************************************************************************)
EXTENDS Integers, Sequences

CONSTANTS
    Field,         \* the fields conditions look at
    Text,          \* values of conditions and strings of rows, by rank
    NumberOf,      \* NumberOf[t]: the number text t begins with, if it does
    NaN,           \* not a number
    RowValue,      \* what a field of a row may hold
    Clause,        \* the sequences of conditions the parsers may produce
    Garbage        \* the value of an uninitialised bool

Order == {"==", "!=", "<", "<=", ">", ">="}

ASSUME TextAssumption ==
    /\ Text \subseteq Int /\ NaN \notin Int
    /\ DOMAIN NumberOf \subseteq Text
    /\ \A t \in DOMAIN NumberOf : NumberOf[t] \in Int \cup {NaN}
\* Values of one kind differ exactly when their dumps do, and std::stod reads
\* back the number from its dump.
ASSUME ValueAssumption ==
    \A v \in RowValue :
        /\ v.kind \in {"absent", "string", "number", "array"}
        /\ v.kind # "absent" => v.text \in Text
        /\ v.kind = "number" =>
              /\ v.text \in DOMAIN NumberOf
              /\ v.val = NumberOf[v.text] /\ v.val \in Int
        /\ \A w \in RowValue :
              (v.kind # "absent" /\ v.kind = w.kind /\ v.text = w.text) => v = w
ASSUME ClauseAssumption ==
    \A conds \in Clause :
        /\ conds \in Seq([field : Field, op : {"==", "!=", "HAS"}, value : Text,
                          logic : {"", "AND", "OR"}])
        /\ conds # <<>> /\ conds[1].logic = ""

VARIABLES
    item,      \* the row
    conds,     \* the conditions
    i,         \* how many of them are evaluated
    result,    \* *result
    refused    \* evaluateConditions has returned false

vars == <<item, conds, i, result, refused>>

-----------------------------------------------------------------------------
NotEvaluable == [ok |-> FALSE]
Evaluated(b) == [ok |-> TRUE, res |-> b]

\* With NaN on one side only != is true.
Compare(op, a, b) ==
    IF op \in {"==", "!="} THEN (op = "==") <=> (a = b)
    ELSE /\ NaN \notin {a, b}
         /\ op = "<"  => a < b
         /\ op = "<=" => a <= b
         /\ op = ">"  => a > b
         /\ op = ">=" => a >= b

\* Variant: a missing field is compared as the text null.
evaluateConditionNull(row, cond) ==
    LET v == row[cond.field] IN
    CASE v.kind = "number" /\ cond.value \in DOMAIN NumberOf ->
            IF cond.op \in Order
            THEN Evaluated(Compare(cond.op, v.val, NumberOf[cond.value]))
            ELSE NotEvaluable
      [] OTHER -> IF cond.op = "HAS"
                  THEN Evaluated(v.kind = "array" /\ cond.value \in v.elems)
                  ELSE Evaluated(v.kind # "absent" => Compare(cond.op, v.text, cond.value))

\* Numbers when both sides are numbers, HAS on arrays, texts otherwise: v.text
\* is the string, or the dump of what is not a string.
evaluateCondition(row, cond) ==
    LET v == row[cond.field] IN
    CASE v.kind = "absent" -> NotEvaluable
      [] v.kind = "number" /\ cond.value \in DOMAIN NumberOf ->
            IF cond.op \in Order
            THEN Evaluated(Compare(cond.op, v.val, NumberOf[cond.value]))
            ELSE NotEvaluable
      [] OTHER -> IF cond.op = "HAS"
                  THEN Evaluated(v.kind = "array" /\ cond.value \in v.elems)
                  ELSE Evaluated(Compare(cond.op, v.text, cond.value))

-----------------------------------------------------------------------------
Init ==
    /\ item \in [Field -> RowValue] /\ conds \in Clause
    /\ i = 0 /\ result = Garbage /\ refused = FALSE

\* Variant: the return value is not stored.
FirstConditionKept ==
    /\ i = 0
    /\ LET e == evaluateCondition(item, conds[1]) IN
          result' = IF e.ok THEN e.res ELSE result
    /\ i' = 1
    /\ UNCHANGED <<item, conds, refused>>

\* The comparison is stored through the pointer, and then overwritten by
\* whether it could be made.
FirstCondition ==
    /\ i = 0
    /\ result' = evaluateCondition(item, conds[1]).ok
    /\ i' = 1
    /\ UNCHANGED <<item, conds, refused>>

\* Variant: evaluateCondition clears *result first.
ReplacedCleared(c) ==
    LET e == evaluateCondition(item, c) IN IF e.ok THEN e.res ELSE FALSE

\* The comparison, when it can be made, replaces the result so far.
Replaced(c) ==
    LET e == evaluateCondition(item, c) IN IF e.ok THEN e.res ELSE result

\* Variant: AND and OR are swapped.
NextConditionSwapped ==
    /\ i \in 1..(Len(conds) - 1) /\ ~refused
    /\ LET c == conds[i + 1]
           ok == evaluateCondition(item, c).ok IN
       /\ result' = CASE c.logic = "AND" -> Replaced(c) \/ ok
                      [] c.logic = "OR"  -> Replaced(c) /\ ok
                      [] c.logic = ""    -> Replaced(c)
       /\ refused' = (c.logic = "")
    /\ i' = i + 1
    /\ UNCHANGED <<item, conds>>

\* AND and OR combine it with whether the comparison could be made.  A second
\* WHERE of a GET adds a condition with neither, which is refused here.
NextCondition ==
    /\ i \in 1..(Len(conds) - 1) /\ ~refused
    /\ LET c == conds[i + 1]
           ok == evaluateCondition(item, c).ok IN
       /\ result' = CASE c.logic = "AND" -> Replaced(c) /\ ok
                      [] c.logic = "OR"  -> Replaced(c) \/ ok
                      [] c.logic = ""    -> Replaced(c)
       /\ refused' = (c.logic = "")
    /\ i' = i + 1
    /\ UNCHANGED <<item, conds>>

Next == FirstCondition \/ NextCondition

Spec == Init /\ [][Next]_vars

-----------------------------------------------------------------------------
(* What must hold.                                                         *)

Done == i = Len(conds) /\ ~refused
Selected == Done /\ result

\* The condition is true of the row: it can be evaluated and the comparison is.
IsTrue(cond) == evaluateCondition(item, cond) = Evaluated(TRUE)

\* A condition has its say in the result when it is joined by AND or can be
\* evaluated: OR with one that cannot be evaluated changes nothing.
Decides(row, c) == c.logic = "AND" \/ evaluateCondition(row, c).ok

\* What the first n conditions say of a row, without the order of evaluation:
\* the last of them that decides does so alone.  One that AND joins must be true;
\* the first one, and one that OR joins, need only be comparable.
Verdict(row, cs, n) ==
    \E j \in 1..n :
        /\ Decides(row, cs[j])
        /\ \A m \in (j + 1)..n : ~Decides(row, cs[m])
        /\ cs[j].logic = "AND" => evaluateCondition(row, cs[j]) = Evaluated(TRUE)

\* The callers' bool is never read before it is written: a condition that cannot
\* be evaluated leaves it alone, yet the result is always TRUE or FALSE.
TypeOK ==
    /\ i \in 0..Len(conds) /\ refused \in BOOLEAN
    /\ i > 0 => result \in BOOLEAN

\* A row with none of the fields that a WHERE clause names is never selected,
\* whatever the operators and whatever AND and OR join them: REMOVE and CHANGE
\* leave it alone.
AbsentFieldsSelectNothing ==
    Selected => \E k \in DOMAIN conds : item[conds[k].field].kind # "absent"

\* A conjunction selects only rows for which its last condition is true.
ConjunctionEndsTrue ==
    (Selected /\ Len(conds) > 1 /\ conds[Len(conds)].logic = "AND")
        => IsTrue(conds[Len(conds)])

\* The pointer that evaluateCondition and evaluateConditions both write through
\* carries nothing over from one condition to the next but the verdict.
DecidedByTheLast ==
    (i > 0 /\ ~refused) => (result = Verdict(item, conds, i))

\* A row that is selected by conditions which AND joins meets every one of them.
\* REMOVE v IN t has a single one: the field "name" is v.
ConditionsAreMet ==
    (Selected /\ \A k \in 2..Len(conds) : conds[k].logic = "AND")
        => \A k \in DOMAIN conds : IsTrue(conds[k])
=============================================================================
