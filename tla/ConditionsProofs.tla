-------------------------- MODULE ConditionsProofs --------------------------
(***************************************************************************)
(* Proofs about Conditions, for every row, every clause and any number of  *)
(* conditions.                                                             *)
(***************************************************************************)
EXTENDS Conditions, TLAPS

\* All that the fold needs of its conditions: there is one, each is joined to those
\* before it in a known way, and the first one in none.
Logic == {"", "AND", "OR"}
JoinsNothing(c) == c.logic = ""

Foldable(cs) ==
    /\ Len(cs) \in Nat \ {0}
    /\ \A k \in 1..Len(cs) : cs[k].logic \in Logic
    /\ JoinsNothing(cs[1])

\* The conditions evaluated so far: one of them is about a present field when
\* the row is selected, and the last of them is true when AND precedes it.
SelectedSoFar ==
    (i > 0 /\ result) => \E k \in 1..i : item[conds[k].field].kind # "absent"
AndEndsTrue ==
    (i > 1 /\ result /\ conds[i].logic = "AND") => IsTrue(conds[i])

IInv ==
    Foldable(conds) /\ TypeOK /\ SelectedSoFar /\ AndEndsTrue /\ DecidedByTheLast

\* What the parsers produce is foldable.
LEMMA ClauseFacts ==
    ASSUME NEW s \in Clause
    PROVE  Foldable(s) /\ DOMAIN s = 1..Len(s)
<1> DEFINE C == [field : Field, op : {"==", "!=", "HAS"}, value : Text,
                 logic : Logic]
<1>1. s \in Seq(C) /\ s # <<>> /\ JoinsNothing(s[1])
    BY ClauseAssumption, Zenon DEF Logic, JoinsNothing
<1>2. \A c \in C : c.logic \in Logic
    OBVIOUS
<1> HIDE DEF C
<1> QED
    BY <1>1, <1>2 DEF Foldable

\* A comparison is true or false.
LEMMA CompareType ==
    ASSUME NEW op, NEW a, NEW b
    PROVE  Compare(op, a, b) \in BOOLEAN
BY DEF Compare

\* evaluateCondition says whether the comparison could be made, and if so its
\* result; a comparison is never made with an absent field.
LEMMA EvaluationFacts ==
    ASSUME NEW row, NEW cond
    PROVE  LET e == evaluateCondition(row, cond) IN
           /\ e.ok \in BOOLEAN
           /\ e.ok => /\ e.res \in BOOLEAN /\ e = Evaluated(e.res)
                      /\ row[cond.field].kind # "absent"
<1>1. NotEvaluable.ok = FALSE
    BY DEF NotEvaluable
<1>2. \A b : Evaluated(b).ok = TRUE /\ Evaluated(b).res = b
    BY DEF Evaluated
<1>3. \A op, a, b : Compare(op, a, b) \in BOOLEAN
    BY CompareType
<1> DEFINE v == row[cond.field]
           e == evaluateCondition(row, cond)
<1>5. CASE v.kind = "absent"
    <2>1. e = NotEvaluable
        BY <1>5 DEF evaluateCondition
    <2> QED
        BY <2>1, <1>1
<1>6. CASE v.kind = "number" /\ cond.value \in DOMAIN NumberOf
    <2>1. e = IF cond.op \in Order
              THEN Evaluated(Compare(cond.op, v.val, NumberOf[cond.value]))
              ELSE NotEvaluable
        BY <1>6 DEF evaluateCondition
    <2>2. CASE cond.op \in Order
        <3> DEFINE b == Compare(cond.op, v.val, NumberOf[cond.value])
        <3>1. e = Evaluated(b)
            BY <2>1, <2>2
        <3>2. b \in BOOLEAN
            BY <2>2, <1>3
        <3>3. v.kind # "absent"
            BY <1>6
        <3> HIDE DEF b, e
        <3> QED
            BY <3>1, <3>2, <3>3, <1>2 DEF e
    <2>3. CASE cond.op \notin Order
        BY <2>1, <2>3, <1>1
    <2> QED
        BY <2>2, <2>3
<1>7. CASE ~(v.kind = "absent") /\ ~(v.kind = "number" /\ cond.value \in DOMAIN NumberOf)
    <2>1. e = IF cond.op = "HAS"
              THEN Evaluated(v.kind = "array" /\ cond.value \in v.elems)
              ELSE Evaluated(Compare(cond.op, v.text, cond.value))
        BY <1>7 DEF evaluateCondition
    <2>2. CASE cond.op = "HAS"
        BY <2>1, <2>2, <1>2, <1>7, Zenon
    <2>3. CASE cond.op # "HAS"
        <3> DEFINE b == Compare(cond.op, v.text, cond.value)
        <3>1. e = Evaluated(b) /\ b \in BOOLEAN /\ v.kind # "absent"
            BY <2>1, <2>3, <1>3, <1>7
        <3> HIDE DEF b, e
        <3> QED
            BY <3>1, <1>2 DEF e
    <2> QED
        BY <2>2, <2>3
<1> QED
    BY <1>5, <1>6, <1>7

\* The verdict of one more condition: alone when it decides, as before when not.
LEMMA VerdictNext ==
    ASSUME NEW row, NEW cs, NEW n \in Nat, Decides(row, cs[n + 1]) \in BOOLEAN
    PROVE  Verdict(row, cs, n + 1) =
              IF Decides(row, cs[n + 1])
              THEN cs[n + 1].logic = "AND"
                      => evaluateCondition(row, cs[n + 1]) = Evaluated(TRUE)
              ELSE Verdict(row, cs, n)
<1> DEFINE D(j) == Decides(row, cs[j])
           T(j) == cs[j].logic = "AND"
                      => evaluateCondition(row, cs[j]) = Evaluated(TRUE)
<1>1. /\ Verdict(row, cs, n + 1) <=>
            \E j \in 1..(n + 1) : D(j) /\ (\A m \in (j + 1)..(n + 1) : ~D(m)) /\ T(j)
      /\ Verdict(row, cs, n) <=>
            \E j \in 1..n : D(j) /\ (\A m \in (j + 1)..n : ~D(m)) /\ T(j)
    BY DEF Verdict
<1>0. Verdict(row, cs, n + 1) \in BOOLEAN /\ Verdict(row, cs, n) \in BOOLEAN
    BY DEF Verdict
<1> HIDE DEF D, T
<1>2. CASE D(n + 1)
    <2>1. \A j \in 1..n : n + 1 \in (j + 1)..(n + 1)
        OBVIOUS
    <2>2. n + 1 \in 1..(n + 1) /\ (n + 2)..(n + 1) = {}
        OBVIOUS
    <2>3. Verdict(row, cs, n + 1) <=> T(n + 1)
        BY <1>1, <1>2, <2>1, <2>2
    <2> QED
        BY <1>0, <2>3, <1>2 DEF D, T
<1>3. CASE ~D(n + 1)
    <2>1. \A j \in 1..n : (\A m \in (j + 1)..(n + 1) : ~D(m))
                          <=> (\A m \in (j + 1)..n : ~D(m))
        BY <1>3
    <2>2. Verdict(row, cs, n + 1) <=> Verdict(row, cs, n)
        BY <1>1, <1>3, <2>1
    <2> QED
        BY <1>0, <2>2, <1>3 DEF D
<1> QED
    BY <1>2, <1>3

\* At the start no condition has been evaluated.
LEMMA InitIInv == Init => IInv
<1> SUFFICES ASSUME Init PROVE IInv
    OBVIOUS
<1>1. conds \in Clause /\ i = 0 /\ refused = FALSE
    BY DEF Init
<1>2. Foldable(conds) /\ Len(conds) \in Nat
    BY <1>1, ClauseFacts DEF Foldable
<1>3. refused \in BOOLEAN
    BY <1>1
<1>4. i \in 0..Len(conds) /\ ~(i > 0) /\ ~(i > 1)
    BY <1>1, <1>2
<1> QED
    BY <1>1, <1>2, <1>3, <1>4 DEF IInv, TypeOK, SelectedSoFar, AndEndsTrue, DecidedByTheLast

\* Evaluating a condition keeps the invariant.
LEMMA StepIInv == IInv /\ [Next]_vars => IInv'
<1> SUFFICES ASSUME IInv, [Next]_vars PROVE IInv'
    OBVIOUS
<1>len. /\ Len(conds) \in Nat \ {0}
        /\ \A k \in 1..Len(conds) : conds[k].logic \in Logic
        /\ JoinsNothing(conds[1]) /\ Foldable(conds)
    BY DEF IInv, Foldable
<1>1. CASE FirstCondition
    <2> DEFINE e == evaluateCondition(item, conds[1])
    <2>1. /\ i' = 1 /\ item' = item /\ conds' = conds /\ result' = e.ok
          /\ refused' = refused
        BY <1>1 DEF FirstCondition
    <2>2. /\ e.ok \in BOOLEAN
          /\ e.ok => item[conds[1].field].kind # "absent"
        BY <1>len, EvaluationFacts
    <2>5. DecidedByTheLast'
        <3>1. conds[1].logic = ""
            BY <1>len DEF JoinsNothing
        <3>0. 0 + 1 = 1 /\ 0 \in Nat
            OBVIOUS
        <3>2. Decides(item, conds[1]) = e.ok
            BY <3>1, <2>2, Zenon DEF Decides
        <3>3. Verdict(item, conds, 0) = FALSE
            BY DEF Verdict
        <3>5. Decides(item, conds[1]) \in BOOLEAN
            BY <3>2, <2>2
        <3>6. Verdict(item, conds, 1) =
                 IF Decides(item, conds[1]) THEN TRUE ELSE Verdict(item, conds, 0)
            BY <3>0, <3>1, <3>5, VerdictNext
        <3>4. Verdict(item, conds, 1) = e.ok
            BY <2>2, <3>2, <3>3, <3>6
        <3> QED
            BY <2>1, <3>4 DEF DecidedByTheLast
    <2> HIDE DEF e
    <2>3. TypeOK'
        BY <2>1, <2>2, <1>len DEF IInv, TypeOK
    <2>4. SelectedSoFar' /\ AndEndsTrue'
        BY <2>1, <2>2 DEF SelectedSoFar, AndEndsTrue
    <2> QED
        BY <2>1, <2>3, <2>4, <2>5 DEF IInv
<1>2. CASE NextCondition
    <2> DEFINE c == conds[i + 1]
               e == evaluateCondition(item, c)
               r == Replaced(c)
    <2>1. /\ i \in 1..(Len(conds) - 1) /\ i' = i + 1
          /\ item' = item /\ conds' = conds
        BY <1>2 DEF NextCondition
    <2>14. /\ result' = CASE c.logic = "AND" -> r /\ e.ok
                           [] c.logic = "OR"  -> r \/ e.ok
                           [] c.logic = ""    -> r
           /\ refused' = (c.logic = "")
        BY <1>2 DEF NextCondition
    <2>3. /\ e.ok \in BOOLEAN
          /\ e.ok => /\ e.res \in BOOLEAN /\ e = Evaluated(e.res)
                     /\ item[c.field].kind # "absent"
        BY EvaluationFacts
    <2>4. result \in BOOLEAN
        BY <2>1 DEF IInv, TypeOK
    <2>5. r \in BOOLEAN /\ (~e.ok => r = result) /\ (e.ok => r = e.res)
        BY <2>3, <2>4 DEF Replaced
    <2>12. c.logic \in {"AND", "OR", ""}
        <3>1. c.logic \in Logic
            BY <2>1, <1>len
        <3> QED
            BY <3>1, Zenon DEF Logic
    <2>6. c = conds'[i']
        BY <2>1
    <2>7. result' => e.ok \/ result
        BY <2>14, <2>3, <2>4, <2>5, <2>12
    <2>8. result' /\ c.logic = "AND" => e.ok /\ e.res = TRUE
        BY <2>14, <2>3, <2>4, <2>5
    <2>13. result' \in BOOLEAN /\ refused' \in BOOLEAN
        BY <2>14, <2>3, <2>5, <2>12
    <2>15. ~refused /\ i > 0 /\ i \in Nat
        <3>1. ~refused
            BY <1>2, Zenon DEF NextCondition
        <3> QED
            BY <3>1, <2>1, <1>len
    <2>16. result = Verdict(item, conds, i)
        BY <2>15 DEF IInv, DecidedByTheLast
    <2>17. Decides(item, c) = (c.logic = "AND" \/ e.ok)
        BY DEF Decides
    <2>18. Verdict(item, conds, i + 1) =
              IF Decides(item, c) THEN c.logic = "AND" => e = Evaluated(TRUE)
              ELSE Verdict(item, conds, i)
        BY <2>15, <2>17, VerdictNext
    <2>19. e = Evaluated(TRUE) <=> (e.ok /\ e.res = TRUE)
        <3>1. Evaluated(TRUE).ok = TRUE /\ Evaluated(TRUE).res = TRUE
            BY DEF Evaluated
        <3>2. ASSUME e = Evaluated(TRUE) PROVE e.ok /\ e.res = TRUE
            BY <3>1, <3>2, Zenon
        <3>3. ASSUME e.ok, e.res = TRUE PROVE e = Evaluated(TRUE)
            BY <2>3, <3>3, Zenon
        <3> QED
            BY <3>2, <3>3
    <2> HIDE DEF c, e, r
    <2>20. DecidedByTheLast'
        <3> SUFFICES ASSUME ~refused'
                     PROVE  result' = Verdict(item, conds, i + 1)
            BY <2>1 DEF DecidedByTheLast
        <3>1. c.logic \in {"AND", "OR"}
            BY <2>14, <2>12
        <3>2. CASE c.logic = "AND"
            <4>1. Verdict(item, conds, i + 1) = (e.ok /\ e.res = TRUE)
                BY <3>2, <2>17, <2>18, <2>19
            <4>2. result' = (e.ok /\ e.res = TRUE)
                BY <3>2, <2>14, <2>3, <2>4, <2>5
            <4> QED
                BY <4>1, <4>2
        <3>3. CASE c.logic = "OR"
            <4>1. Verdict(item, conds, i + 1) = (e.ok \/ result)
                BY <3>3, <2>17, <2>18, <2>16, <2>3, <2>4
            <4>2. result' = (e.ok \/ result)
                BY <3>3, <2>14, <2>3, <2>4, <2>5
            <4> QED
                BY <4>1, <4>2
        <3> QED
            BY <3>1, <3>2, <3>3
    <2>9. TypeOK'
        <3>2. i' \in 0..Len(conds')
            BY <2>1, <1>len
        <3> QED
            BY <3>2, <2>13 DEF TypeOK
    <2>10. SelectedSoFar'
        <3>1. CASE e.ok
            <4>1. i' \in 1..i' /\ item'[conds'[i'].field].kind # "absent"
                BY <3>1, <2>1, <2>3, <2>6
            <4> QED
                BY <4>1 DEF SelectedSoFar
        <3>2. CASE result /\ result'
            <4>1. PICK k \in 1..i : item[conds[k].field].kind # "absent"
                BY <3>2, <2>1 DEF IInv, SelectedSoFar
            <4>2. k \in 1..i' /\ item'[conds'[k].field].kind # "absent"
                BY <4>1, <2>1
            <4> QED
                BY <4>2 DEF SelectedSoFar
        <3> QED
            BY <3>1, <3>2, <2>7 DEF SelectedSoFar
    <2>11. AndEndsTrue'
        <3> SUFFICES ASSUME result', conds'[i'].logic = "AND"
                     PROVE  IsTrue(conds[i])'
            BY DEF AndEndsTrue
        <3>1. e.ok /\ e.res = TRUE
            BY <2>6, <2>8
        <3>2. e = Evaluated(TRUE)
            BY <3>1, <2>3
        <3> QED
            BY <3>2, <2>6, <2>1 DEF IsTrue, e
    <2> QED
        BY <2>1, <2>9, <2>10, <2>11, <2>20 DEF IInv
<1>3. CASE UNCHANGED vars
    <2>1. item' = item /\ conds' = conds /\ i' = i /\ result' = result /\ refused' = refused
        BY <1>3 DEF vars
    <2>2. /\ Foldable(conds)' = Foldable(conds) /\ TypeOK' = TypeOK
          /\ SelectedSoFar' = SelectedSoFar /\ AndEndsTrue' = AndEndsTrue
        BY <2>1 DEF TypeOK, SelectedSoFar, AndEndsTrue, IsTrue
    <2>3. DecidedByTheLast' = DecidedByTheLast
        BY <2>1 DEF DecidedByTheLast
    <2> QED
        BY <2>2, <2>3 DEF IInv
<1> QED
    BY <1>1, <1>2, <1>3 DEF Next

\* The strengthened invariant.
THEOREM Invariance == Spec => []IInv
BY InitIInv, StepIInv, PTL DEF Spec

\* The conditions and the row are not assigned by evaluateConditions.
THEOREM CallConstant == Spec => [](item \in [Field -> RowValue] /\ conds \in Clause)
<1> DEFINE Given == item \in [Field -> RowValue] /\ conds \in Clause
<1>1. Init => Given
    BY DEF Init
<1>2. Given /\ [Next]_vars => Given'
    BY DEF Next, FirstCondition, NextCondition, vars
<1> QED
    BY <1>1, <1>2, PTL DEF Spec

\* The callers' uninitialised bool is always written before it is read
\* (evaluateConditions, ConditionUtils.h).
THEOREM ResultIsWritten == Spec => []TypeOK
<1>1. IInv => TypeOK
    BY DEF IInv
<1> QED
    BY <1>1, Invariance, PTL

\* Whatever the row and the clause, the chain of AND and OR is decided by its
\* last condition that AND joins or that can be evaluated.
THEOREM VerdictOfTheLast == Spec => []DecidedByTheLast
<1>1. IInv => DecidedByTheLast
    BY DEF IInv
<1> QED
    BY <1>1, Invariance, PTL

\* REMOVE and CHANGE leave alone a row that has none of the fields their WHERE
\* clause names, whatever the clause.
THEOREM AbsentFieldsSafe == Spec => []AbsentFieldsSelectNothing
<1>1. IInv /\ conds \in Clause => AbsentFieldsSelectNothing
    <2> SUFFICES ASSUME IInv, conds \in Clause, Selected
                 PROVE  \E k \in DOMAIN conds : item[conds[k].field].kind # "absent"
        BY DEF AbsentFieldsSelectNothing
    <2>1. Len(conds) \in Nat \ {0} /\ DOMAIN conds = 1..Len(conds)
        BY ClauseFacts DEF IInv, Foldable
    <2>2. i = Len(conds) /\ result
        BY DEF Selected, Done
    <2> QED
        BY <2>1, <2>2 DEF IInv, SelectedSoFar
<1> QED
    BY <1>1, Invariance, CallConstant, PTL

\* A conjunction selects only rows for which its last condition is true.
THEOREM ConjunctionSafe == Spec => []ConjunctionEndsTrue
<1>1. IInv => ConjunctionEndsTrue
    BY DEF IInv, AndEndsTrue, ConjunctionEndsTrue, Selected, Done
<1> QED
    BY <1>1, Invariance, PTL
=============================================================================
