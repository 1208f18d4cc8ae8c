\* Conditions that AND joins, and the single condition of REMOVE with a value.
SPECIFICATION Spec
CONSTANTS
    Field = {"name", "age"}
    Text <- MCText
    NumberOf <- MCNumberOf
    NaN = NaN
    RowValue <- MCRowValue
    Clause <- MCClause
    Garbage = Garbage
CHECK_DEADLOCK FALSE
INVARIANTS
    ConditionsAreMet
