\* Every row of two fields with every clause of the instance.
SPECIFICATION Spec
CONSTANTS
    Field = {"name", "age"}
    Text <- MCText
    NumberOf <- MCNumberOf
    NaN = NaN
    RowValue <- MCRowValue
    Clause <- MCClause
    Garbage = Garbage
CHECK_DEADLOCK FALSE
INVARIANTS
    TypeOK
    AbsentFieldsSelectNothing
    ConjunctionEndsTrue
    DecidedByTheLast
