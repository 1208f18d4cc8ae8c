\* As MCRowCommands, for the clause that comes behind a WHERE.
SPECIFICATION CommandSpec
CONSTANTS
    Field = {"name", "age", "ag", "d.age", "(d.age)"}
    Nested = {"d.age"}
    Literal <- MCLiteral
    Beginning <- MCBeginning
    TableArg = {"users"}
    Text <- MCText
    NumberOf <- MCNumberOf
    NaN = NaN
    RowValue <- MCRowValue
    Clause <- MCClause
    Garbage = Garbage
    Table <- MCTable
    Undefined = 8
    NullText = 7
    SelectArg = {"*", "d.age"}
    WhereArg <- MCWhereArg
    WriteArg <- MCWriteArg
    GroupArg = {"age", "d.age"}
    OrderArg <- MCOrderArg
    LimitArg = {0, 2, 12}
    SetArg <- MCSetArg
    ValueArg = {5}
    CountArg <- MCCountArg
    MaxCalls = 6
    MaxRepeatCalls = 4
    MaxCutCalls = 4
CHECK_DEADLOCK FALSE
INVARIANTS
    ClauseBehindWhereIsHeard
