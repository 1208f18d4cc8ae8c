\* Two workers, four commands, one failing open.  The process is not killed, but
\* commands end it while the other worker is at any step.
SPECIFICATION Spec
CONSTANTS
    Worker = {"w1", "w2"}
    Dataset = {"t", "u", "long", "latin"}
    Unmakeable = {"long"}
    Undumpable = {"latin"}
    Value = {"x"}
    Command <- RaceCommand
    MaxRows = 2
    MaxCommands = 4
    MaxCrashes = 0
    MaxFailures = 1
CHECK_DEADLOCK FALSE
INVARIANTS
    ListedTablesWereMade
PROPERTIES
    AbortsExplained
