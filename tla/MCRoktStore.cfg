\* One worker, every command on a table of at most two rows; the process is
\* killed twice, at any step, and started again.
SPECIFICATION Spec
CONSTANTS
    Worker = {"w1"}
    Dataset = {"t", "u", "latin"}
    Unmakeable = {}
    Undumpable = {"latin"}
    Value = {"x", "y"}
    Command <- SingleCommand
    MaxRows = 2
    MaxCommands = 0
    MaxCrashes = 2
    MaxFailures = 0
CHECK_DEADLOCK FALSE
INVARIANTS
    TypeOK
    ListMatchesDisk
    DamageIsLocal
PROPERTIES
    ImplementsTables
