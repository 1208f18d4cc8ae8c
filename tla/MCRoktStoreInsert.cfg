\* Two workers that add one row each.
SPECIFICATION Spec
CONSTANTS
    Worker = {"w1", "w2"}
    Dataset = {"t"}
    Unmakeable = {}
    Undumpable = {}
    Value = {"x", "y"}
    Command <- InsertCommand
    MaxRows = 2
    MaxCommands = 3
    MaxCrashes = 0
    MaxFailures = 0
CHECK_DEADLOCK FALSE
INVARIANTS
    AcknowledgedRowsAreKept
