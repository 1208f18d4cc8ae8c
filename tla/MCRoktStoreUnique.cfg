\* Two workers that add the same UNIQUE value.
SPECIFICATION Spec
CONSTANTS
    Worker = {"w1", "w2"}
    Dataset = {"t"}
    Unmakeable = {}
    Undumpable = {}
    Value = {"x"}
    Command <- UniqueCommand
    MaxRows = 2
    MaxCommands = 3
    MaxCrashes = 0
    MaxFailures = 0
CHECK_DEADLOCK FALSE
INVARIANTS
    UniqueKept
