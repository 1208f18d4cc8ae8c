\* Three starts of two servers, with every kind of config.json and environment.
SPECIFICATION Spec
CONSTANTS
    p1 = p1
    p2 = p2
    r1 = r1
    r2 = r2
    Process = {p1, p2}
    Table = {"t"}
    Str <- MCStr
    Size <- MCSize
    Head <- MCHead
    Rest = {r1, r2}
    NoRest = NoRest
    Json <- MCJson
    NoFile = NoFile
    Malformed = Malformed
    Environment <- MCEnvironment
    KernelPort = {40000}
    Nothing = Nothing
    MaxStarts = 3
SYMMETRY MCSymmetry
CHECK_DEADLOCK FALSE
INVARIANTS
    StartupTypeOK
    ValidIffUsable
    AcknowledgedTablesReturn
    NoTableIsDestroyed
PROPERTIES
    OnlyTheFileInvalidates
