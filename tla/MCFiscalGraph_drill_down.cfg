SPECIFICATION Spec
CONSTANTS
    Absent = Absent
    AccessKeys <- Keys
    Versions <- Supported
    Docs <- AllDocs
    Slots = 2
    MaxRuns = 6
    MaxInstant = 0
INVARIANT BarOpensItsNotas
CHECK_DEADLOCK FALSE
