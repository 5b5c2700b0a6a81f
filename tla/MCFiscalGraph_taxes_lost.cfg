SPECIFICATION Spec
CONSTANTS
    Absent = Absent
    AccessKeys <- Keys
    Versions <- Supported
    Docs <- SelectiveDocs
    Slots = 2
    MaxRuns = 6
    MaxInstant = 0
INVARIANT SelectiveTaxIsKept
CHECK_DEADLOCK FALSE
