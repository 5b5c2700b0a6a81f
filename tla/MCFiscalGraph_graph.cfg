SPECIFICATION Spec
CONSTANTS
    Absent = Absent
    AccessKeys <- Keys
    Versions <- Supported
    Docs <- AllDocs
    Slots = 2
    MaxRuns = 5
    MaxInstant = 0
INVARIANTS
    GraphIsItsNotas
    ItemsAddUpToTotals
    RankingAddsUp
    NetworkAgrees
    ScreensAgree
    GapsAreTheMissingNumbers
    ExportIsTheList
CHECK_DEADLOCK FALSE
