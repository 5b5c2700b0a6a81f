SPECIFICATION Spec
CONSTANTS
    Absent = Absent
    AccessKeys <- Keys
    Versions <- Supported
    Doc = {1, 2, 3, 4}
    Before = {1, 2}
    Xml <- Duplicates
    Config = {"both", "duplicates"}
    Body <- Bodies
    DefaultConfig = "both"
    Rule = {"duplicate", "numberingGap"}
    Fingerprint <- Groups
    Enabled <- RulesOf
    Produced <- Finds
    Evaluator = {e1, e2}
    MaxRuns = 2
INVARIANTS
    QuietEvaluationIsExact
    ReadIsWhatUsersSaid
    FingerprintsTellAlertsApart
PROPERTY OnlyLapsedAreDeleted
CHECK_DEADLOCK FALSE
