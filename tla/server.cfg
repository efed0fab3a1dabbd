SPECIFICATION Spec
CONSTANTS
    Width = 12
    NumericMax = 999
    MaxWhole = 25
    Ids = {"from client"}
    Numbers <- SomeNumbers
    Minute = 10
INVARIANTS
    ParseIsExact
    RoundTrip
    OneRecordPerRequest
    GuardsHold
    AnsweredAsDone
    ReturnReleases
    ServesAsAsked
CHECK_DEADLOCK FALSE
