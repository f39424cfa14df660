SPECIFICATION Spec
CONSTANTS
    Payloads <- MCPayloads
    Inserted <- MCInserted
    MaxCalls = 2
    MaxUnits = 4
INVARIANTS
    RaisesOnlyFor
    OneChangeAtATime
    OthersStand
CHECK_DEADLOCK FALSE
