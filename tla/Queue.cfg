\* Two workers that may hold the same row of a connection that is disconnected, and two links to the same accounts.
SPECIFICATION MCSpec
CONSTANTS
    Connections = {1, 2}
    Bank <- MCBank
    Workers = {w1, w2}
    Slots = {1, 2, 3}
    NoRow = NoRow
    Payload <- MCNoPayload
    Requests = {"disconnect"}
    Failures = {"retryable"}
    MaxFeed = 1
    MaxAttempts = 2
SYMMETRY MCSymmetry
INVARIANTS
    TypeOK
    OneActiveRow
    CursorIsLedger
    LinksSurvive
PROPERTIES
    ReplicaSpec
CHECK_DEADLOCK FALSE
