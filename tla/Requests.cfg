\* Every kind of request and webhook around the jobs of one connection.
SPECIFICATION Spec
CONSTANTS
    Connections = {1}
    Bank <- MCBank
    Workers = {w1}
    Slots = {1, 2}
    NoRow = NoRow
    Payload <- MCPayload
    Requests = {"sync", "update", "disconnect", "inclusion", "deletion"}
    Failures = {"retryable", "permanent", "login"}
    MaxFeed = 1
    MaxAttempts = 1
INVARIANTS
    ErasedAfterRemoval
    RevocationStands
PROPERTIES
    RevokedIsFinal
CHECK_DEADLOCK FALSE
