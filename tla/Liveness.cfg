\* What must happen in the end, with failures, lost workers and retries.
SPECIFICATION FairSpec
CONSTANTS
    Connections = {1}
    Bank <- MCBank
    Workers = {w1}
    Slots = {1, 2}
    NoRow = NoRow
    Payload <- MCNoPayload
    Requests = {"sync", "disconnect"}
    Failures = {"retryable", "permanent", "login"}
    MaxFeed = 2
    MaxAttempts = 2
PROPERTIES
    JobsEnd
    RevocationConverges
    CatchesUp
CHECK_DEADLOCK FALSE
