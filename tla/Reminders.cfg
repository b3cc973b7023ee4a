\* Two workers; the occurrence, the preferences or a device changes.
SPECIFICATION OneChange
CONSTANTS
    Workers = {w1, w2}
    Devices = {d1}
    Email = Email
    NoDelivery = NoDelivery
    MaxAttempts = 2
    MaxRevision = 2
    MaxVersion = 2
PROPERTIES
    OthersWorkStands
    DeliveriesEnd
CHECK_DEADLOCK FALSE
