SPECIFICATION Spec
CONSTANTS
    Control = "control"
    Scheduler = "scheduler"
    MaxSessions = 2
    MaxMessages = 2
INVARIANTS
    TypeOK
    InOnePlace
    StatusSubscribed
PROPERTIES
    QueueMovesForward
CHECK_DEADLOCK FALSE
