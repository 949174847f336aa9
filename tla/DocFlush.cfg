SPECIFICATION Spec
CONSTANTS
    Control = "control"
    Scheduler = "scheduler"
    MaxSessions = 1
    MaxMessages = 1
INVARIANTS
    FlushedOnReconnect
CHECK_DEADLOCK FALSE
