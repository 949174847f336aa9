SPECIFICATION FairSpec
CONSTANTS
    StatusStaleAfter = 4
    StatusHardFailAfter = 6
    StatusPollTimeout = 2
    ControlInterval = 2
    MaxMessages = 3
INVARIANTS
    TypeOK
    AnswerIsNew
PROPERTIES
    ReadsMoveForward
    EveryStatusIsSeen
