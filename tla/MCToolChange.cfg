SPECIFICATION FairSpec
CONSTANTS
    ToolCount = 2
    BlockBufferSize = 4
    EventQueueSize = 1
    MaxRetries = 1
    Requests <- ToolRequests
    Pressable = {}
    Faults = {}
    Flicker = FALSE
    MayIdle = FALSE
    Restarts = TRUE
    TestPasses = 1
INVARIANTS
    TypeOK
    PushesThroughSelector
    FinishedMeansDone
PROPERTIES
    ToolChangeEnds
    LoadEnds
    RestartRemembersFilament
    PushComesToAnEnd
    ErrorReachesUser
