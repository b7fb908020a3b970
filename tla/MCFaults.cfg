SPECIFICATION Spec
CONSTANTS
    ToolCount = 2
    BlockBufferSize = 4
    EventQueueSize = 1
    MaxRetries = 1
    Requests <- FaultyRequests
    Pressable = {}
    Faults = {"homing", "tmc"}
    Flicker = TRUE
    MayIdle = FALSE
    Restarts = TRUE
    TestPasses = 1
INVARIANTS
    HoldOnlyOnErrorScreen
    NoInternalError
PROPERTIES
    FailureStopsCommand
