SPECIFICATION Spec
CONSTANTS
    ToolCount = 2
    BlockBufferSize = 4
    EventQueueSize = 1
    MaxRetries = 1
    Requests <- ToolRequests
    Pressable = {}
    Faults = {}
    Flicker = FALSE
    MayIdle = FALSE
    Restarts = FALSE
    TestPasses = 1
PROPERTIES
    OneCommandAtATime
