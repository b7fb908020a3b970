SPECIFICATION Spec
CONSTANTS
    ToolCount = 2
    BlockBufferSize = 4
    EventQueueSize = 1
    MaxRetries = 2
    Requests <- LoadUnloadRequests
    Pressable = {"Left", "Middle", "Right"}
    Faults = {"hw", "vcc"}
    Flicker = FALSE
    MayIdle = TRUE
    Restarts = TRUE
    TestPasses = 1
INVARIANTS
    QueuesNeverOverflow
    ErrorScreenStopsPulley
    SlotKnown
    BrokenHardwareStaysStill
PROPERTIES
    UnloadEnds
