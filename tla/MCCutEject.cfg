SPECIFICATION Spec
CONSTANTS
    ToolCount = 2
    BlockBufferSize = 4
    EventQueueSize = 1
    MaxRetries = 1
    Requests <- CutEjectRequests
    Pressable = {}
    Faults = {}
    Flicker = FALSE
    MayIdle = FALSE
    Restarts = FALSE
    TestPasses = 1
INVARIANTS
    EjectionIsClear
    BladePrepared
    CutsFreeFilament
PROPERTIES
    CutEnds
    EjectEnds
