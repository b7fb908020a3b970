SPECIFICATION Spec
CONSTANTS
    ToolCount = 2
    BlockBufferSize = 2
INVARIANTS
    TypeOK
    HomedShape
    HomingHidesSlot
    RestMeansStill
