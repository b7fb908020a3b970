SPECIFICATION Spec
CONSTANTS
    ToolCount = 2
    DataCells = 4
    Wears <- WearsBenignly
    PowerFails = TRUE
INVARIANTS
    TypeOK
    SetSucceeds
    NeverAnotherSlot
    DriveErrorsCount
PROPERTIES
    ReadsBack
