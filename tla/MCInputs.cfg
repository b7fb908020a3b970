SPECIFICATION Spec
CONSTANTS
    TimeRange = 6
    Size = 2
    IndexRange = 4
    ButtonCount = 2
    buttonADCLimits <- Limits
    RawADC <- Raws
    ButtonsDebounce = 2
    FindaDebounce = 2
    LoopMs = 2
INVARIANTS
    BootSeesFilament
    EraseNeedsLeftHeld
PROPERTIES
    ImplementsEventFifo
    EventsArePresses
    HeldButtonIsSeen
