SPECIFICATION Spec
CONSTANTS
    Messages <- SampleMessages
    Statuses <- SampleStatuses
    Registers <- SampleRegisters
    Noise <- SampleNoise
INVARIANTS
    TypeOK
    Resynchronises
PROPERTIES
    AcceptedWasSent
    AnswerWasGiven
