\* Two turns, tool steps, one retry per step, and an abort, a stop and a store
\* failure at any point.
SPECIFICATION Spec
CONSTANTS
    TurnCap = 2
    StepCap = 1
    ChunkCap = 1
    MaxRetries = 1
    MaxMessages = 2
    MaxInterrupts = 0
    MaxSteps = 2
    MaxChunks = 1
    MaxFaults = 1
INVARIANTS
    NoFalseCompletion
    IdleClosed
    MessagesConserved
PROPERTIES
    ImplementsProtocol
CHECK_DEADLOCK FALSE
