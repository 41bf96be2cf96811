\* One turn, one interrupt (so two steps), one retry per step, an abort
\* and a stop at any point, under the runtime's fairness.
SPECIFICATION FairSpec
CONSTANTS
    TurnCap = 2
    StepCap = 1
    ChunkCap = 1
    MaxRetries = 1
    MaxMessages = 1
    MaxInterrupts = 1
    MaxSteps = 1
    MaxChunks = 1
    MaxFaults = 0
INVARIANTS
    MessagesConserved
PROPERTIES
    ImplementsProtocol
    AbortEndsTurn
    StopExits
    
    OrphansExit
CHECK_DEADLOCK FALSE
