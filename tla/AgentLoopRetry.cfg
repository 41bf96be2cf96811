\* One turn of a provider that fails mid-stream and is retried: is the reply
\* assembled from one attempt only?
SPECIFICATION Spec
CONSTANTS
    TurnCap = 2
    StepCap = 1
    ChunkCap = 1
    MaxRetries = 1
    MaxMessages = 1
    MaxInterrupts = 0
    MaxSteps = 2
    MaxChunks = 1
    MaxFaults = 0
INVARIANTS
    AttemptsNotMixed
CHECK_DEADLOCK FALSE
