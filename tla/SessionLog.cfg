\* Two goroutines emit into one session with one downlink; one store fault
\* and one restart are injected anywhere.
SPECIFICATION Spec
CONSTANTS
    Actor = actor
    Emitters = {actor, retry}
    Subscribers = {downlink}
    RingCap = 2
    SubCap = 1
    MaxEvents = 3
    MaxFaults = 1
    MaxRestarts = 1
INVARIANTS
    
    StoreContiguous
    ViewsDurable
    CacheExact
    RingExact
    WedgeCause
    TurnMonotone
