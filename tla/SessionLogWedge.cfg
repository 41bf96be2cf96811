\* Two goroutines emit, nothing fails and nothing restarts: does the counter
\* stay in step with the store?
SPECIFICATION Spec
CONSTANTS
    Actor = actor
    Emitters = {actor, retry}
    Subscribers = {downlink}
    RingCap = 2
    SubCap = 1
    MaxEvents = 3
    MaxFaults = 0
    MaxRestarts = 0
INVARIANTS
    NeverWedged
