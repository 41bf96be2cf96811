\* Three tasks in two sessions compete for one slot; one cancel by owner or
\* session and Close come at any point.
SPECIFICATION Spec
CONSTANTS
    t1 = t1
    t2 = t2
    t3 = t3
    s1 = s1
    s2 = s2
    o1 = o1
    o2 = o2
    Tasks = {t1, t2, t3}
    Sessions = {s1, s2}
    Owners = {o1, o2}
    SessionOf <- MCSessionOf
    OwnerOf <- MCOwnerOf
    SyncTasks = {t2}
    Limit = 1
    Cancels = {k1}
INVARIANTS
    SerialPerSession
    SubmissionOrder
    SlotsExact
    CancelEffective
    NoLostWakeup
CHECK_DEADLOCK FALSE
