\* Two sessions, one slot: a task that never returns by itself, a cancel and
\* Close, under the runtime's fairness.
SPECIFICATION FairSpec
CONSTANTS
    t1 = t1
    t2 = t2
    t3 = t3
    s1 = s1
    s2 = s2
    o1 = o1
    o2 = o2
    Tasks = {t1, t3}
    Sessions = {s1, s2}
    Owners = {o1, o2}
    SessionOf <- MCSessionOf
    OwnerOf <- MCOwnerOf
    SyncTasks = {t3}
    Limit = 1
    Cancels = {k1}
PROPERTIES
    CloseDrains
    CancelStops
CHECK_DEADLOCK FALSE
