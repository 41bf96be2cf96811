\* One approval of a session that is stopped while the prompt is being staged.
SPECIFICATION Spec
CHECK_DEADLOCK FALSE
INVARIANT NoDeadPrompt
CONSTANTS
    MuxConns = {}
    HostConns = {h1}
    Calls = {a1}
    ChanCap = 1
    QueueMax = 2
    BacklogLimit = 1
    Oversized = {}
    MaxEvents = 0
    MaxNotices = 0
