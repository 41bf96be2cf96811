\* The gateway's components, one at a time.  Requests are finite, so the run ends in deadlock.
SPECIFICATION MCSpec
CHECK_DEADLOCK FALSE
INVARIANTS
    DownlinkDelivers
    OneTerminalFrame
    SettledByOwnTurn
    
    SettingsTrue
CONSTANTS
    MaxRequests = 3
    Ops = {"create", "prompt", "stop", "delete"}
    MuxConns = {m1}
    HostConns = {h1}
    Calls = {a1}
    ChanCap = 1
    QueueMax = 2
    BacklogLimit = 1
    Oversized = {2}
    MaxEvents = 3
    MaxNotices = 2
    Prompts = {p1, p2}
    Followups = {f1}
    Cancels = {k1}
    Permissions = {}
    Kinds = {"completed", "refusal"}
    RelayCap = 2
    MaxUpdates = 1
    Clients = {c1, c2}
    Requesters = {r1, r2}
    Ids = {"a"}
    Vals = {1}
    ProviderKinds = {"set", "delete", "apply", "seed"}
    MaxWrites = 3
    MaxVersions = 3
    MaxBoots = 2
    p1 = p1
    k1 = k1
    q1 = q1
    q2 = q2
    c2 = c2
