\* The services, one at a time.  Requests, faults and time are bounded, so the run ends in deadlock.
SPECIFICATION MCSpec
CHECK_DEADLOCK FALSE
INVARIANTS
    WholeGeneration
    PluginsAccounted
    
    CoreSettled
    ChildrenAccounted
    
    ProcessesReported
    
    
    ResultsKeepCalls
    
CONSTANTS
    Builtin = FALSE
    MaxRequests = 3
    MaxHosts = 2
    MaxReconnects = 1
    Ops = {"reload", "disable"}
    Lists = {{"a", "b"}, {"c"}}
    Shared = {"b"}
    MaxAttempts = 1
    FailOnStartup = FALSE
    MaxDials = 1
    PolicySessions = {"s1"}
    Tools = {"write_file", "run_command"}
    Modes = {"plan"}
    MaxToolCalls = 2
    MaxCommands = 1
    Plugins = 2
    CoreOps = {"load", "unload", "reload"}
    MaxCoreRequests = 2
    MaxTimers = 0
    MaxDepth = 2
    Members = 0
    Parallel = FALSE
    MaxSessions = 3
    MaxContinues = 0
    MaxRestarts = 1
    TeamNames = {"n1"}
    MaxMembers = 2
    MaxEvents = 5
    MaxForks = 0
    MaxLeadStops = 0
    ProcessOps = {"job"}
    MaxJobs = 2
    MaxCalls = 0
    MaxLines = 2
    Delays = {1, 2}
    Every = {2}
    Hour = 3
    MaxTime = 4
    MaxSchedules = 2
    MaxFailures = 1
    MaxStops = 1
    MaxGoals = 0
    RetainTokens = 2
    CallCounts = {0, 1, 2}
    MaxLogged = 8
    MaxNotes = 1
    MaxCrashes = 1
    Shapes <- MCShapes
    MinPacked = 2
    MaxPacked = 3
    MaxBytes = 4
    MaxStored = 4
    MaxBatch = 4
    MaxDamage = 0
    MaxDeletes = 0
    MaxPowerLoss = 0
    Files = {"ours"}
    RecordKinds = {"turn/end", "note"}
    MaxRecords = 3
    MaxRecordBatch = 2
    MaxMishaps = 2
