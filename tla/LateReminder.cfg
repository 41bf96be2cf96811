\* A reminder created while the dispatcher sleeps without a target.
SPECIFICATION Spec
CONSTANTS
    Delays = {1, 2}
    Every = {2}
    Hour = 3
    MaxTime = 5
    MaxSchedules = 2
    MaxFailures = 1
    MaxStops = 1
    MaxGoals = 0
INVARIANT ReminderOnTime
CHECK_DEADLOCK FALSE
