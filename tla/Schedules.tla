------------------------------ MODULE Schedules -------------------------------
(***************************************************************************)
(* Reminders of a session (backend/pkg/tools/schedule.go,                  *)
(* schedule_runtime.go, schedule_tools.go): schedule/change events in the  *)
(* session's log are the only record; the tools fold the log, the          *)
(* dispatcher goroutine of the running agent folds it, sleeps until the    *)
(* next target, posts a follow-up message and then logs the dispatch,      *)
(* which may fail unnoticed.  Beside it the goal and todo tools            *)
(* (goal_tools.go, tasks.go), which answer from memory and log every       *)
(* change.                                                                 *)
(*                                                                         *)
(* The tool calls of a session follow one another; the dispatcher and a    *)
(* stop of the agent interleave with them.  Time is counted in minutes of  *)
(* the model.  The log is kept as its fold (see TeamBoard).                *)
(***************************************************************************)
EXTENDS Naturals, FiniteSets

CONSTANTS
    Delays,         \* delays and distances a reminder may be created with
    Every,          \* everySeconds of fixed-rate reminders
    Hour,           \* how long the dispatcher sleeps without a target
    MaxTime,        \* bound: time; also the last representable instant
    MaxSchedules,   \* bound: reminders
    MaxFailures,    \* bound: failed appends of the dispatcher
    MaxStops,       \* bound: stops and crashes
    MaxGoals        \* bound: revisions of goals and todo lists

VARIABLES
    now,
    log,        \* the fold: [ok, active, seen]
    deleting,   \* id that schedule_delete found active and has yet to log, 0: none
    disp,       \* dispatcher: [at, wake, due, accepted]
    posted,     \* ids a follow-up was posted for
    deleted,    \* ids the user deleted
    accepted,   \* last accepted dispatch of every reminder, 0: none
    faults,     \* [emit, stop] so far
    goal,       \* goalsByID[session]: [id, rev, phase], id 0: none
    goalSeq,    \* goalSeq of the process
    goals,      \* goal/change events so far
    todo        \* items of the todo list in progress, in memory and in the log

vars == <<now, log, deleting, disp, posted, deleted, accepted, faults, goal, goalSeq, goals, todo>>
history == <<posted, deleted, accepted>>
tasks == <<goal, goalSeq, goals, todo>>

Off == [at |-> "off", wake |-> 0, due |-> {}, accepted |-> 0]
NoGoal == [id |-> 0, rev |-> 0, phase |-> ""]
Drop(f, k) == [x \in DOMAIN f \ {k} |-> f[x]]

Init ==
    /\ now = 0
    /\ log = [ok |-> TRUE, active |-> <<>>, seen |-> {}]
    /\ deleting = 0 /\ disp = [Off EXCEPT !.at = "fold"]
    /\ posted = {} /\ deleted = {} /\ accepted = [i \in 1..MaxSchedules |-> 0]
    /\ faults = [emit |-> 0, stop |-> 0]
    /\ goal = NoGoal /\ goalSeq = 0 /\ goals = 0 /\ todo = [mem |-> 0, log |-> 0]

-----------------------------------------------------------------------------
(* foldScheduleEvents, one event at a time.                                 *)
FoldCreate(st, id, rec) ==
    IF id \in st.seen THEN [st EXCEPT !.ok = FALSE]
    ELSE [st EXCEPT !.seen = @ \cup {id},
                    !.active = [x \in DOMAIN @ \cup {id} |-> IF x = id THEN rec ELSE @[x]]]

FoldDelete(st, id) ==
    IF id \notin DOMAIN st.active THEN [st EXCEPT !.ok = FALSE] ELSE [st EXCEPT !.active = Drop(@, id)]

(* Wrong variant: rounded to the latest occurrence, not past it.            *)
LatestOccurrence(anchor, every, at) == anchor + ((at - anchor) \div every) * every

(* nextOccurrence: the first occurrence after the acceptance.               *)
NextOccurrence(anchor, every, at) == anchor + ((at - anchor) \div every) * every + every

FoldDispatch(st, id, at) ==
    IF id \notin DOMAIN st.active THEN [st EXCEPT !.ok = FALSE]
    ELSE LET rec == st.active[id]
             next == IF rec.every = 0 THEN MaxTime + 1 ELSE NextOccurrence(rec.at, rec.every, at)
         IN IF next > MaxTime THEN [st EXCEPT !.active = Drop(@, id)]
            ELSE [st EXCEPT !.active[id].at = next]

-----------------------------------------------------------------------------
(* schedule_create: exactly one of after_seconds, at and every_seconds;     *)
(* the target is in the future and representable.                           *)
AllocateID == Cardinality(log.seen) + 1

Create(delay, every) ==
    /\ disp.at # "off" /\ deleting = 0 /\ log.ok
    /\ AllocateID <= MaxSchedules /\ delay > 0 /\ now + delay <= MaxTime
    /\ log' = FoldCreate(log, AllocateID, [at |-> now + delay, every |-> every])
    /\ UNCHANGED <<now, deleting, disp, history, faults, tasks>>

(* schedule_delete: the fold is read, the event is appended later.          *)
DeleteLooksUp(id) ==
    /\ disp.at # "off" /\ deleting = 0 /\ log.ok /\ id \in DOMAIN log.active
    /\ deleting' = id
    /\ UNCHANGED <<now, log, disp, history, faults, tasks>>

DeleteEmits ==
    /\ deleting # 0
    /\ log' = FoldDelete(log, deleting)
    /\ deleted' = deleted \cup {deleting} /\ deleting' = 0
    /\ UNCHANGED <<now, disp, posted, accepted, faults, tasks>>

-----------------------------------------------------------------------------
(* decideDue: the earliest due one-shot, else every due fixed-rate rule,    *)
(* else the next target.                                                    *)
Due == {id \in DOMAIN log.active : log.active[id].at <= now}
DueOnce == {id \in Due : log.active[id].every = 0}
Decision ==
    IF DueOnce # {} THEN {{CHOOSE id \in DueOnce : \A o \in DueOnce :
                              \/ log.active[id].at < log.active[o].at
                              \/ log.active[id].at = log.active[o].at /\ id <= o}}
    ELSE IF Due # {} THEN {Due} ELSE {}

Target == IF DOMAIN log.active = {} THEN now + Hour
          ELSE CHOOSE t \in {log.active[id].at : id \in DOMAIN log.active} :
                 \A id \in DOMAIN log.active : t <= log.active[id].at

(* One round of the loop: a corrupt log ends it.                            *)
DispatchFold ==
    /\ disp.at = "fold"
    /\ disp' = IF ~log.ok THEN [Off EXCEPT !.at = "faulted"]
               ELSE IF Decision = {} THEN [Off EXCEPT !.at = "wait", !.wake = Target]
               ELSE [Off EXCEPT !.at = "post", !.due = CHOOSE d \in Decision : TRUE, !.accepted = now]
    /\ UNCHANGED <<now, log, deleting, history, faults, tasks>>

DispatchWakes ==
    /\ disp.at = "wait" /\ now >= disp.wake
    /\ disp' = [Off EXCEPT !.at = "fold"]
    /\ UNCHANGED <<now, log, deleting, history, faults, tasks>>

(* The follow-up is posted, then one dispatch event per reminder is logged; *)
(* an append that fails is ignored.                                         *)
DispatchPost ==
    /\ disp.at = "post"
    /\ posted' = posted \cup disp.due
    /\ disp' = [disp EXCEPT !.at = "emit"]
    /\ UNCHANGED <<now, log, deleting, deleted, accepted, faults, tasks>>

DispatchEmit(id, ok) ==
    /\ disp.at = "emit" /\ id \in disp.due
    /\ disp' = IF disp.due = {id} THEN [Off EXCEPT !.at = "fold"] ELSE [disp EXCEPT !.due = @ \ {id}]
    /\ IF ok THEN /\ log' = FoldDispatch(log, id, disp.accepted)
                  /\ accepted' = [accepted EXCEPT ![id] = disp.accepted] /\ UNCHANGED faults
       ELSE /\ faults.emit < MaxFailures /\ faults' = [faults EXCEPT !.emit = @ + 1]
            /\ UNCHANGED <<log, accepted>>
    /\ UNCHANGED <<now, deleting, posted, deleted, tasks>>

-----------------------------------------------------------------------------
Tick ==
    /\ now < MaxTime /\ now' = now + 1
    /\ UNCHANGED <<log, deleting, disp, history, faults, tasks>>

(* Agent.Stop waits for the dispatcher, which looks at the stop signal      *)
(* between rounds and while it sleeps; a call in flight goes on.            *)
StopAgent ==
    /\ disp.at \in {"fold", "wait", "faulted"} /\ faults.stop < MaxStops
    /\ disp' = Off /\ faults' = [faults EXCEPT !.stop = @ + 1]
    /\ UNCHANGED <<now, log, deleting, history, tasks>>

(* The process dies anywhere (an at instant with a numeric offset is one    *)
(* cause: its parser panics); what was in memory is gone.                   *)
Crash ==
    /\ faults.stop < MaxStops
    /\ disp' = Off /\ deleting' = 0 /\ faults' = [faults EXCEPT !.stop = @ + 1]
    /\ goal' = NoGoal /\ goalSeq' = 0 /\ todo' = [todo EXCEPT !.mem = 0]
    /\ UNCHANGED <<now, log, history, goals>>

Resume ==
    /\ disp.at = "off" /\ disp' = [Off EXCEPT !.at = "fold"]
    /\ UNCHANGED <<now, log, deleting, history, faults, tasks>>

-----------------------------------------------------------------------------
(* create_goal, goal_set (which logs a goal that get_goal does not know)    *)
(* and update_goal with the exact id and revision.                          *)
Goals == goals < MaxGoals /\ goals' = goals + 1 /\ deleting = 0 /\ disp.at # "off"

CreateGoal ==
    /\ Goals
    /\ goalSeq' = goalSeq + 1
    /\ goal' = [id |-> goalSeq + 1, rev |-> 1, phase |-> "active"]
    /\ UNCHANGED <<now, log, deleting, disp, history, faults, todo>>

GoalSet ==
    /\ Goals
    /\ UNCHANGED <<now, log, deleting, disp, history, faults, goal, goalSeq, todo>>

UpdateGoal(phase) ==
    /\ Goals /\ goal # NoGoal
    /\ goal' = [goal EXCEPT !.rev = @ + 1, !.phase = IF phase = "edit" THEN @ ELSE phase]
    /\ UNCHANGED <<now, log, deleting, disp, history, faults, goalSeq, todo>>

(* todo_write: at most one item in progress; a longer list is refused.      *)
TodoWrite(active) ==
    /\ Goals /\ active <= 1
    /\ todo' = [mem |-> active, log |-> active]
    /\ UNCHANGED <<now, log, deleting, disp, history, faults, goal, goalSeq>>

Next ==
    \/ \E d \in Delays : Create(d, 0)
    \/ \E e \in Every : Create(e, e)
    \/ \E id \in log.seen : DeleteLooksUp(id)
    \/ DeleteEmits
    \/ DispatchFold \/ DispatchWakes \/ DispatchPost
    \/ \E id \in disp.due, ok \in BOOLEAN : DispatchEmit(id, ok)
    \/ Tick \/ StopAgent \/ Crash \/ Resume
    \/ CreateGoal \/ GoalSet
    \/ \E p \in {"edit", "paused", "active", "complete", "blocked"} : UpdateGoal(p)
    \/ \E n \in 0..2 : TodoWrite(n)

Spec == Init /\ [][Next]_vars

-----------------------------------------------------------------------------
(* PROPERTIES                                                               *)

(* No reminder is forgotten: one that is no longer active, and was not      *)
(* deleted, has been posted, whatever crash or failed append came between;  *)
(* and the next target of a fixed-rate reminder lies after the occurrence   *)
(* that was accepted last, so no period is reminded of twice.               *)
ReminderKept ==
    log.ok => \A id \in log.seen :
        /\ id \in DOMAIN log.active \/ id \in deleted \/ id \in posted
        /\ id \in DOMAIN log.active /\ accepted[id] # 0 => log.active[id].at > accepted[id]

(* "reminders run on time only while the session is live": while the        *)
(* dispatcher of a live session sleeps, nothing is overdue.                 *)
ReminderOnTime ==
    disp.at = "wait" /\ disp.wake > now => \A id \in DOMAIN log.active : log.active[id].at >= now
==============================================================================
