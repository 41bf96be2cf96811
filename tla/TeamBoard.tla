------------------------------ MODULE TeamBoard -------------------------------
(***************************************************************************)
(* Agent Teams (backend/pkg/tools/team_service.go, team.go): the roster    *)
(* and the task board are folds of the team events in the lead session's   *)
(* log; every tool folds the log, decides and appends.  Next to the log    *)
(* the process keeps a runtime per lead session with the live teammates    *)
(* and the wait_agent watchers; starting an agent registers it, stopping   *)
(* an agent tears it down, possibly while a tool call is on its way.       *)
(*                                                                         *)
(* The calls of one session follow one another.  Tasks and members are     *)
(* numbered in the order they are created; texts and write scopes are left *)
(* out.  The log is kept as what foldTeamEvents makes of it, one event at  *)
(* a time: the fold is from the left, so the next fold of the log is the   *)
(* next step of the last one.                                              *)
(***************************************************************************)
EXTENDS Naturals, Sequences, FiniteSets

CONSTANTS
    Names,          \* teammate names
    MaxMembers,     \* the limit of 16 members
    MaxEvents,      \* bound: team events in the log
    MaxForks,       \* bound: forks of the lead session
    MaxStops        \* bound: stops of the lead's agent

VARIABLES
    log,        \* the fold of the lead's log: [ok, members, tasks, nextTaskID]
    events,     \* team events in the log
    forks,      \* forks so far
    runtime,    \* leads[lead]: 0, or the number of the runtime
    children,   \* children of every runtime so far
    child,      \* teammate agents: [name, alive]
    call,       \* the tool call of the lead: [at, name, id, rt]
    stops       \* stops so far

vars == <<log, events, forks, runtime, children, child, call, stops>>
agents == <<runtime, children, child, stops>>

NoCall == [at |-> "none", name |-> "", id |-> 0, rt |-> 0]

-----------------------------------------------------------------------------
(* The fold.                                                                *)
Put(f, k, v) == [x \in DOMAIN f \cup {k} |-> IF x = k THEN v ELSE f[x]]

EmptyFold == [ok |-> TRUE, members |-> <<>>, tasks |-> <<>>, nextTaskID |-> 1]

(* validateTaskGraph: blockers exist and are not deleted, no task blocks    *)
(* itself, no cycle over all tasks, the deleted ones included.              *)
Blockers(tasks) == [u \in DOMAIN tasks |-> tasks[u].blockedBy]

Reach(blockers, t) ==
    LET more(S) == S \cup UNION {blockers[u] : u \in S \cap DOMAIN blockers}
        n == Cardinality(DOMAIN blockers)
        grow[k \in 0..n] == IF k = 0 THEN blockers[t] ELSE more(grow[k - 1])
    IN grow[n]

GraphValid(tasks, id, t) ==
    LET all == Put(tasks, id, t) IN
    /\ id \notin t.blockedBy
    /\ \A b \in t.blockedBy : b \in DOMAIN tasks /\ tasks[b].status # "deleted"
    /\ \A u \in DOMAIN all : u \notin Reach(Blockers(all), u)

(* applyTeamMember and applyTeamTask.                                       *)
ApplyMember(st, e) ==
    LET known == e.id \in DOMAIN st.members
        reused == \E m \in DOMAIN st.members : st.members[m].name = e.name /\ m # e.id
        legal == IF known THEN /\ st.members[e.id].name = e.name
                               /\ st.members[e.id].phase = "provisioning" /\ e.phase # "provisioning"
                 ELSE e.phase = "provisioning"
    IN IF reused \/ ~legal THEN [st EXCEPT !.ok = FALSE]
       ELSE [st EXCEPT !.members = Put(@, e.id, [name |-> e.name, phase |-> e.phase])]

ApplyTask(st, e) ==
    LET contiguous == IF e.id \in DOMAIN st.tasks THEN e.task.rev = st.tasks[e.id].rev + 1 ELSE e.task.rev = 1
    IN IF ~contiguous \/ ~GraphValid(st.tasks, e.id, e.task) THEN [st EXCEPT !.ok = FALSE]
       ELSE [st EXCEPT !.tasks = Put(@, e.id, e.task),
                       !.nextTaskID = IF e.id >= @ THEN e.id + 1 ELSE @]

(* foldTeamEvents: the first record that breaks a rule fails the fold.      *)
FoldOne(st, e) ==
    IF ~st.ok THEN st
    ELSE CASE e.type = "member" -> ApplyMember(st, e) [] e.type = "task" -> ApplyTask(st, e) [] OTHER -> st

(* The records a fork inherits name another team and are skipped.           *)
FoldInherited == EmptyFold

-----------------------------------------------------------------------------
Init ==
    /\ log = EmptyFold /\ events = 0 /\ forks = 0 /\ stops = 0
    /\ runtime = 1 /\ children = <<{}>> /\ child = <<>>
    /\ call = NoCall

(* What a tool appends through ctx.Emit.                                    *)
Emit(e) == events < MaxEvents /\ events' = events + 1 /\ log' = FoldOne(log, e)
Event(type, id) == [type |-> type, id |-> id, name |-> "", phase |-> "", task |-> <<>>]
TaskEvent(id, t) == [Event("task", id) EXCEPT !.task = t]
MemberEvent(id, name, phase) == [Event("member", id) EXCEPT !.name = name, !.phase = phase]

Idle == call = NoCall /\ runtime # 0

(* spawn_teammate: the runtime is read first, then names and the limit from *)
(* the fold; the host's spawner starts the child.                           *)
SpawnTeammate(name) ==
    /\ Idle /\ log.ok
    /\ \A m \in DOMAIN log.members : log.members[m].name # name
    /\ Cardinality(DOMAIN log.members) < MaxMembers
    /\ child' = Append(child, [name |-> name, alive |-> TRUE])
    /\ call' = [at |-> "provision", name |-> name, id |-> Len(child) + 1, rt |-> runtime]
    /\ UNCHANGED <<log, events, forks, runtime, children, stops>>

Provision ==
    /\ call.at = "provision"
    /\ Emit(MemberEvent(call.id, call.name, "provisioning"))
    /\ call' = [call EXCEPT !.at = "activate"]
    /\ UNCHANGED <<forks, agents>>

Activate ==
    /\ call.at = "activate"
    /\ Emit(MemberEvent(call.id, call.name, "active"))
    /\ call' = [call EXCEPT !.at = "register"]
    /\ UNCHANGED <<forks, agents>>

(* The handle goes into the runtime that was read, torn down or not.        *)
(* notifyChange follows; its watchers are calls of the same session, so     *)
(* none is waiting.                                                         *)
RegisterHandle ==
    /\ call.at = "register"
    /\ children' = [children EXCEPT ![call.rt] = @ \cup {call.id}]
    /\ call' = NoCall
    /\ UNCHANGED <<log, events, forks, runtime, child, stops>>

-----------------------------------------------------------------------------
(* team_task_create.                                                        *)
TaskCreate(deps) ==
    LET id == log.nextTaskID
        t == [rev |-> 1, status |-> "pending", owner |-> 0, blockedBy |-> deps]
    IN /\ Idle /\ log.ok /\ GraphValid(log.tasks, id, t)
       /\ Emit(TaskEvent(id, t))
       /\ UNCHANGED <<forks, agents, call>>

(* Wrong variant: the graph is not checked again.                           *)
UpdateUnchecked(id, next) ==
    /\ Emit(TaskEvent(id, [next EXCEPT !.rev = @ + 1]))
    /\ UNCHANGED <<forks, agents, call>>

(* team_task_update, with the revision the caller read last.  The tail of   *)
(* every action: the next revision, the graph again, the event.             *)
Update(id, next) ==
    /\ GraphValid(log.tasks, id, next)
    /\ Emit(TaskEvent(id, [next EXCEPT !.rev = @ + 1]))
    /\ UNCHANGED <<forks, agents, call>>

Task(id) == log.tasks[id]
TaskKnown(id) == Idle /\ log.ok /\ id \in DOMAIN log.tasks

(* A call without a caller id acts as the lead, session 0 of the model.     *)
Claim(id) ==
    /\ TaskKnown(id) /\ Task(id).status = "pending"
    /\ Update(id, [Task(id) EXCEPT !.status = "in_progress", !.owner = 0])

Release(id) ==
    /\ TaskKnown(id) /\ Task(id).status = "in_progress" /\ Task(id).owner = 0
    /\ Update(id, [Task(id) EXCEPT !.status = "pending"])

(* edit looks at no status: a deleted task may be edited.                   *)
Edit(id) == TaskKnown(id) /\ Update(id, Task(id))

SetDependencies(id, deps) ==
    /\ TaskKnown(id) /\ GraphValid(log.tasks, id, [Task(id) EXCEPT !.blockedBy = deps])
    /\ Update(id, [Task(id) EXCEPT !.blockedBy = deps])

(* taskReady.                                                               *)
TaskReady(id) == \A b \in Task(id).blockedBy : Task(b).status = "completed"

Complete(id) ==
    /\ TaskKnown(id) /\ Task(id).status = "in_progress" /\ TaskReady(id)
    /\ Update(id, [Task(id) EXCEPT !.status = "completed"])

Reopen(id) ==
    /\ TaskKnown(id) /\ Task(id).status = "completed"
    /\ Update(id, [Task(id) EXCEPT !.status = "pending", !.owner = 0])

(* reassign: members are kept by id and looked up by name, which never is   *)
(* one; only "lead" and "" resolve.                                         *)
Reassign(id, status) ==
    /\ TaskKnown(id) /\ Task(id).status \in {"pending", "in_progress"}
    /\ Update(id, [Task(id) EXCEPT !.status = status, !.owner = 0])

Delete(id) ==
    /\ TaskKnown(id)
    /\ \A u \in DOMAIN log.tasks \ {id} : Task(u).status # "deleted" => id \notin Task(u).blockedBy
    /\ Update(id, [Task(id) EXCEPT !.status = "deleted"])

-----------------------------------------------------------------------------
(* send_message and followup_task: only the lead resolves (see Reassign),   *)
(* whose own delivery is its caller's loop: the message stays queued.       *)
(* interrupt_agent resolves names the same way and changes nothing.         *)
MessageSend ==
    /\ Idle /\ log.ok
    /\ Emit(Event("queued", 0))
    /\ UNCHANGED <<forks, agents, call>>

(* wait_agent: until a change, which only a call of the same session could  *)
(* bring, so until the timeout, of which the reply says nothing.            *)
Wait ==
    /\ Idle
    /\ call' = [NoCall EXCEPT !.at = "wait"]
    /\ UNCHANGED <<log, events, forks, agents>>

WaitReturns ==
    /\ call.at = "wait"
    /\ call' = NoCall
    /\ UNCHANGED <<log, events, forks, agents>>

(* Agent.Start registers the runtime unless there is one; Agent.Stop stops  *)
(* the children of the runtime and drops it.  The call in flight goes on.   *)
StopLead ==
    /\ runtime # 0 /\ stops < MaxStops /\ stops' = stops + 1
    /\ child' = [c \in DOMAIN child |->
                   IF c \in children[runtime] THEN [child[c] EXCEPT !.alive = FALSE] ELSE child[c]]
    /\ runtime' = 0
    /\ UNCHANGED <<log, events, forks, children, call>>

StartLead ==
    /\ runtime = 0 /\ call = NoCall
    /\ children' = Append(children, {}) /\ runtime' = Len(children) + 1
    /\ UNCHANGED <<log, events, forks, child, call, stops>>

(* The process dies: calls and agents go, the log stays.                    *)
Crash ==
    /\ stops < MaxStops /\ stops' = stops + 1
    /\ child' = [c \in DOMAIN child |-> [child[c] EXCEPT !.alive = FALSE]]
    /\ runtime' = 0 /\ call' = NoCall
    /\ UNCHANGED <<log, events, forks, children>>

(* The session is forked and the fork led on: another id, the same events.  *)
Fork ==
    /\ forks < MaxForks /\ call = NoCall /\ runtime # 0
    /\ forks' = forks + 1 /\ log' = FoldInherited
    /\ children' = Append(children, {}) /\ runtime' = Len(children) + 1
    /\ UNCHANGED <<events, child, call, stops>>

Next ==
    \/ \E n \in Names : SpawnTeammate(n)
    \/ Provision \/ Activate \/ RegisterHandle
    \/ \E deps \in SUBSET (DOMAIN log.tasks) : TaskCreate(deps)
    \/ \E id \in DOMAIN log.tasks :
         \/ Claim(id) \/ Release(id) \/ Edit(id) \/ Complete(id) \/ Reopen(id) \/ Delete(id)
         \/ \E deps \in SUBSET (DOMAIN log.tasks) : SetDependencies(id, deps)
         \/ \E s \in {"pending", "in_progress"} : Reassign(id, s)
    \/ MessageSend \/ Wait \/ WaitReturns
    \/ StopLead \/ StartLead \/ Crash \/ Fork

Spec == Init /\ [][Next]_vars

-----------------------------------------------------------------------------
(* PROPERTIES                                                               *)

(* Whatever the tools append, and whatever a crash between two events of    *)
(* one call or a fork leaves in the log, the log folds again, so the board  *)
(* is never bricked; and a task that is not deleted waits only for tasks    *)
(* that can still be completed.                                             *)
BoardFolds ==
    /\ log.ok
    /\ \A id \in DOMAIN log.tasks : Task(id).status # "deleted" =>
         \A b \in Task(id).blockedBy : Task(b).status # "deleted"
==============================================================================
