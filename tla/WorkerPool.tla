----------------------------- MODULE WorkerPool ------------------------------
(***************************************************************************)
(* SessionWorkerPool of backend/core/worker.go: one FIFO queue and one     *)
(* consumer goroutine per session, a global concurrency limit, cancelling  *)
(* by owner or session, and Close.  Each action is one critical section    *)
(* (p.mu, q.mu or a task's cancelMu) or one channel operation; between     *)
(* them submitters, consumers, cancellers and the closer interleave.       *)
(***************************************************************************)
EXTENDS Naturals, Sequences, FiniteSets, Functions

CONSTANTS
    Tasks,          \* each task is the subject of at most one Submit call
    Sessions, Owners,
    SessionOf, OwnerOf,   \* [Tasks -> Sessions], [Tasks -> Owners]
    SyncTasks,      \* tasks submitted through SubmitSync
    Limit,          \* capacity of p.limit
    Cancels         \* cancelWhere calls, each made at most once

ASSUME TaskAssumption ==
    /\ SessionOf \in [Tasks -> Sessions] /\ OwnerOf \in [Tasks -> Owners]
    /\ SyncTasks \subseteq Tasks
ASSUME LimitAssumption == Limit \in Nat \ {0}

NoTask == "no task"
ASSUME NoTaskAssumption == NoTask \notin Tasks

VARIABLES
    submit,     \* [Tasks -> where the Submit / SubmitSync call of the task is]
    first,      \* tasks whose Submit found no consumer: theirs to spawn
    result,     \* [Tasks -> what the call returned]
    tracked,    \* p.tasks
    spawned,    \* p.spawned
    queue,      \* [Sessions -> Seq(Tasks)]
    wake,       \* sessions whose wake token is in its channel
    closed,     \* p.closed and closeCh
    slots,      \* tokens in p.limit
    consumer,   \* [Tasks -> where the consumer spawned by that Submit is]
    current,    \* [Tasks -> the task that consumer has popped]
    cancelled,  \* tasks marked cancelled, under their cancelMu
    armed,      \* tasks whose cancelFunc is registered
    ctxDone,    \* tasks whose context is cancelled
    done,       \* tasks whose done channel is closed
    cancel,     \* [Cancels -> where the call is]
    matched,    \* [Cancels -> the tasks it matched]
    sweep,      \* [Cancels -> the queues it still has to sweep]
    mark,       \* [Cancels -> the tasks it still has to mark and settle]
    started,    \* history: tasks whose function was called
    before      \* history: [Tasks -> tasks of the session already submitted]

submits == <<submit, first, result, before>>
queues == <<spawned, queue, wake>>
consumers == <<slots, consumer, current, started>>
cancels == <<cancel, matched, sweep, mark>>
vars == <<submits, tracked, queues, closed, consumers, cancelled, armed, ctxDone,
          done, cancels>>

SubmitStages == {"new", "registered", "queued", "lookup", "waiting", "returned"}
Results == {"none", "id", "nil", "pending", "closed"}
ConsumerStages == {"none", "wait", "drain", "check", "acquire", "arm", "run",
                   "disarm", "release", "settle", "exit"}
HoldingStages == {"arm", "run", "disarm", "release"}
TaskStages == {"check", "acquire", "settle"} \cup HoldingStages

InSession(s) == {t \in Tasks : SessionOf[t] = s}
Running == {current[c] : c \in {d \in Tasks : consumer[d] = "run"}}

Init ==
    /\ submit = [t \in Tasks |-> "new"]
    /\ first = {}
    /\ result = [t \in Tasks |-> "none"]
    /\ before = [t \in Tasks |-> {}]
    /\ tracked = {} /\ spawned = {} /\ wake = {}
    /\ queue = [s \in Sessions |-> <<>>]
    /\ closed = FALSE
    /\ slots = 0
    /\ consumer = [t \in Tasks |-> "none"]
    /\ current = [t \in Tasks |-> NoTask]
    /\ started = {}
    /\ cancelled = {} /\ armed = {} /\ ctxDone = {} /\ done = {}
    /\ cancel = [k \in Cancels |-> "new"]
    /\ matched = [k \in Cancels |-> {}]
    /\ sweep = [k \in Cancels |-> {}]
    /\ mark = [k \in Cancels |-> {}]

-----------------------------------------------------------------------------
(* SUBMITTERS *)

SubmitTo(t, stage) == submit' = [submit EXCEPT ![t] = stage]
ReturnWith(t, r) == SubmitTo(t, "returned") /\ result' = [result EXCEPT ![t] = r]

(* Wrong variant: the claim on the consumer is not recorded.                *)
RegisterForgetsClaim(t) ==
    /\ submit[t] = "new" /\ ~closed
    /\ SubmitTo(t, "registered")
    /\ tracked' = tracked \cup {t}
    /\ first' = IF SessionOf[t] \in spawned THEN first ELSE first \cup {t}
    /\ UNCHANGED <<result, before, queues, closed, consumers, cancelled, armed, ctxDone,
                   done, cancels>>

(* Submit, under p.mu: refuse when closed, else track the task, create its  *)
(* session's queue and claim the consumer if there is none.                 *)
Register(t) ==
    /\ submit[t] = "new"
    /\ IF closed
       THEN /\ ReturnWith(t, "closed")
            /\ UNCHANGED <<first, before, tracked, spawned>>
       ELSE /\ SubmitTo(t, "registered")
            /\ tracked' = tracked \cup {t}
            /\ first' = IF SessionOf[t] \in spawned THEN first ELSE first \cup {t}
            /\ spawned' = spawned \cup {SessionOf[t]}
            /\ before' = [before EXCEPT ![t] =
                    {u \in InSession(SessionOf[t]) : submit[u] \in {"lookup", "waiting", "returned"}}]
            /\ UNCHANGED result
    /\ UNCHANGED <<queue, wake, closed, consumers, cancelled, armed, ctxDone, done, cancels>>

(* Under q.mu.                                                              *)
Enqueue(t) ==
    /\ submit[t] = "registered"
    /\ SubmitTo(t, "queued")
    /\ queue' = [queue EXCEPT ![SessionOf[t]] = Append(@, t)]
    /\ UNCHANGED <<first, result, before, tracked, spawned, wake, closed, consumers,
                   cancelled, armed, ctxDone, done, cancels>>

(* Wrong variant: only the first task of a session posts a wake token.      *)
SpawnAndWakeFirst(t) ==
    /\ submit[t] = "queued"
    /\ IF t \in first
       THEN consumer' = [consumer EXCEPT ![t] = "wait"] /\ wake' = wake \cup {SessionOf[t]}
       ELSE UNCHANGED <<consumer, wake>>
    /\ IF t \in SyncTasks THEN SubmitTo(t, "lookup") /\ UNCHANGED result
                          ELSE ReturnWith(t, "id")
    /\ UNCHANGED <<first, before, tracked, spawned, queue, closed, slots, current, started,
                   cancelled, armed, ctxDone, done, cancels>>

(* go consume for the first task, then the non-blocking wake token.         *)
SpawnAndWake(t) ==
    /\ submit[t] = "queued"
    /\ consumer' = IF t \in first THEN [consumer EXCEPT ![t] = "wait"] ELSE consumer
    /\ wake' = wake \cup {SessionOf[t]}
    /\ IF t \in SyncTasks THEN SubmitTo(t, "lookup") /\ UNCHANGED result
                          ELSE ReturnWith(t, "id")
    /\ UNCHANGED <<first, before, tracked, spawned, queue, closed, slots, current, started,
                   cancelled, armed, ctxDone, done, cancels>>

(* SubmitSync looks its task up again: untracked means already settled.     *)
Lookup(t) ==
    /\ submit[t] = "lookup"
    /\ IF t \in tracked THEN SubmitTo(t, "waiting") /\ UNCHANGED result
                        ELSE ReturnWith(t, "nil")
    /\ UNCHANGED <<first, before, tracked, queues, closed, consumers, cancelled, armed,
                   ctxDone, done, cancels>>

(* The wait: done, closeCh or the caller's own context.                     *)
Await(t) ==
    /\ submit[t] = "waiting"
    /\ \/ t \in done /\ ReturnWith(t, IF t \in cancelled THEN "pending" ELSE "nil")
       \/ closed /\ ReturnWith(t, "closed")
    /\ UNCHANGED <<first, before, tracked, queues, closed, consumers, cancelled, armed,
                   ctxDone, done, cancels>>

CallerGivesUp(t) ==
    /\ submit[t] = "waiting"
    /\ ReturnWith(t, "pending")
    /\ UNCHANGED <<first, before, tracked, queues, closed, consumers, cancelled, armed,
                   ctxDone, done, cancels>>

-----------------------------------------------------------------------------
(* CONSUMERS: consumer c serves the session of the task that spawned it *)

ConsumerTo(c, stage) == consumer' = [consumer EXCEPT ![c] = stage]

(* consume returns, only ever from a closed pool; its defer gives the       *)
(* session's spawned flag back.                                             *)
ExitConsumer(c) == ConsumerTo(c, "exit") /\ spawned' = spawned \ {SessionOf[c]}

(* Wrong variant: an idle consumer waits for a token only.                  *)
WaitWakeOnly(c) ==
    /\ consumer[c] = "wait"
    /\ SessionOf[c] \in wake
    /\ ConsumerTo(c, "drain")
    /\ wake' = wake \ {SessionOf[c]}
    /\ UNCHANGED <<submits, tracked, spawned, queue, closed, slots, current, started,
                   cancelled, armed, ctxDone, done, cancels>>

WaitWake(c) ==
    /\ consumer[c] = "wait"
    /\ \/ closed /\ ExitConsumer(c) /\ UNCHANGED wake
       \/ /\ SessionOf[c] \in wake
          /\ ConsumerTo(c, "drain")
          /\ wake' = wake \ {SessionOf[c]}
          /\ UNCHANGED spawned
    /\ UNCHANGED <<submits, tracked, queue, closed, slots, current, started,
                   cancelled, armed, ctxDone, done, cancels>>

(* Wrong variant: the queue is served last in, first out.                   *)
PopLast(c) ==
    /\ consumer[c] = "drain"
    /\ LET q == queue[SessionOf[c]]
       IN  IF q = <<>>
           THEN ConsumerTo(c, "wait") /\ UNCHANGED <<queue, current>>
           ELSE /\ ConsumerTo(c, "check")
                /\ current' = [current EXCEPT ![c] = q[Len(q)]]
                /\ queue' = [queue EXCEPT ![SessionOf[c]] = SubSeq(q, 1, Len(q) - 1)]
    /\ UNCHANGED <<submits, tracked, spawned, wake, closed, slots, started, cancelled,
                   armed, ctxDone, done, cancels>>

Pop(c) ==
    /\ consumer[c] = "drain"
    /\ LET q == queue[SessionOf[c]]
       IN  IF q = <<>>
           THEN ConsumerTo(c, "wait") /\ UNCHANGED <<queue, current>>
           ELSE /\ ConsumerTo(c, "check")
                /\ current' = [current EXCEPT ![c] = Head(q)]
                /\ queue' = [queue EXCEPT ![SessionOf[c]] = Tail(q)]
    /\ UNCHANGED <<submits, tracked, spawned, wake, closed, slots, started, cancelled,
                   armed, ctxDone, done, cancels>>

(* runTask: a cancelled task or a closed pool skips the execution.          *)
Check(c) ==
    /\ consumer[c] = "check"
    /\ ConsumerTo(c, IF current[c] \in cancelled \/ closed THEN "settle" ELSE "acquire")
    /\ UNCHANGED <<submits, tracked, queues, closed, slots, current, started, cancelled,
                   armed, ctxDone, done, cancels>>

Acquire(c) ==
    /\ consumer[c] = "acquire"
    /\ slots < Limit
    /\ slots' = slots + 1
    /\ ConsumerTo(c, "arm")
    /\ UNCHANGED <<submits, tracked, queues, closed, current, started, cancelled,
                   armed, ctxDone, done, cancels>>

(* Wrong variant: the second look at the cancel mark is missing.            *)
ArmUnchecked(c) ==
    /\ consumer[c] = "arm"
    /\ ConsumerTo(c, "run")
    /\ armed' = armed \cup {current[c]}
    /\ started' = started \cup {current[c]}
    /\ UNCHANGED <<submits, tracked, queues, closed, slots, current, cancelled, ctxDone,
                   done, cancels>>

(* Wrong variant: a task cancelled while it waited for a slot keeps it.     *)
ArmLeaksSlot(c) ==
    /\ consumer[c] = "arm"
    /\ IF current[c] \in cancelled
       THEN ConsumerTo(c, "settle") /\ UNCHANGED <<armed, started>>
       ELSE /\ ConsumerTo(c, "run")
            /\ armed' = armed \cup {current[c]}
            /\ started' = started \cup {current[c]}
    /\ UNCHANGED <<submits, tracked, queues, closed, slots, current, cancelled, ctxDone,
                   done, cancels>>

(* Under cancelMu: look again, register the cancelFunc, call the function.  *)
Arm(c) ==
    /\ consumer[c] = "arm"
    /\ IF current[c] \in cancelled
       THEN ConsumerTo(c, "release") /\ UNCHANGED <<armed, started>>
       ELSE /\ ConsumerTo(c, "run")
            /\ armed' = armed \cup {current[c]}
            /\ started' = started \cup {current[c]}
    /\ UNCHANGED <<submits, tracked, queues, closed, slots, current, cancelled, ctxDone,
                   done, cancels>>

(* The watcher goroutine: closing the pool cancels the running task.        *)
Watch(c) ==
    /\ consumer[c] = "run" /\ closed
    /\ current[c] \notin ctxDone
    /\ ctxDone' = ctxDone \cup {current[c]}
    /\ UNCHANGED <<submits, tracked, queues, closed, consumers, cancelled, armed, done, cancels>>

(* The task's deadline passes while it runs.                                *)
Deadline(c) ==
    /\ consumer[c] = "run"
    /\ current[c] \notin ctxDone
    /\ ctxDone' = ctxDone \cup {current[c]}
    /\ UNCHANGED <<submits, tracked, queues, closed, consumers, cancelled, armed, done, cancels>>

(* The function returns or panics (recovered).                              *)
Return(c) ==
    /\ consumer[c] = "run"
    /\ ConsumerTo(c, "disarm")
    /\ UNCHANGED <<submits, tracked, queues, closed, slots, current, started, cancelled,
                   armed, ctxDone, done, cancels>>

Disarm(c) ==
    /\ consumer[c] = "disarm"
    /\ armed' = armed \ {current[c]}
    /\ ctxDone' = ctxDone \cup {current[c]}
    /\ ConsumerTo(c, "release")
    /\ UNCHANGED <<submits, tracked, queues, closed, slots, current, started, cancelled,
                   done, cancels>>

ReleaseSlot(c) ==
    /\ consumer[c] = "release"
    /\ slots' = slots - 1
    /\ ConsumerTo(c, "settle")
    /\ UNCHANGED <<submits, tracked, queues, closed, current, started, cancelled, armed,
                   ctxDone, done, cancels>>

(* runTask's outer defer, then the look at closeCh.                         *)
Settle(c) ==
    /\ consumer[c] = "settle"
    /\ tracked' = tracked \ {current[c]}
    /\ done' = done \cup {current[c]}
    /\ current' = [current EXCEPT ![c] = NoTask]
    /\ IF closed THEN ExitConsumer(c) ELSE ConsumerTo(c, "drain") /\ UNCHANGED spawned
    /\ UNCHANGED <<submits, queue, wake, closed, slots, started, cancelled, armed, ctxDone, cancels>>

-----------------------------------------------------------------------------
(* CANCELLERS AND CLOSE *)

(* cancelWhere, under p.mu: untrack what CancelOwner or CancelSession       *)
(* matches.                                                                 *)
CancelMatch(k, match) ==
    /\ cancel[k] = "new"
    /\ cancel' = [cancel EXCEPT ![k] = "sweep"]
    /\ matched' = [matched EXCEPT ![k] = tracked \cap match]
    /\ mark' = [mark EXCEPT ![k] = tracked \cap match]
    /\ sweep' = [sweep EXCEPT ![k] = {SessionOf[t] : t \in tracked \cap match}]
    /\ tracked' = tracked \ match
    /\ UNCHANGED <<submits, queues, closed, consumers, cancelled, armed, ctxDone, done>>

CancelOwner(k) == \E o \in Owners : CancelMatch(k, {t \in Tasks : OwnerOf[t] = o})
CancelSession(k) == \E s \in Sessions : CancelMatch(k, InSession(s))

(* The loop that rebuilds a queue: kept[n] is what it kept of the first n.  *)
Without(q, gone) ==
    LET kept[n \in 0 .. Len(q)] ==
            IF n = 0 THEN <<>>
            ELSE IF q[n] \in gone THEN kept[n - 1] ELSE Append(kept[n - 1], q[n])
    IN  kept[Len(q)]

(* One queue at a time, under its q.mu.                                     *)
CancelSweep(k) ==
    /\ cancel[k] = "sweep"
    /\ IF sweep[k] = {}
       THEN /\ cancel' = [cancel EXCEPT ![k] = "mark"]
            /\ UNCHANGED <<queue, sweep>>
       ELSE \E s \in sweep[k] :
            /\ queue' = [queue EXCEPT ![s] = Without(@, matched[k])]
            /\ sweep' = [sweep EXCEPT ![k] = @ \ {s}]
            /\ UNCHANGED cancel
    /\ UNCHANGED <<submits, tracked, spawned, wake, closed, consumers, cancelled, armed,
                   ctxDone, done, matched, mark>>

(* Wrong variant: a running task is settled but not notified.               *)
CancelMarkSilent(k) ==
    /\ cancel[k] = "mark"
    /\ IF mark[k] = {}
       THEN /\ cancel' = [cancel EXCEPT ![k] = "returned"]
            /\ UNCHANGED <<cancelled, armed, done, mark>>
       ELSE \E t \in mark[k] :
            /\ cancelled' = cancelled \cup {t}
            /\ armed' = armed \ {t}
            /\ done' = done \cup {t}
            /\ mark' = [mark EXCEPT ![k] = @ \ {t}]
            /\ UNCHANGED cancel
    /\ UNCHANGED <<submits, tracked, queues, closed, consumers, ctxDone, matched, sweep>>

(* One task at a time, under its cancelMu: mark, notify, settle.            *)
CancelMark(k) ==
    /\ cancel[k] = "mark"
    /\ IF mark[k] = {}
       THEN /\ cancel' = [cancel EXCEPT ![k] = "returned"]
            /\ UNCHANGED <<cancelled, ctxDone, armed, done, mark>>
       ELSE \E t \in mark[k] :
            /\ cancelled' = cancelled \cup {t}
            /\ ctxDone' = IF t \in armed THEN ctxDone \cup {t} ELSE ctxDone
            /\ armed' = armed \ {t}
            /\ done' = done \cup {t}
            /\ mark' = [mark EXCEPT ![k] = @ \ {t}]
            /\ UNCHANGED cancel
    /\ UNCHANGED <<submits, tracked, queues, closed, consumers, matched, sweep>>

Close ==
    /\ ~closed
    /\ closed' = TRUE
    /\ UNCHANGED <<submits, tracked, queues, consumers, cancelled, armed, ctxDone, done, cancels>>

-----------------------------------------------------------------------------
Submitter(t) == Register(t) \/ Enqueue(t) \/ SpawnAndWake(t) \/ Lookup(t) \/ Await(t)
Consumer(c) ==
    \/ WaitWake(c) \/ Pop(c) \/ Check(c) \/ Acquire(c) \/ Arm(c) \/ Watch(c)
    \/ Disarm(c) \/ ReleaseSlot(c) \/ Settle(c)
Canceller(k) == CancelSweep(k) \/ CancelMark(k)

Next ==
    \/ \E t \in Tasks : Submitter(t) \/ CallerGivesUp(t) \/ Consumer(t) \/ Deadline(t) \/ Return(t)
    \/ \E k \in Cancels : CancelOwner(k) \/ CancelSession(k) \/ Canceller(k)
    \/ Close

Spec == Init /\ [][Next]_vars

(* The runtime schedules every goroutine inside the pool.  A task's         *)
(* function is trusted with one thing only: it returns once its context is  *)
(* cancelled.                                                               *)
FairSpec ==
    /\ Spec
    /\ \A t \in Tasks :
          /\ WF_vars(Enqueue(t) \/ SpawnAndWake(t) \/ Lookup(t) \/ Await(t))
          /\ SF_vars(Consumer(t))
          /\ WF_vars(Return(t) /\ current[t] \in ctxDone)
    /\ \A k \in Cancels : WF_vars(Canceller(k))

-----------------------------------------------------------------------------
(* PROPERTIES *)

(* Every variable has its type, and no more than Limit slots are taken.     *)
TypeOK ==
    /\ submit \in [Tasks -> SubmitStages]
    /\ result \in [Tasks -> Results]
    /\ before \in [Tasks -> SUBSET Tasks]
    /\ first \subseteq Tasks /\ tracked \subseteq Tasks
    /\ spawned \subseteq Sessions /\ wake \subseteq Sessions
    /\ queue \in [Sessions -> Seq(Tasks)]
    /\ closed \in BOOLEAN
    /\ slots \in 0 .. Limit
    /\ consumer \in [Tasks -> ConsumerStages]
    /\ current \in [Tasks -> Tasks \cup {NoTask}]
    /\ started \subseteq Tasks
    /\ cancelled \subseteq Tasks /\ armed \subseteq Tasks
    /\ ctxDone \subseteq Tasks /\ done \subseteq Tasks
    /\ cancel \in [Cancels -> {"new", "sweep", "mark", "returned"}]
    /\ matched \in [Cancels -> SUBSET Tasks] /\ mark \in [Cancels -> SUBSET Tasks]
    /\ sweep \in [Cancels -> SUBSET Sessions]

(* The tasks of one session run one at a time: whatever the order in which  *)
(* concurrent Submit calls claim, enqueue and spawn, no two consumers ever  *)
(* have a task of one session in hand, waiting for a slot or running.       *)
SerialPerSession ==
    \A c, d \in Tasks :
        consumer[c] \in TaskStages /\ consumer[d] \in TaskStages /\ SessionOf[c] = SessionOf[d]
            => c = d

(* The tasks of one session run in the order of their Submit calls: when a  *)
(* task runs, none that had been submitted before its own Submit began is   *)
(* still queued or in a consumer's hands.                                   *)
SubmissionOrder ==
    \A t \in Running : \A u \in before[t] \ {t} :
        /\ u \notin Range(queue[SessionOf[u]])
        /\ \A c \in Tasks : current[c] # u

(* The quota is neither leaked nor returned twice, on any path through      *)
(* runTask: the tokens in p.limit are the consumers that hold one.          *)
SlotsExact == slots = Cardinality({c \in Tasks : consumer[c] \in HoldingStages})

(* When CancelOwner or CancelSession has returned, each task it matched is  *)
(* settled, and if it still runs, or ever starts, its context is cancelled, *)
(* wherever between Submit and runTask the call caught it.                  *)
CancelEffective ==
    \A k \in Cancels : cancel[k] = "returned" =>
        \A t \in matched[k] : t \in cancelled /\ t \in done /\ (t \in Running => t \in ctxDone)

(* No wake-up is lost: a queued task of an open pool has a token waiting,   *)
(* a submitter about to post one, or a consumer that will look at the queue *)
(* again before it sleeps.                                                  *)
NoLostWakeup ==
    \A s \in Sessions : ~closed /\ queue[s] # <<>> =>
        \/ s \in wake
        \/ \E t \in InSession(s) : submit[t] = "queued"
        \/ \E c \in InSession(s) : consumer[c] \in TaskStages \cup {"drain"}

(* What the scheduler document promises of SubmitSync: a waiter of a task   *)
(* that was cancelled, or that Close kept from running, gets an error; nil  *)
(* means that the function was called.                                      *)
NilMeansRan == \A t \in SyncTasks : result[t] = "nil" => t \in started

(* Close drains the pool: every consumer exits and every Submit and         *)
(* SubmitSync call returns, if the functions heed their contexts.           *)
CloseDrains == closed ~>
    [](\A t \in Tasks : consumer[t] \in {"none", "exit"} /\ submit[t] \in {"new", "returned"})

(* A cancelled task does not run for ever, if it heeds its context.         *)
CancelStops == \A t \in Tasks : t \in cancelled ~> t \notin Running
==============================================================================
