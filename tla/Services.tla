------------------------------- MODULE Services --------------------------------
(***************************************************************************)
(* The services an agent uses side by side, each for any constants: the    *)
(* plugin registry (PluginRegistry, extended), the MCP supervisor, the     *)
(* tool pipeline, the core's scheduler and reload manager, subagents, the  *)
(* team board, processes, schedules, compaction and the two event stores   *)
(* (instances).  What they share with the agent (its log, its mailbox) is  *)
(* part of each model; they share no state with each other.  Their         *)
(* promises are stated here once; MCServices checks them on small          *)
(* instances, Stores_proofs, Sessions_proofs and Services_proofs prove     *)
(* them for every value of the constants.                                  *)
(***************************************************************************)
EXTENDS PluginRegistry, Integers

CONSTANTS
    Lists, Shared, MaxAttempts, FailOnStartup, MaxDials,                                  \* McpSupervisor
    PolicySessions, Tools, Modes, MaxToolCalls, MaxCommands,                              \* ToolPipeline
    Plugins, CoreOps, MaxCoreRequests, MaxTimers,                                         \* CoreServices
    MaxDepth, Members, Parallel, MaxSessions, MaxContinues, MaxRestarts,                  \* Subagents
    TeamNames, MaxMembers, MaxEvents, MaxForks, MaxLeadStops,                             \* TeamBoard
    ProcessOps, MaxJobs, MaxCalls, MaxLines,                                              \* Processes
    Delays, Every, Hour, MaxTime, MaxSchedules, MaxFailures, MaxStops, MaxGoals,          \* Schedules
    RetainTokens, CallCounts, MaxLogged, MaxNotes, MaxCrashes,                            \* Compaction
    Shapes, MinPacked, MaxPacked, MaxBytes, MaxStored, MaxBatch, MaxDamage, MaxDeletes, MaxPowerLoss,
    Files,                                                                                \* SqliteStore
    RecordKinds, MaxRecords, MaxRecordBatch, MaxMishaps                                   \* JsonlStore

VARIABLES
    thr, mu, conn, dials, up, connSet, snapshot, offer, changed, owner, disposers, failed, since,
    closed, stopping, reserved,
    pol, allowed, planMode, hosted, hooked, call, cmd, file,
    request, built, handles, reloadMu, appOwner, timer, subs,
    sess, registry, wait, turnCtx, run, restarts,
    board, events, forks, runtime, children, child, teamCall, stops,
    job, signalling, entry, shell, bash, term, send,
    now, schedule, deleting, disp, posted, deleted, accepted, faults, goal, goalSeq, goals, todo,
    surface, actor, owed, tx, wedged, notes, crashes,
    dbFile, open, verified, db, durable, plan, damage, deletes, powerLoss,
    frames, writer, ready, acked, unrolled, mishaps

Mcp == INSTANCE McpSupervisor
Pipeline == INSTANCE ToolPipeline WITH Sessions <- PolicySessions, MaxCalls <- MaxToolCalls
Core == INSTANCE CoreServices WITH
    Ops <- CoreOps, MaxRequests <- MaxCoreRequests, req <- request, owner <- appOwner
Agents == INSTANCE Subagents
Team == INSTANCE TeamBoard WITH
    Names <- TeamNames, MaxStops <- MaxLeadStops, log <- board, call <- teamCall
Procs == INSTANCE Processes WITH Ops <- ProcessOps, run <- bash
Reminders == INSTANCE Schedules WITH log <- schedule
Compacting == INSTANCE Compaction WITH
    Retain <- RetainTokens, Calls <- CallCounts, MaxEvents <- MaxLogged, log <- surface
Database == INSTANCE SqliteStore WITH MaxEvents <- MaxStored, file <- dbFile
Journal == INSTANCE JsonlStore WITH
    Kinds <- RecordKinds, MaxEvents <- MaxRecords, MaxBatch <- MaxRecordBatch, MaxFaults <- MaxMishaps,
    up <- ready, faults <- mishaps

(* The calls of the core that the model has; counts, delays and periods are *)
(* whole numbers; a terminal keeps at least one line (10000 in the code).   *)
ASSUME CoreAssumption ==
    /\ Plugins \in Nat
    /\ CoreOps \subseteq {"load", "unload", "reload", "reloadCurrent", "after", "cancel", "cancelOwner", "tick",
                         "subscribe", "unsubscribe", "remove", "publish"}
ASSUME MembersAssumption == Members \in Nat
ASSUME LinesAssumption == MaxLines \in Nat \ {0}
ASSUME SchedulesAssumption ==
    Delays \subseteq Nat /\ Every \subseteq Nat /\ MaxSchedules \in Nat /\ MaxTime \in Nat
ASSUME CompactionAssumption == CallCounts \subseteq Nat /\ RetainTokens \in Int
ASSUME StoresAssumption ==
    /\ {MinPacked, MaxPacked} \subseteq Nat \ {0} /\ MaxBatch \in Nat /\ MaxRecordBatch \in Nat
    /\ \A e \in Shapes : e = [kind |-> e.kind, key |-> e.key, text |-> e.text]

-----------------------------------------------------------------------------
(* PROPERTIES: those of the components, and PluginsAccounted of             *)
(* PluginRegistry.                                                          *)

(* McpSupervisor: a tool is listed only while the one generation in force   *)
(* is whole: no half-registered list survives a conflict or a lost server.  *)
WholeGeneration == Mcp!WholeGeneration

(* ToolPipeline: a tool runs only as the policy it was judged by permits.   *)
RunsAsPermitted == Pipeline!RunsAsPermitted

(* CoreServices: nothing acts after it was closed or cancelled: handles and *)
(* owners are closed once, none is leaked or used closed, and a cancelled   *)
(* timer never runs its callback.                                           *)
CoreSettled == Core!OwnersSettled /\ Core!CancelledNeverFires

(* Subagents: depths follow parentage, and a workflow says why it ended.    *)
ChildrenAccounted == Agents!DepthTrue /\ Agents!RunReason

(* TeamBoard: the board can be folded from the log whatever was written.    *)
BoardFolds == Team!BoardFolds

(* Processes: a caller is told of its own process what that process did: a  *)
(* killed job is not reported completed, a call of the persistent shell     *)
(* reads no other call's output, a terminal's waiter always gets a marker   *)
(* or the end.                                                              *)
ProcessesReported == Procs!JobOutcome /\ Procs!OwnOutput /\ Procs!MarkerWillCome

(* Schedules: a reminder is lost neither by a crash nor by a failed append. *)
ReminderKept == Reminders!ReminderKept

(* Compaction: no tool result is left on the surface without its call.      *)
ResultsKeepCalls == Compacting!ResultsKeepCalls

(* SqliteStore and JsonlStore: what was acknowledged reads back as written. *)
StoresReadBack == Database!ReadsAsWritten /\ Journal!AckedReadable
==============================================================================
