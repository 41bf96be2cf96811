------------------------------ MODULE MCServices ------------------------------
(***************************************************************************)
(* The services an agent uses, on small instances, beside one model stream.*)
(* As in MCGateway focus picks the one that moves, and a focus may look at *)
(* another instance of its module than the one the configuration gives     *)
(* Services.                                                               *)
(***************************************************************************)
EXTENDS Services

VARIABLES focus,
    proto, sent, server, lines, read, adapter, result, cut, chunks, asm, reply

servers == <<thr, mu, conn, dials, up, connSet, snapshot, offer, changed, owner, disposers, failed,
             since, closed, stopping, reserved>>
plugins == vars
pipeline == <<pol, allowed, planMode, hosted, hooked, call, cmd, file>>
core == <<request, built, handles, reloadMu, appOwner, timer, subs>>
agents == <<sess, registry, wait, turnCtx, run, restarts>>
team == <<board, events, forks, runtime, children, child, teamCall, stops>>
processes == <<job, signalling, entry, shell, bash, term, send>>
reminders == <<now, schedule, deleting, disp, posted, deleted, accepted, faults, goal, goalSeq,
               goals, todo>>
database == <<dbFile, open, verified, db, durable, plan, damage, deletes, powerLoss>>
journal == <<frames, writer, ready, acked, unrolled, mishaps>>
compaction == <<surface, actor, owed, tx, wedged, notes, crashes>>
stream == <<proto, sent, server, lines, read, adapter, result, cut, chunks, asm, reply>>
MCvars == <<focus, servers, plugins, pipeline, core, agents, team, processes, reminders, database, journal, compaction, stream>>

-----------------------------------------------------------------------------
(* Services.cfg has a server that is dialled again.  Its list changes       *)
(* twice, beside another server that takes "b"; and the first connection of *)
(* a server the session cannot start without.                               *)
ListChanges == INSTANCE McpSupervisor WITH
    Lists <- {{"a", "b"}, {"c"}}, Shared <- {"b"}, MaxAttempts <- 0, FailOnStartup <- FALSE, MaxDials <- 2

Startup == INSTANCE McpSupervisor WITH
    Lists <- {{"a", "b"}, {"c"}}, Shared <- {"b"}, MaxAttempts <- 1, FailOnStartup <- TRUE, MaxDials <- 1

(* Two requests of any kind; a plugin that is built in.  Three requests     *)
(* that race for one plugin's host are what the configuration gives the     *)
(* extended module.                                                         *)
Installs == INSTANCE PluginRegistry WITH
    Builtin <- FALSE, MaxRequests <- 2, MaxHosts <- 2, MaxReconnects <- 1,
    Ops <- {"reconcile", "reload", "disable", "enable", "install", "uninstall", "shutdown"}

Builtins == INSTANCE PluginRegistry WITH
    Builtin <- TRUE, MaxRequests <- 2, MaxHosts <- 2, MaxReconnects <- 1, Ops <- {"reload", "disable", "enable"}

(* Services.cfg has edits and commands beside a /permission command.  A     *)
(* call under review; the policy tools.                                     *)
Reviews == INSTANCE ToolPipeline WITH
    Sessions <- {"s1"}, Tools <- {"run_command", "exit_plan_mode"}, Modes <- {"auto"},
    MaxCalls <- 1, MaxCommands <- 2

Policies == INSTANCE ToolPipeline WITH
    Sessions <- {"s1"}, Modes <- {"plan"}, MaxCalls <- 2, MaxCommands <- 0,
    Tools <- {"run_command", "read_file", "replace_file_content", "set_sandbox_mode",
              "set_approval_policy", "set_permission_preset", "exit_plan_mode"}

(* Services.cfg has loads of two plugins.  Racing reloads; timers and       *)
(* subscriptions.                                                           *)
Reloads == INSTANCE CoreServices WITH
    Plugins <- 2, Ops <- {"load", "unload", "reload", "reloadCurrent"},
    MaxRequests <- 3, MaxTimers <- 0, req <- request, owner <- appOwner

Timers == INSTANCE CoreServices WITH
    Plugins <- 2, MaxRequests <- 3, MaxTimers <- 2, req <- request, owner <- appOwner,
    Ops <- {"after", "cancel", "cancelOwner", "tick", "subscribe", "unsubscribe", "remove", "publish"}

(* Services.cfg has a chain of children and a restart.  Continuations of    *)
(* one child; a workflow of two agents.                                     *)
Continued == INSTANCE Subagents WITH
    MaxDepth <- 1, Members <- 0, Parallel <- FALSE, MaxSessions <- 2, MaxContinues <- 2, MaxRestarts <- 1

ParallelRun == INSTANCE Subagents WITH
    MaxDepth <- 2, Members <- 2, Parallel <- TRUE, MaxSessions <- 3, MaxContinues <- 0, MaxRestarts <- 0

SerialRun == INSTANCE Subagents WITH
    MaxDepth <- 2, Members <- 2, Parallel <- FALSE, MaxSessions <- 3, MaxContinues <- 0, MaxRestarts <- 0

(* Services.cfg has a board of up to five records.  One whose lead stops,   *)
(* crashes or forks.                                                        *)
Leads == INSTANCE TeamBoard WITH
    Names <- {"n1"}, MaxMembers <- 2, MaxEvents <- 4, MaxForks <- 1, MaxStops <- 1,
    log <- board, call <- teamCall

(* Services.cfg has jobs.  The two other kinds of processes.                *)
Shells == INSTANCE Processes WITH
    Ops <- {"shell"}, MaxJobs <- 0, MaxCalls <- 3, MaxLines <- 2, run <- bash

Terminals == INSTANCE Processes WITH
    Ops <- {"terminal"}, MaxJobs <- 0, MaxCalls <- 2, MaxLines <- 2, run <- bash

(* Services.cfg has two reminders through failed appends and a crash.       *)
(* Goals and todo lists.                                                    *)
Goals == INSTANCE Schedules WITH
    Delays <- {1, 2}, Every <- {2}, Hour <- 1, MaxTime <- 1, MaxSchedules <- 0, MaxFailures <- 0,
    MaxStops <- 1, MaxGoals <- 3, log <- schedule

(* Services.cfg packs runs of deltas.  What a crash or damage leaves of the *)
(* file, which may be another program's, and of a session that is deleted.  *)
TurnEnd == [kind |-> "turn/end", key |-> 0, text |-> 1]
TextDelta == [kind |-> "text-delta", key |-> 1, text |-> 1]
LongDelta == [kind |-> "text-delta", key |-> 1, text |-> 2]
CallDelta == [kind |-> "tool-call-delta", key |-> 1, text |-> 1]
MCShapes == {TurnEnd, TextDelta, LongDelta, CallDelta}

Damaged == INSTANCE SqliteStore WITH
    Shapes <- {TurnEnd, TextDelta},
    MaxEvents <- 3, MaxBatch <- 2, MaxDamage <- 1, MaxDeletes <- 0, MaxPowerLoss <- 1, Files <- {"ours"},
    file <- dbFile

Deleted == INSTANCE SqliteStore WITH
    Shapes <- {TurnEnd, TextDelta},
    MaxEvents <- 2, MaxBatch <- 2, MaxDamage <- 1, MaxDeletes <- 1, MaxPowerLoss <- 1,
    Files <- {"empty", "ours", "unversioned", "otherVersion", "otherApplication", "extraObject"},
    file <- dbFile

(* Interleaved deltas of two blocks; one block after another.               *)
Completions == INSTANCE StreamAdapter WITH
    Protocols <- {"completions"}, Parts <- <<"text", "tool-1">>, MaxDeltas <- 3, LineCap <- 1, ChunkCap <- 1

Blocks == INSTANCE StreamAdapter WITH
    Protocols <- {"anthropic", "responses"}, Parts <- <<"text", "tool-1">>, MaxDeltas <- 1,
    LineCap <- 1, ChunkCap <- 1

-----------------------------------------------------------------------------
MCInit ==
    /\ focus \in {"mcp", "mcpLists", "mcpStartup", "plugin", "pluginRaces", "builtin", "tools",
                  "reviews", "policies", "core", "loads", "timers", "children", "continued",
                  "parallel", "series", "board", "team", "jobs", "shells", "terminals",
                  "reminders", "goals", "packing", "damage", "deleted", "journal", "compaction",
                  "completions", "blocks"}
    /\ IF focus = "mcpLists" THEN ListChanges!Init
       ELSE IF focus = "mcpStartup" THEN Startup!Init
       ELSE Mcp!Init
    /\ focus \notin {"mcp", "mcpLists", "mcpStartup"} => offer = {"a", "b"}
    /\ IF focus = "pluginRaces" THEN Init
       ELSE IF focus = "builtin" THEN Builtins!Init
       ELSE Installs!Init
    /\ focus \notin {"plugin", "pluginRaces", "builtin"} => files = 0 /\ saved = FALSE /\ blocked = FALSE
    /\ IF focus = "reviews" THEN Reviews!Init
       ELSE IF focus = "policies" THEN Policies!Init
       ELSE Pipeline!Init
    /\ focus \notin {"tools", "reviews", "policies"} => hosted /\ hooked = {"pass"}
    /\ IF focus = "loads" THEN Core!Init
       ELSE IF focus = "timers" THEN Timers!Init
       ELSE Reloads!Init
    /\ IF focus = "continued" THEN Continued!Init
       ELSE IF focus = "parallel" THEN ParallelRun!Init
       ELSE IF focus = "series" THEN SerialRun!Init
       ELSE Agents!Init
    /\ IF focus = "team" THEN Leads!Init ELSE Team!Init
    /\ IF focus = "shells" THEN Shells!Init
       ELSE IF focus = "terminals" THEN Terminals!Init
       ELSE Procs!Init
    /\ IF focus = "goals" THEN Goals!Init ELSE Reminders!Init
    /\ IF focus = "damage" THEN Damaged!Init
       ELSE IF focus = "deleted" THEN Deleted!Init
       ELSE Database!Init
    /\ focus \notin {"packing", "damage", "deleted"} => dbFile = "ours"
    /\ Journal!Init
    /\ Compacting!Init
    /\ IF focus = "blocks" THEN Blocks!Init ELSE Completions!Init
    /\ focus \notin {"completions", "blocks"} => proto = "completions"

MCNext ==
    \/ /\ \/ focus = "mcp" /\ Mcp!Next
          \/ focus = "mcpLists" /\ ListChanges!Next
          \/ focus = "mcpStartup" /\ Startup!Next
       /\ UNCHANGED <<focus, plugins, pipeline, core, agents, team, processes, reminders, database,
                        journal, compaction, stream>>
    \/ /\ \/ focus = "plugin" /\ Installs!Next
          \/ focus = "pluginRaces" /\ Next
          \/ focus = "builtin" /\ Builtins!Next
       /\ UNCHANGED <<focus, servers, pipeline, core, agents, team, processes, reminders, database,
                        journal, compaction, stream>>
    \/ /\ \/ focus = "tools" /\ Pipeline!Next
          \/ focus = "reviews" /\ Reviews!Next
          \/ focus = "policies" /\ Policies!Next
       /\ UNCHANGED <<focus, servers, plugins, core, agents, team, processes, reminders, database,
                        journal, compaction, stream>>
    \/ /\ \/ focus = "core" /\ Reloads!Next
          \/ focus = "loads" /\ Core!Next
          \/ focus = "timers" /\ Timers!Next
       /\ UNCHANGED <<focus, servers, plugins, pipeline, agents, team, processes, reminders, database,
                        journal, compaction, stream>>
    \/ /\ \/ focus = "children" /\ Agents!Next
          \/ focus = "continued" /\ Continued!Next
          \/ focus = "parallel" /\ ParallelRun!Next
          \/ focus = "series" /\ SerialRun!Next
       /\ UNCHANGED <<focus, servers, plugins, pipeline, core, team, processes, reminders, database,
                        journal, compaction, stream>>
    \/ /\ \/ focus = "board" /\ Team!Next
          \/ focus = "team" /\ Leads!Next
       /\ UNCHANGED <<focus, servers, plugins, pipeline, core, agents, processes, reminders, database,
                        journal, compaction, stream>>
    \/ /\ \/ focus = "jobs" /\ Procs!Next
          \/ focus = "shells" /\ Shells!Next
          \/ focus = "terminals" /\ Terminals!Next
       /\ UNCHANGED <<focus, servers, plugins, pipeline, core, agents, team, reminders, database,
                        journal, compaction, stream>>
    \/ /\ \/ focus = "reminders" /\ Reminders!Next
          \/ focus = "goals" /\ Goals!Next
       /\ UNCHANGED <<focus, servers, plugins, pipeline, core, agents, team, processes, database,
                        journal, compaction, stream>>
    \/ /\ \/ focus = "packing" /\ Database!Next
          \/ focus = "damage" /\ Damaged!Next
          \/ focus = "deleted" /\ Deleted!Next
       /\ UNCHANGED <<focus, servers, plugins, pipeline, core, agents, team, processes, reminders,
                        journal, compaction, stream>>
    \/ /\ focus = "journal" /\ Journal!Next
       /\ UNCHANGED <<focus, servers, plugins, pipeline, core, agents, team, processes, reminders,
                        database, compaction, stream>>
    \/ /\ focus = "compaction" /\ Compacting!Next
       /\ UNCHANGED <<focus, servers, plugins, pipeline, core, agents, team, processes, reminders,
                        database, journal, stream>>
    \/ /\ \/ focus = "completions" /\ Completions!Next
          \/ focus = "blocks" /\ Blocks!Next
       /\ UNCHANGED <<focus, servers, plugins, pipeline, core, agents, team, processes, reminders,
                        database, journal, compaction>>

MCSpec == MCInit /\ [][MCNext]_MCvars

-----------------------------------------------------------------------------
(* PROPERTIES: those of Services, and of the stream where it moves.         *)

(* StreamAdapter: a reply taken for whole is what the provider said.        *)
ReplyWhole ==
    /\ focus = "completions" => Completions!ReplyWhole
    /\ focus = "blocks" => Blocks!ReplyWhole
==============================================================================
