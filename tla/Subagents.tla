------------------------------ MODULE Subagents -------------------------------
(***************************************************************************)
(* The subagent manager (backend/pkg/subagent/manager.go) and the workflow *)
(* runner that drives it (pkg/workflow/workflow.go, tools/workflow_tool.go *)
(* ).  A session's turn invokes a child agent and waits for its turn/end,  *)
(* a timeout, its own cancellation or the child's end; other callers may   *)
(* continue a child meanwhile.  A stopped agent unwinds its turn on its    *)
(* own and may still begin a tool call.  After a restart of the process    *)
(* the registry is empty and sessions are resumed from the store.          *)
(*                                                                         *)
(* Sessions are numbered in the order they are created; session 1 is the   *)
(* user's.  The text a child returns is left out.                          *)
(***************************************************************************)
EXTENDS Naturals, Sequences, FiniteSets

CONSTANTS
    MaxDepth,       \* MaxDepth of the manager
    Members,        \* agents of the workflow the user's session may run
    Parallel,       \* Workflow.Parallel
    MaxSessions,    \* bound: sessions
    MaxContinues,   \* bound: continuations
    MaxRestarts     \* bound: restarts of the process

VARIABLES
    sess,       \* sessions: [parent, depth, alive, turning, inbox, stored]
    registry,   \* m.subagents: children that are listed
    wait,       \* calls of invoke_subagent and ContinueSubagent: [by, child, at, end, member]
    turnCtx,    \* the user's turn: "live" or "cancelled"
    run,        \* the workflow run: [at, results, begun, spawning, stop]
    restarts

vars == <<sess, registry, wait, turnCtx, run, restarts>>

Sessions == DOMAIN sess
Waits == DOMAIN wait
Waiting(s) == \E w \in Waits : wait[w].by = s /\ wait[w].at \notin {"done", "lost"}
NoRun == [at |-> "none", results |-> <<>>, begun |-> {}, spawning |-> {}, stop |-> ""]

Init ==
    /\ sess = <<[parent |-> 0, depth |-> 0, alive |-> TRUE, turning |-> TRUE, inbox |-> 0, stored |-> TRUE]>>
    /\ registry = {} /\ wait = <<>> /\ turnCtx = "live" /\ run = NoRun /\ restarts = 0

-----------------------------------------------------------------------------
(* Wrong variant: the depth of a parent that left the registry is not read  *)
(* back from its stored header.                                             *)
ParentDepthInMemory(s) == IF s \in registry THEN sess[s].depth ELSE 0

(* parentHeader: the registry's entry, or else the stored session header.   *)
ParentDepth(s) ==
    IF s \in registry THEN sess[s].depth ELSE IF sess[s].stored THEN sess[s].depth ELSE 0

(* resolveChildDepth.                                                       *)
DepthAllowed(d) == d <= MaxDepth

(* invoke_subagent: a child is built and started; member is its place in    *)
(* the workflow, 0 for a call of the model.                                 *)
Child(s) == [parent |-> s, depth |-> ParentDepth(s) + 1, alive |-> TRUE, turning |-> FALSE,
             inbox |-> 0, stored |-> FALSE]

Invoke(s, member) ==
    /\ Len(sess) < MaxSessions
    /\ DepthAllowed(ParentDepth(s) + 1)
    /\ sess' = Append(sess, Child(s))
    /\ wait' = Append(wait, [by |-> s, child |-> Len(sess) + 1, at |-> "register", end |-> FALSE,
                             member |-> member])

CallInvoke(s) ==
    /\ sess[s].turning /\ ~Waiting(s)
    /\ s = 1 => run.at \in {"none", "done"}
    /\ Invoke(s, 0)
    /\ UNCHANGED <<registry, turnCtx, run, restarts>>

(* The entry is listed, then the prompt is posted.                          *)
RegisterChild(w) ==
    /\ wait[w].at = "register"
    /\ registry' = registry \cup {wait[w].child}
    /\ wait' = [wait EXCEPT ![w].at = "post"]
    /\ UNCHANGED <<sess, turnCtx, run, restarts>>

PostPrompt(w) ==
    /\ wait[w].at = "post"
    /\ sess' = [sess EXCEPT ![wait[w].child].inbox = @ + 1]
    /\ wait' = [wait EXCEPT ![w].at = "collect"]
    /\ UNCHANGED <<registry, turnCtx, run, restarts>>

(* ContinueSubagent, by a caller outside the sessions: look the child up,   *)
(* subscribe, post.                                                         *)
Continue(c) ==
    /\ Cardinality({w \in Waits : wait[w].by = 0}) < MaxContinues
    /\ c \in registry
    /\ wait' = Append(wait, [by |-> 0, child |-> c, at |-> "post", end |-> FALSE, member |-> 0])
    /\ UNCHANGED <<sess, registry, turnCtx, run, restarts>>

-----------------------------------------------------------------------------
(* The child's agent.  Its first event stores its header.                   *)
ChildTurn(c) ==
    /\ c # 1 /\ sess[c].alive /\ ~sess[c].turning /\ sess[c].inbox > 0
    /\ sess' = [sess EXCEPT ![c].turning = TRUE, ![c].inbox = @ - 1, ![c].stored = TRUE]
    /\ UNCHANGED <<registry, wait, turnCtx, run, restarts>>

(* turn/end, in the channel of every subscriber that is not 256 events      *)
(* behind; a stopped agent ends its turn too, or is gone before it can.     *)
ChildTurnEnd(c) ==
    /\ c # 1 /\ sess[c].turning /\ ~Waiting(c)
    /\ sess' = [sess EXCEPT ![c].turning = FALSE]
    /\ \E missed \in SUBSET {w \in Waits : wait[w].child = c /\ wait[w].at \in {"post", "collect"}} :
         wait' = [w \in Waits |->
                    IF wait[w].child = c /\ wait[w].at \in {"register", "post", "collect"} /\ w \notin missed
                    THEN [wait[w] EXCEPT !.end = TRUE] ELSE wait[w]]
    /\ UNCHANGED <<registry, turnCtx, run, restarts>>

(* Someone else stops the child: session.stop, a delete, a shutdown.        *)
ExternalStop(c) ==
    /\ c # 1 /\ sess[c].alive
    /\ sess' = [sess EXCEPT ![c].alive = FALSE]
    /\ UNCHANGED <<registry, wait, turnCtx, run, restarts>>

(* The user aborts the turn of session 1.                                   *)
AbortTurn ==
    /\ turnCtx = "live" /\ turnCtx' = "cancelled"
    /\ UNCHANGED <<sess, registry, wait, run, restarts>>

-----------------------------------------------------------------------------
(* The collect loop ends: on turn/end; on the timeout or the caller's       *)
(* cancellation, which stop the child; or when the child is stopped.        *)
CollectEnd(w) ==
    /\ wait[w].at = "collect" /\ wait[w].end
    /\ wait' = [wait EXCEPT ![w].at = "settle"]
    /\ UNCHANGED <<sess, registry, turnCtx, run, restarts>>

CollectStops(w) ==
    /\ wait[w].at = "collect"
    /\ sess' = [sess EXCEPT ![wait[w].child].alive = FALSE]      \* timeout, or execCtx.Done
    /\ wait' = [wait EXCEPT ![w].at = "settle"]
    /\ UNCHANGED <<registry, turnCtx, run, restarts>>

CollectStopped(w) ==
    /\ wait[w].at = "collect" /\ ~sess[wait[w].child].alive
    /\ wait' = [wait EXCEPT ![w].at = "settle"]
    /\ UNCHANGED <<sess, registry, turnCtx, run, restarts>>

(* settleSubagent: a child that is not alive leaves the registry.           *)
Settle(w) ==
    /\ wait[w].at = "settle"
    /\ registry' = IF sess[wait[w].child].alive THEN registry ELSE registry \ {wait[w].child}
    /\ wait' = [wait EXCEPT ![w].at = IF wait[w].member = 0 THEN "done" ELSE "member"]
    /\ UNCHANGED <<sess, turnCtx, run, restarts>>

(* list_subagents drops the entries whose agents have stopped.              *)
ListSubagents ==
    /\ \E c \in registry : ~sess[c].alive
    /\ registry' = {c \in registry : sess[c].alive}
    /\ UNCHANGED <<sess, wait, turnCtx, run, restarts>>

-----------------------------------------------------------------------------
(* Runner.Run: run-start and every agent-start, then the members one after  *)
(* another or at once; runOne looks at the context before it spawns.        *)
RunStart ==
    /\ Members > 0 /\ run.at = "none" /\ sess[1].turning /\ ~Waiting(1)
    /\ run' = [run EXCEPT !.at = "running"]
    /\ UNCHANGED <<sess, registry, wait, turnCtx, restarts>>

Ready(i) == run.at = "running" /\ i \notin run.begun /\ (Parallel \/ Len(run.results) = i - 1)

AgentEnd(outcome) == [run EXCEPT !.results = Append(@, outcome)]

BeginMember(i) ==
    /\ Ready(i)
    /\ run' = IF turnCtx = "cancelled" THEN [AgentEnd("cancelled") EXCEPT !.begun = @ \cup {i}]
              ELSE [run EXCEPT !.begun = @ \cup {i}, !.spawning = @ \cup {i}]
    /\ UNCHANGED <<sess, registry, wait, turnCtx, restarts>>

SpawnMember(i) ==
    /\ run.at = "running" /\ i \in run.spawning
    /\ \/ Invoke(1, i) /\ run' = [run EXCEPT !.spawning = @ \ {i}]
       \/ /\ run' = [AgentEnd("failed") EXCEPT !.spawning = @ \ {i}]    \* no invoke_subagent tool
          /\ UNCHANGED <<sess, wait>>
    /\ UNCHANGED <<registry, turnCtx, restarts>>

(* agent-end: to the tool call a child that was stopped or timed out is a   *)
(* success.                                                                 *)
EndMember(w) ==
    /\ wait[w].at = "member"
    /\ wait' = [wait EXCEPT ![w].at = "done"]
    /\ run' = AgentEnd(IF turnCtx = "cancelled" THEN "cancelled" ELSE "completed")
    /\ UNCHANGED <<sess, registry, turnCtx, restarts>>

(* Wrong variant: a failure overrides a cancellation.                       *)
SettleRunLast(stop, outcome) ==
    CASE outcome = "cancelled" -> "cancelled" [] outcome = "failed" -> "error" [] OTHER -> stop

(* settle, over the results in the order the members ended.                 *)
SettleRun(stop, outcome) ==
    CASE outcome = "cancelled" -> "cancelled"
      [] outcome = "failed"    -> IF stop = "cancelled" THEN stop ELSE "error"
      [] OTHER                 -> stop

RunStop(results) ==
    LET stop[i \in 0 .. Len(results)] == IF i = 0 THEN "completed" ELSE SettleRun(stop[i - 1], results[i])
    IN  stop[Len(results)]

RunEnd ==
    /\ run.at = "running" /\ Len(run.results) = Members
    /\ run' = [run EXCEPT !.at = "done", !.stop = RunStop(run.results)]
    /\ UNCHANGED <<sess, registry, wait, turnCtx, restarts>>

-----------------------------------------------------------------------------
(* The process restarts; a session of the store is resumed by a client.     *)
Restart ==
    /\ restarts < MaxRestarts /\ restarts' = restarts + 1
    /\ sess' = [s \in Sessions |-> [sess[s] EXCEPT !.alive = FALSE, !.turning = FALSE, !.inbox = 0]]
    /\ registry' = {} /\ turnCtx' = "live" /\ run' = NoRun
    /\ wait' = [w \in Waits |-> [wait[w] EXCEPT !.at = IF @ = "done" THEN @ ELSE "lost"]]

Resume(s) ==
    /\ ~sess[s].alive /\ ~sess[s].turning /\ sess[s].stored
    /\ s \notin registry /\ restarts > 0
    /\ sess' = [sess EXCEPT ![s].alive = TRUE, ![s].turning = TRUE]
    /\ UNCHANGED <<registry, wait, turnCtx, run, restarts>>

-----------------------------------------------------------------------------
Next ==
    \/ \E s \in Sessions : \/ CallInvoke(s) \/ Continue(s) \/ ChildTurn(s) \/ ChildTurnEnd(s)
                           \/ ExternalStop(s) \/ Resume(s)
    \/ \E w \in Waits : \/ RegisterChild(w) \/ PostPrompt(w) \/ CollectEnd(w)
                        \/ CollectStops(w) \/ CollectStopped(w) \/ Settle(w) \/ EndMember(w)
    \/ AbortTurn \/ ListSubagents \/ RunStart \/ RunEnd \/ Restart
    \/ \E i \in 1..Members : BeginMember(i) \/ SpawnMember(i)

Spec == Init /\ [][Next]_vars

-----------------------------------------------------------------------------
(* PROPERTIES                                                               *)

(* The delegation depth of every session is one more than its parent's and  *)
(* never over the limit, although a parent may have left the registry (its  *)
(* wait timed out while its turn went on, or the process restarted) when it *)
(* delegates.                                                               *)
DepthTrue ==
    \A s \in Sessions \ {1} :
        sess[s].depth = sess[sess[s].parent].depth + 1 /\ sess[s].depth <= MaxDepth

(* A workflow run ends after each of its members has ended exactly once,    *)
(* and its stop reason does not depend on the order in which they did:      *)
(* cancelled if any was cancelled, else error if any failed.                *)
RunReason ==
    run.at = "done" =>
        /\ \A w \in Waits : (wait[w].member # 0 /\ wait[w].at # "lost") => wait[w].at = "done"
        /\ run.stop = IF \E i \in DOMAIN run.results : run.results[i] = "cancelled" THEN "cancelled"
                      ELSE IF \E i \in DOMAIN run.results : run.results[i] = "failed" THEN "error"
                      ELSE "completed"
==============================================================================
