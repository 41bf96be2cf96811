---------------------------- MODULE ToolPipeline -----------------------------
(***************************************************************************)
(* The guarded pipeline of a tool call (backend/pkg/tools/pipeline.go),    *)
(* between the agent that makes the calls of a session one after another,  *)
(* the PreToolUse hooks (pkg/plugin/hooks.go), the policy store            *)
(* (policy.go) that slash commands, RPCs and policy tools change meanwhile *)
(* one knob at a time, the user's answers, and the file that the tools of  *)
(* several sessions edit (fs.go).                                          *)
(*                                                                         *)
(* A tool stands for its family: read_file needs no permission, write_file *)
(* and replace_file_content are edits, run_command is destructive.  One    *)
(* file stands for the workspace: its content is the set of edits in it,   *)
(* its version (size and mtime) a number that every write increases.       *)
(***************************************************************************)
EXTENDS Naturals, Sequences, FiniteSets

CONSTANTS
    Sessions,       \* agents, each with a policy of its own
    Tools,          \* tools the model may call
    Modes,          \* presets a /permission command may apply
    MaxCalls,       \* bound: tool calls
    MaxCommands     \* bound: slash commands and policy RPCs

VARIABLES
    pol,        \* byID: [sandbox, approval, preset, model], "" where never set
    allowed,    \* allowedTools: the session's allow_all whitelist
    planMode,   \* the live mirror of plan mode
    hosted,     \* RequestUser is wired
    hooked,     \* decisions the matching PreToolUse hooks can take
    call,       \* tool calls so far
    cmd,        \* slash commands and RPCs so far: [s, mode, at]
    file        \* the shared file: [ver, edits]

vars == <<pol, allowed, planMode, hosted, hooked, call, cmd, file>>
store == <<pol, allowed, planMode>>
host == <<hosted, hooked>>

Calls == DOMAIN call
Edits == {"write_file", "replace_file_content"}         \* isEditTool
Destructive == {"run_command"}                          \* isDestructiveTool
RequiresPerm == Edits \cup Destructive
PolicyTools == {"set_sandbox_mode", "set_approval_policy", "set_permission_preset"}

(* SetMode: the knobs of a preset.                                          *)
Knobs ==
    [default |-> <<"workspace-write", "ask">>, acceptEdits |-> <<"workspace-write", "accept-edits">>,
     plan |-> <<"read-only", "never">>, auto |-> <<"workspace-write", "review">>,
     allowAll |-> <<"danger-full-access", "allow-all">>]

(* checkWrite; an unset sandbox confines like workspace-write.              *)
CheckWrite(s, inside) ==
    CASE pol[s].sandbox = "danger-full-access" -> TRUE
      [] pol[s].sandbox = "read-only"          -> FALSE
      [] OTHER                                 -> inside

Init ==
    /\ pol = [s \in Sessions |-> [sandbox |-> "workspace-write", approval |-> "ask", preset |-> "", model |-> ""]]
    /\ allowed = [s \in Sessions |-> {}]
    /\ planMode = [s \in Sessions |-> FALSE]
    /\ hosted \in BOOLEAN
    /\ hooked \in {{"pass"}, {"pass", "block"}}
    /\ call = <<>> /\ cmd = <<>>
    /\ file = [ver |-> 0, edits |-> {}]

(* What a change of the policy adds to the record of the calls in flight.   *)
Witness(s, p) ==
    call' = [c \in Calls |->
                IF call[c].s = s /\ call[c].at # "done"
                THEN [call[c] EXCEPT !.regimes = @ \cup {<<p.sandbox, p.approval>>}] ELSE call[c]]

SetPolicy(s, p) == pol' = [pol EXCEPT ![s] = p] /\ Witness(s, p)

-----------------------------------------------------------------------------
(* Slash commands and RPCs of a client: /permission and session.policy take *)
(* SetMode apart into one critical section per knob; a command stamps the   *)
(* literal preset again; a review model is set on its own; /plan flips the  *)
(* plan mode.                                                               *)
Command(s, mode) ==
    /\ Len(cmd) < MaxCommands
    /\ cmd' = Append(cmd, [s |-> s, mode |-> mode, at |-> "sandbox"])
    /\ UNCHANGED <<store, host, call, file>>

SetSandboxMode(i) ==
    /\ cmd[i].at = "sandbox"
    /\ SetPolicy(cmd[i].s, [pol[cmd[i].s] EXCEPT !.sandbox = Knobs[cmd[i].mode][1]])
    /\ cmd' = [cmd EXCEPT ![i].at = "approval"]
    /\ UNCHANGED <<allowed, planMode, host, file>>

SetApprovalPolicy(i) ==
    /\ cmd[i].at = "approval"
    /\ SetPolicy(cmd[i].s, [pol[cmd[i].s] EXCEPT !.approval = Knobs[cmd[i].mode][2]])
    /\ cmd' = [cmd EXCEPT ![i].at = "preset"]
    /\ UNCHANGED <<allowed, planMode, host, file>>

SetPreset(i) ==
    /\ cmd[i].at = "preset"
    /\ pol' = [pol EXCEPT ![cmd[i].s].preset = cmd[i].mode]
    /\ cmd' = [cmd EXCEPT ![i].at = "done"]
    /\ UNCHANGED <<allowed, planMode, host, call, file>>

SetReviewModel(s) ==
    /\ Len(cmd) < MaxCommands /\ pol[s].model = ""
    /\ cmd' = Append(cmd, [s |-> s, mode |-> "default", at |-> "done"])
    /\ pol' = [pol EXCEPT ![s].model = "reviewer"]
    /\ UNCHANGED <<allowed, planMode, host, call, file>>

PlanCommand(s, active) ==
    /\ Len(cmd) < MaxCommands /\ planMode[s] # active
    /\ cmd' = Append(cmd, [s |-> s, mode |-> "plan", at |-> "done"])
    /\ planMode' = [planMode EXCEPT ![s] = active]
    /\ UNCHANGED <<pol, allowed, host, call, file>>

-----------------------------------------------------------------------------
(* The agent's next tool call.  inside says where its path points; an edit  *)
(* with expected_version carries the version the model last read.           *)
StartCall(s, t, inside, pinned) ==
    /\ Len(call) < MaxCalls
    /\ \A c \in Calls : call[c].s = s => call[c].at = "done"
    /\ t \in Edits \cup {"read_file"} \/ inside
    /\ t = "replace_file_content" \/ ~pinned
    /\ call' = Append(call,
           [s |-> s, tool |-> t, at |-> "hook", inside |-> inside, pinned |-> pinned, base |-> IF pinned THEN file.ver ELSE 0,
            data |-> {}, approval |-> "", model |-> "", regimes |-> {<<pol[s].sandbox, pol[s].approval>>},
            outcome |-> "", verdict |-> "", ran |-> FALSE, touched |-> FALSE, ok |-> FALSE])
    /\ UNCHANGED <<store, host, cmd, file>>

Step(c, from, to) == call[c].at = from /\ call' = [call EXCEPT ![c].at = to]
Finish(c, ok) == call' = [call EXCEPT ![c].at = "done", ![c].ok = ok]

(* dispatchHook: every matching hook runs; one that exits 2 blocks the call.*)
PreToolUse(c) ==
    /\ call[c].at = "hook"
    /\ \E decisions \in SUBSET hooked :
        IF "block" \in decisions THEN Finish(c, FALSE)
        ELSE call' = [call EXCEPT ![c].at = IF call[c].tool \in RequiresPerm THEN "policy" ELSE "run"]
    /\ UNCHANGED <<store, host, cmd, file>>

ReadPolicy(c) ==
    /\ call[c].at = "policy"
    /\ call' = [call EXCEPT ![c].at = "gate", ![c].approval = pol[call[c].s].approval,
                            ![c].model = pol[call[c].s].model]
    /\ UNCHANGED <<store, host, cmd, file>>

Reject(c) == call' = [call EXCEPT ![c].at = "done", ![c].outcome = "rejected"]
Ask(c) == call' = [call EXCEPT ![c].at = IF hosted THEN "ask" ELSE "run"]

(* Wrong variant: a remembered tool runs whatever the policy.               *)
GateRememberedFirst(c) ==
    LET t == call[c].tool   remembered == t \in allowed[call[c].s]   p == call[c].approval IN
    /\ call[c].at = "gate"
    /\ IF remembered THEN Step(c, "gate", "run")
       ELSE CASE p = "never" -> Reject(c)
              [] p = "allow-all" \/ (p = "accept-edits" /\ t \in Edits)
                 \/ (p = "review" /\ t \notin Destructive) -> Step(c, "gate", "run")
              [] p = "review" /\ t \in Destructive -> Step(c, "gate", "review")
              [] OTHER -> Ask(c)
    /\ UNCHANGED <<store, host, cmd, file>>

(* The approval stage, after PolicyAllowed.                                 *)
Gate(c) ==
    LET t == call[c].tool   remembered == t \in allowed[call[c].s]   p == call[c].approval IN
    /\ call[c].at = "gate"
    /\ CASE p = "never" -> Reject(c)
         [] p = "allow-all" \/ (p = "accept-edits" /\ t \in Edits)
            \/ (p = "review" /\ (remembered \/ t \notin Destructive)) -> Step(c, "gate", "run")
         [] p = "review" /\ ~remembered /\ t \in Destructive -> Step(c, "gate", "review")
         [] OTHER -> IF remembered THEN Step(c, "gate", "run") ELSE Ask(c)
    /\ UNCHANGED <<store, host, cmd, file>>

(* reviewToolCall: without a review model the user is asked.                *)
Review(c) ==
    /\ call[c].at = "review"
    /\ \/ call' = [call EXCEPT ![c].at = IF hosted THEN "ask" ELSE "run", ![c].verdict = "uncertain"]
       \/ /\ call[c].model # ""
          /\ \/ call' = [call EXCEPT ![c].at = "run", ![c].verdict = "allow"]
             \/ call' = [call EXCEPT ![c].at = "done", ![c].verdict = "deny", ![c].outcome = "rejected"]
    /\ UNCHANGED <<store, host, cmd, file>>

(* RequestUser answers; allow_all is remembered before the decision is      *)
(* logged.  A cancelled turn answers cancel.                                *)
Answer(c, decision) ==
    LET out == CASE decision = "allow_once" -> "allowed-once" [] decision = "allow_all" -> "allowed-always"
                 [] decision = "deny" -> "rejected" [] OTHER -> "cancelled" IN
    /\ call[c].at = "ask"
    /\ allowed' = IF decision = "allow_all" THEN [allowed EXCEPT ![call[c].s] = @ \cup {call[c].tool}] ELSE allowed
    /\ call' = [call EXCEPT ![c].outcome = out,
                            ![c].at = IF decision \in {"deny", "cancel"} THEN "done" ELSE "run"]
    /\ UNCHANGED <<pol, planMode, host, cmd, file>>

-----------------------------------------------------------------------------
(* The tools.  run_command keeps no state here.                             *)
RunCommand(c) ==
    /\ call[c].at = "run" /\ call[c].tool = "run_command"
    /\ call' = [call EXCEPT ![c].at = "done", ![c].ran = TRUE, ![c].ok = TRUE]
    /\ UNCHANGED <<store, host, cmd, file>>

(* read_file and write_file look at the sandbox, then touch the file.       *)
CheckedFileTool(c) ==
    /\ call[c].at = "run" /\ call[c].tool \in {"read_file", "write_file"}
    /\ call' = [call EXCEPT ![c].at = IF CheckWrite(call[c].s, call[c].inside) THEN "touch" ELSE "done",
                            ![c].ran = TRUE]
    /\ UNCHANGED <<store, host, cmd, file>>

TouchFile(c) ==
    /\ call[c].at = "touch"
    /\ \/ /\ call' = [call EXCEPT ![c].at = "done", ![c].touched = TRUE, ![c].ok = TRUE]
          /\ file' = IF call[c].tool = "write_file" THEN [ver |-> file.ver + 1, edits |-> {c}] ELSE file
       \/ Finish(c, FALSE) /\ UNCHANGED file
    /\ UNCHANGED <<store, host, cmd>>

(* replace_file_content: compare the version, read, match, write.           *)
CheckVersion(c) ==
    /\ call[c].at = "run" /\ call[c].tool = "replace_file_content"
    /\ call' = [call EXCEPT ![c].ran = TRUE,
                            ![c].at = IF call[c].pinned /\ file.ver # call[c].base THEN "done" ELSE "read"]
    /\ UNCHANGED <<store, host, cmd, file>>

ReadFile(c) ==
    /\ call[c].at = "read"
    /\ \/ call' = [call EXCEPT ![c].at = "replace", ![c].data = file.edits]
       \/ Finish(c, FALSE)              \* no such file, or no such content
    /\ UNCHANGED <<store, host, cmd, file>>

WriteBack(c) ==
    /\ call[c].at = "replace"
    /\ file' = [ver |-> file.ver + 1, edits |-> call[c].data \cup {c}]
    /\ call' = [call EXCEPT ![c].at = "done", ![c].touched = TRUE, ![c].ok = TRUE]
    /\ UNCHANGED <<store, host, cmd>>

(* The policy tools change one knob, without asking anyone.                 *)
PolicyTool(c, mode) ==
    LET s == call[c].s IN
    /\ call[c].at = "run" /\ call[c].tool \in PolicyTools
    /\ pol' = [pol EXCEPT ![s] =
           CASE call[c].tool = "set_sandbox_mode"    -> [@ EXCEPT !.sandbox = Knobs[mode][1]]
             [] call[c].tool = "set_approval_policy" -> [@ EXCEPT !.approval = Knobs[mode][2]]
             [] OTHER                                -> [@ EXCEPT !.preset = mode]]
    /\ call' = [call EXCEPT ![c].at = "done", ![c].ran = TRUE, ![c].ok = TRUE]
    /\ UNCHANGED <<allowed, planMode, host, cmd, file>>

(* exit_plan_mode asks the user itself and fails closed without one.        *)
ExitPlanMode(c) ==
    /\ call[c].at = "run" /\ call[c].tool = "exit_plan_mode"
    /\ \/ /\ planMode[call[c].s] /\ hosted
          /\ planMode' = [planMode EXCEPT ![call[c].s] = FALSE]
          /\ call' = [call EXCEPT ![c].at = "done", ![c].ran = TRUE, ![c].ok = TRUE]
       \/ Finish(c, FALSE) /\ UNCHANGED planMode
    /\ UNCHANGED <<pol, allowed, host, cmd, file>>

-----------------------------------------------------------------------------
Next ==
    \/ \E s \in Sessions : \/ \E mode \in Modes : Command(s, mode)
                           \/ SetReviewModel(s)
                           \/ \E active \in BOOLEAN : PlanCommand(s, active)
    \/ \E i \in DOMAIN cmd : SetSandboxMode(i) \/ SetApprovalPolicy(i) \/ SetPreset(i)
    \/ \E s \in Sessions, t \in Tools, inside, pinned \in BOOLEAN : StartCall(s, t, inside, pinned)
    \/ \E c \in Calls :
        \/ PreToolUse(c) \/ ReadPolicy(c) \/ Gate(c) \/ Review(c)
        \/ \E d \in {"allow_once", "allow_all", "deny", "cancel"} : Answer(c, d)
        \/ RunCommand(c) \/ CheckedFileTool(c) \/ TouchFile(c)
        \/ CheckVersion(c) \/ ReadFile(c) \/ WriteBack(c)
        \/ \E mode \in Modes : PolicyTool(c, mode)
        \/ ExitPlanMode(c)

Spec == Init /\ [][Next]_vars

-----------------------------------------------------------------------------
(* PROPERTIES                                                               *)

Allowed(outcome) == outcome \in {"allowed-once", "allowed-always"}

(* What each approval policy promises about a call that ran under it.       *)
Admits(c, approval) ==
    LET t == call[c].tool
        granted == t \in allowed[call[c].s] \/ Allowed(call[c].outcome) \/ ~hosted IN
    CASE approval = "never"        -> FALSE
      [] approval = "allow-all"    -> TRUE
      [] approval = "accept-edits" -> t \in Edits \/ granted
      [] approval = "review"       -> t \notin Destructive \/ granted \/ call[c].verdict = "allow"
      [] OTHER                     -> granted

(* However the knobs of the policy change around it, a tool call that needs *)
(* permission runs only if some approval policy in force since the call     *)
(* began admits it, never after a refusal in the audit log, and read_file   *)
(* and write_file touch the file only if some sandbox in force admits it:   *)
(* a whitelisted tool does not outlive a switch to never.                   *)
RunsAsPermitted ==
    \A c \in Calls :
        /\ (call[c].ran /\ call[c].tool \in RequiresPerm) =>
              /\ \E r \in call[c].regimes : Admits(c, r[2])
              /\ call[c].outcome \in {"", "allowed-once", "allowed-always"}
        /\ (call[c].touched /\ call[c].tool \in {"read_file", "write_file"}) =>
              \E r \in call[c].regimes :
                  r[1] = "danger-full-access" \/ (r[1] # "read-only" /\ call[c].inside)

(* fs.go's promise: an edit pinned to the version that was read and         *)
(* reported successful is not silently lost to another one.  One session    *)
(* that only edits keeps it; two that edit the same file do not, since no   *)
(* lock spans the check of the version, the read and the write.  No run     *)
(* lists it.                                                                *)
NoLostEdit ==
    \A c \in Calls : (call[c].ok /\ call[c].tool \in Edits /\ call[c].pinned) => c \in file.edits
==============================================================================
