--------------------------- MODULE GatewaySessions ----------------------------
(***************************************************************************)
(* Which agent serves a session (backend/pkg/gateway): the session.* RPCs  *)
(* of http_router.go, the OpenAI- and Anthropic-compatible inbound turns   *)
(* of inbound.go, and the SDK server of sdk_server.go, around one session  *)
(* id.  Every HTTP request runs in a goroutine of its own and s.mu covers  *)
(* only single reads and writes of the agents map, so two requests can     *)
(* both find no live agent and both spawn one.                             *)
(*                                                                         *)
(* Requests are numbered in the order they arrive, agents in the order     *)
(* they start.  An action is one critical section of s.mu, one store call  *)
(* or one call on an agent.                                                *)
(***************************************************************************)
EXTENDS Naturals, Sequences, FiniteSets

CONSTANTS
    MaxRequests,    \* bound: requests
    Ops             \* operations a request may ask for

VARIABLES
    header,     \* the store holds the session's header
    logged,     \* the store holds events of the session
    mapped,     \* s.agents[id]: an agent, or 0
    alive,      \* agents whose context is not cancelled
    started,    \* how many agents exist: 1 .. started
    inbox,      \* [agents -> messages waiting, by request]
    running,    \* [agents -> the request whose message its turn runs, or 0]
    req,        \* the requests so far: [op, at, ag, old, fallback]
    sdk,        \* SDKServer.sessions[id]: an agent, or 0
    sdkTurn     \* what the SDK client was last told of the session's status

vars == <<header, logged, mapped, alive, started, inbox, running, req, sdk, sdkTurn>>
agents == <<alive, started, inbox, running>>
store == <<header, logged>>
sdkState == <<sdk, sdkTurn>>

Requests == DOMAIN req

Init ==
    /\ header \in BOOLEAN /\ logged = FALSE /\ mapped = 0 /\ alive = {} /\ started = 0
    /\ inbox = <<>> /\ running = <<>> /\ req = <<>> /\ sdk = 0 /\ sdkTurn = "idle"

-----------------------------------------------------------------------------
(* Requests *)

(* requestTrusted: a loopback Host, no cross-site fetch, and no Origin or   *)
(* one that names the Host exactly.                                         *)
RequestTrusted(host, origin, site) ==
    host = "loopback" /\ site # "cross-site" /\ origin \in {"none", "same"}

(* trustGuard, then handleRPC: a body that does not decode is refused.      *)
Arrive(op, trusted, wellFormed) ==
    /\ Len(req) < MaxRequests
    /\ req' = Append(req, [op |-> op, ag |-> 0, old |-> 0, fallback |-> FALSE,
                           at |-> IF trusted /\ wellFormed THEN "dispatch" ELSE "refused"])
    /\ UNCHANGED <<store, mapped, agents, sdkState>>

At(r, stage) == r \in Requests /\ req[r].at = stage
To(r, stage) == req' = [req EXCEPT ![r].at = stage]
Live(a) == a # 0 /\ a \in alive

Ensuring == {"prompt", "steer", "effort", "rename", "inbound"}

(* The first thing each operation reads.                                    *)
Dispatch(r) ==
    LET op == req[r].op IN
    /\ At(r, "dispatch")
    /\ \/ op = "create" /\ To(r, "put")
       \/ op \in {"resume", "delete"} /\ To(r, "header")
       \/ /\ op \in Ensuring
          /\ req' = [req EXCEPT ![r].ag = IF Live(mapped) THEN mapped ELSE 0,
                                ![r].at = IF Live(mapped) THEN "use" ELSE "header"]
       \/ /\ op = "stop"
          /\ req' = [req EXCEPT ![r].ag = mapped, ![r].at = IF mapped = 0 THEN "error" ELSE "halt"]
       \/ /\ op = "abort"
          /\ req' = [req EXCEPT ![r].ag = mapped, ![r].at = IF mapped = 0 THEN "header" ELSE "use"]
       \/ op \in {"sdkPrompt", "sdkShutdown"} /\ To(r, "sdk")
    /\ UNCHANGED <<store, mapped, agents, sdkState>>

(* lookupHeader: from the store, or from an agent still in the map.  An     *)
(* inbound turn for an unknown session creates it.                          *)
LookupHeader(r) ==
    LET op == req[r].op
        found == header \/ mapped # 0
    IN  /\ At(r, "header")
        /\ To(r, IF ~found THEN IF op = "inbound" THEN "put" ELSE "error"
                 ELSE CASE op = "delete" -> "take"
                        [] op = "abort"  -> "done"
                        [] op = "resume" -> "check"
                        [] OTHER         -> "spawn")
        /\ UNCHANGED <<store, mapped, agents, sdkState>>

(* session.resume: a live agent is reused.                                  *)
Resume(r) ==
    /\ At(r, "check") /\ To(r, IF Live(mapped) THEN "done" ELSE "spawn")
    /\ UNCHANGED <<store, mapped, agents, sdkState>>

(* session.create and inboundEnsureSession: PutSession.                     *)
PutHeader(r) ==
    /\ At(r, "put")
    /\ req' = [req EXCEPT ![r].at = "spawn", ![r].fallback = TRUE]
    /\ header' = TRUE
    /\ UNCHANGED <<logged, mapped, agents, sdkState>>

(* NewAgent and Start.                                                      *)
StartNew ==
    /\ started' = started + 1 /\ alive' = alive \cup {started + 1}
    /\ inbox' = Append(inbox, <<>>) /\ running' = Append(running, 0)

(* spawnAgent, first half: the agent runs before the map knows it.          *)
SpawnAgent(r) ==
    /\ At(r, "spawn")
    /\ StartNew
    /\ req' = [req EXCEPT ![r].at = "swap", ![r].ag = started + 1]
    /\ UNCHANGED <<store, mapped, sdkState>>

(* Wrong variant: the agent to stop is the one the request saw before it    *)
(* spawned, not the one it replaces.                                        *)
SwapAgentStale(r) ==
    /\ At(r, "swap")
    /\ mapped' = req[r].ag
    /\ To(r, "retire")
    /\ UNCHANGED <<store, agents, sdkState>>

(* spawnAgent, second half: replace the entry, then stop what was there.    *)
SwapAgent(r) ==
    /\ At(r, "swap")
    /\ mapped' = req[r].ag
    /\ req' = [req EXCEPT ![r].at = "retire", ![r].old = mapped]
    /\ UNCHANGED <<store, agents, sdkState>>

(* Agent.Stop: the running turn ends, what waits in the inbox is lost.      *)
Stopped(a) ==
    IF a = 0 THEN UNCHANGED <<alive, inbox, running>>
    ELSE /\ alive' = alive \ {a}
         /\ inbox' = [inbox EXCEPT ![a] = <<>>] /\ running' = [running EXCEPT ![a] = 0]

RetireOld(r) ==
    /\ At(r, "retire") /\ Stopped(req[r].old)
    /\ req' = [req EXCEPT ![r].at = IF req[r].op \in {"create", "resume"} THEN "done" ELSE "reread",
                          ![r].old = 0]
    /\ UNCHANGED <<store, mapped, started, sdkState>>

(* ensureLiveAgent reads the map again: its own agent, or whatever another  *)
(* request put there.  inboundEnsureSession falls back to creating the      *)
(* session, once.                                                           *)
Reread(r) ==
    /\ At(r, "reread")
    /\ req' = [req EXCEPT ![r].ag = mapped,
                          ![r].at = IF Live(mapped) THEN "use"
                                    ELSE IF req[r].op = "inbound" /\ ~req[r].fallback THEN "put"
                                    ELSE "error"]
    /\ UNCHANGED <<store, mapped, agents, sdkState>>

(* The agent an operation found is used, live or not any more.              *)
UseAgent(r) ==
    LET op == req[r].op
        a == req[r].ag
    IN  /\ At(r, "use")
        /\ \/ /\ op \in {"prompt", "steer"} /\ To(r, "done")     \* PostUserMessage, PostNextStep
              /\ inbox' = [inbox EXCEPT ![a] = Append(@, r)]
              /\ UNCHANGED <<running, logged>>
           \/ /\ op \in {"effort", "rename"} /\ To(r, "done")
              /\ logged' = (logged \/ op = "rename")             \* session/title is emitted at once
              /\ UNCHANGED <<inbox, running>>
           \/ /\ op = "abort" /\ To(r, "done")                   \* AbortTurn, cancelSessionApprovals
              /\ running' = [running EXCEPT ![a] = 0]
              /\ UNCHANGED <<inbox, logged>>
           \/ op = "inbound" /\ To(r, "subscribed") /\ UNCHANGED <<inbox, running, logged>>
        /\ UNCHANGED <<header, mapped, alive, started, sdkState>>

(* session.stop: the dead agent stays in the map.                           *)
StopSession(r) ==
    /\ At(r, "halt") /\ Stopped(req[r].ag) /\ To(r, "done")
    /\ UNCHANGED <<store, mapped, started, sdkState>>

(* session.delete: take the agent out, stop it, delete the stored session.  *)
DeleteTake(r) ==
    /\ At(r, "take") /\ mapped' = 0
    /\ req' = [req EXCEPT ![r].at = "deleteStop", ![r].old = mapped]
    /\ UNCHANGED <<store, agents, sdkState>>

DeleteStop(r) ==
    /\ At(r, "deleteStop") /\ Stopped(req[r].old)
    /\ req' = [req EXCEPT ![r].at = "deleteStored", ![r].old = 0]
    /\ UNCHANGED <<store, mapped, started, sdkState>>

DeleteStored(r) ==
    /\ At(r, "deleteStored")
    /\ \/ header' = FALSE /\ logged' = FALSE /\ To(r, "done")
       \/ UNCHANGED store /\ To(r, "error")
    /\ UNCHANGED <<mapped, agents, sdkState>>

-----------------------------------------------------------------------------
(* inboundTurn: one user prompt through the agent, over a lossy             *)
(* subscription.  It posts only while no turn runs.                         *)
TryPost(r) ==
    LET a == req[r].ag IN
    /\ At(r, "subscribed") /\ Live(a) /\ running[a] = 0
    /\ inbox' = [inbox EXCEPT ![a] = Append(@, r)]
    /\ To(r, "waiting")
    /\ UNCHANGED <<store, mapped, alive, started, running, sdkState>>

(* The client leaves or 90 seconds pass: the agent's turn is aborted.       *)
InboundGivesUp(r) ==
    /\ At(r, "subscribed") \/ At(r, "waiting")
    /\ running' = [running EXCEPT ![req[r].ag] = 0]
    /\ To(r, "error")
    /\ UNCHANGED <<store, mapped, alive, started, inbox, sdkState>>

(* The agent takes a message and runs its turn; its events are stored.      *)
StartTurn(a) ==
    /\ a \in alive /\ running[a] = 0 /\ inbox[a] # <<>>
    /\ running' = [running EXCEPT ![a] = Head(inbox[a])]
    /\ inbox' = [inbox EXCEPT ![a] = Tail(@)]
    /\ logged' = TRUE
    /\ sdkTurn' = IF a = sdk THEN "running" ELSE sdkTurn
    /\ UNCHANGED <<header, mapped, alive, started, req, sdk>>

(* turn/end: every waiting inbound request that the event reaches returns,  *)
(* whichever message the turn was for.                                      *)
EndTurn(a) ==
    /\ a \in alive /\ running[a] # 0
    /\ running' = [running EXCEPT ![a] = 0]
    /\ \E reached \in SUBSET {r \in Requests : At(r, "waiting") /\ req[r].ag = a} :
          req' = [r \in Requests |-> IF r \in reached THEN [req[r] EXCEPT !.at = "done"] ELSE req[r]]
    /\ sdkTurn' = IF a = sdk THEN "idle" ELSE sdkTurn
    /\ UNCHANGED <<store, mapped, alive, started, inbox, sdk>>

-----------------------------------------------------------------------------
(* The SDK server: getOrCreateSession and the post, or shutdown.            *)
SdkPrompt(r) ==
    /\ At(r, "sdk") /\ req[r].op = "sdkPrompt" /\ To(r, "done")
    /\ IF sdk # 0
       THEN /\ inbox' = [inbox EXCEPT ![sdk] = Append(@, r)]
            /\ UNCHANGED <<header, alive, started, running, sdk>>
       ELSE /\ header' = TRUE /\ sdk' = started + 1
            /\ started' = started + 1 /\ alive' = alive \cup {started + 1}
            /\ inbox' = Append(inbox, <<r>>) /\ running' = Append(running, 0)
    /\ UNCHANGED <<logged, mapped, sdkTurn>>

SdkShutdown(r) ==
    /\ At(r, "sdk") /\ req[r].op = "sdkShutdown" /\ To(r, "done")
    /\ Stopped(sdk) /\ sdk' = 0
    /\ UNCHANGED <<store, mapped, started, sdkTurn>>

-----------------------------------------------------------------------------
Step(r) ==
    \/ Dispatch(r) \/ LookupHeader(r) \/ Resume(r) \/ PutHeader(r) \/ SpawnAgent(r) \/ SwapAgent(r)
    \/ RetireOld(r) \/ Reread(r) \/ UseAgent(r) \/ StopSession(r)
    \/ DeleteTake(r) \/ DeleteStop(r) \/ DeleteStored(r)
    \/ TryPost(r) \/ InboundGivesUp(r) \/ SdkPrompt(r) \/ SdkShutdown(r)

Next ==
    \/ \E op \in Ops, wellFormed \in BOOLEAN, host \in {"loopback", "other"},
          origin \in {"none", "same", "foreign"}, site \in {"none", "cross-site"} :
          Arrive(op, RequestTrusted(host, origin, site), wellFormed)
    \/ \E r \in Requests : Step(r)
    \/ \E a \in 1 .. started : StartTurn(a) \/ EndTurn(a)

Spec == Init /\ [][Next]_vars

-----------------------------------------------------------------------------
(* PROPERTIES *)

(* No agent is left running unseen: however the requests that spawn, stop   *)
(* and delete interleave, an agent that is alive is the one a map holds, or *)
(* one that a request still has in hand to publish or to stop.  In          *)
(* particular one session has one writer once the requests are over.        *)
NoStrayAgent ==
    \A a \in alive :
        \/ a \in {mapped, sdk}
        \/ \E r \in Requests : At(r, "swap") /\ req[r].ag = a
        \/ \E r \in Requests : req[r].at \in {"retire", "deleteStop"} /\ req[r].old = a
==============================================================================
