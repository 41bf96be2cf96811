------------------------------ MODULE AcpBridge -------------------------------
(***************************************************************************)
(* The ACP server of backend/pkg/acp/server.go: an editor opens a session, *)
(* prompts it, cancels and answers permission requests over one stdio      *)
(* connection; every request runs in a goroutine of its own.  A prompt's   *)
(* request returns when its promptInflight is settled, by the relay that   *)
(* watches the agent's lossy event channel or by a cancel.                 *)
(*                                                                         *)
(* The agent is the external part: it takes one message after the other    *)
(* from its inbox and runs one turn for each.                              *)
(***************************************************************************)
EXTENDS Naturals, Sequences, FiniteSets

CONSTANTS
    Prompts,        \* session/prompt requests, each made once
    Followups,      \* messages others post (schedules): no prompt waits for them
    Cancels,        \* session/cancel notifications, each sent once
    Permissions,    \* permission requests the agent's tools may make
    Kinds,          \* how a turn that is not aborted may end
    ChanCap,        \* capacity of the relay's subscription (256)
    MaxUpdates      \* bound: assistant and tool events per turn

VARIABLES
    link,       \* "open", or "closed" once reading stdin failed
    sess,       \* session/new: "none", "mounted", "started", "open", "failed"
    mounts,     \* the inline MCP servers of the session are mounted
    prompt,     \* [Prompts -> where the request is]
    inflight,   \* rec.inflight: a prompt or "none"
    bound,      \* prompts whose message the relay saw enter a turn
    settled,    \* [Prompts -> stop reason, or "none"]
    byTurn,     \* history: prompts settled by a turn/end
    cancel,     \* [Cancels -> where the call is]
    target,     \* [Cancels -> the prompt it read]
    inbox,      \* the agent's inbox
    turn,       \* the message of the running turn, or "none"
    aborted,    \* AbortTurn hit the running turn
    updates,    \* events of the running turn so far
    channel,    \* the relay's subscription
    shed,       \* history: an event was dropped because the channel was full
    ended,      \* history: [messages -> how its turn ended, or "none"]
    perm,       \* [Permissions -> where askPermission is]
    permTable,  \* pendingPermissions
    permSend,   \* permission answers resolvePermission took and not yet sent
    permChan    \* [Permissions -> the decision in its channel, or "none"]

requests == <<prompt, inflight, bound, settled, byTurn>>
cancels == <<cancel, target>>
agent == <<inbox, turn, aborted, updates, channel, shed, ended>>
permissions == <<perm, permTable, permSend, permChan>>
vars == <<link, sess, mounts, requests, cancels, agent, permissions>>

Messages == Prompts \cup Followups

(* turnEndToStopReason.                                                     *)
StopReason(kind) ==
    CASE kind = "max-tokens"  -> "max_tokens"
      [] kind = "interrupted" -> "cancelled"
      [] kind = "refusal"     -> "refusal"
      [] OTHER                -> "end_turn"

Init ==
    /\ link = "open" /\ sess = "none" /\ mounts = FALSE
    /\ prompt = [p \in Prompts |-> "new"] /\ inflight = "none"
    /\ bound = {} /\ settled = [p \in Prompts |-> "none"] /\ byTurn = {}
    /\ cancel = [k \in Cancels |-> "new"] /\ target = [k \in Cancels |-> "none"]
    /\ inbox = <<>> /\ turn = "none" /\ aborted = FALSE /\ updates = 0
    /\ channel = <<>> /\ shed = FALSE
    /\ ended = [m \in Messages |-> "none"]
    /\ perm = [q \in Permissions |-> "new"] /\ permTable = {} /\ permSend = {}
    /\ permChan = [q \in Permissions |-> "none"]

-----------------------------------------------------------------------------
(* Serve's reader fails: no further session is admitted.                    *)
LinkFails ==
    /\ link = "open" /\ link' = "closed"
    /\ UNCHANGED <<sess, mounts, requests, cancels, agent, permissions>>

(* session/new: validate and mount the inline MCP servers ...               *)
MountInlineMCP ==
    /\ sess = "none" /\ link = "open"
    /\ \/ sess' = "mounted" /\ mounts' = TRUE
       \/ sess' = "failed" /\ mounts' = FALSE
    /\ UNCHANGED <<link, requests, cancels, agent, permissions>>

(* ... start the agent and its relay ...                                    *)
StartAgent ==
    /\ sess = "mounted" /\ sess' = "started"
    /\ UNCHANGED <<link, mounts, requests, cancels, agent, permissions>>

(* ... and publish the record, or roll everything back when the connection  *)
(* closed meanwhile.                                                        *)
OpenSession ==
    /\ sess = "started"
    /\ IF link = "open" THEN sess' = "open" /\ mounts' = mounts
                        ELSE sess' = "failed" /\ mounts' = FALSE
    /\ UNCHANGED <<link, requests, cancels, agent, permissions>>

-----------------------------------------------------------------------------
(* session/prompt: one prompt at a time ...                                 *)
PromptClaim(p) ==
    /\ prompt[p] = "new"
    /\ IF sess = "open" /\ inflight = "none"
       THEN prompt' = [prompt EXCEPT ![p] = "claimed"] /\ inflight' = p
       ELSE prompt' = [prompt EXCEPT ![p] = "rejected"] /\ UNCHANGED inflight
    /\ UNCHANGED <<link, sess, mounts, bound, settled, byTurn, cancels, agent, permissions>>

(* ... post its message, then wait for settled ...                          *)
PromptPost(p) ==
    /\ prompt[p] = "claimed" /\ prompt' = [prompt EXCEPT ![p] = "waiting"]
    /\ inbox' = Append(inbox, p)
    /\ UNCHANGED <<link, sess, mounts, inflight, bound, settled, byTurn, cancels, turn, aborted,
                   updates, channel, shed, ended, permissions>>

(* ... and clear the slot.                                                  *)
PromptReturn(p) ==
    /\ prompt[p] = "waiting" /\ settled[p] # "none"
    /\ prompt' = [prompt EXCEPT ![p] = "returned"]
    /\ inflight' = IF inflight = p THEN "none" ELSE inflight
    /\ UNCHANGED <<link, sess, mounts, bound, settled, byTurn, cancels, agent, permissions>>

(* promptInflight.settle: the first reason stays.                           *)
Settle(p, reason) == settled' = [settled EXCEPT ![p] = IF @ = "none" THEN reason ELSE @]

(* session/cancel: read the slot, settle what was there, abort the turn.    *)
CancelRead(k) ==
    /\ cancel[k] = "new" /\ sess = "open"
    /\ cancel' = [cancel EXCEPT ![k] = "settle"]
    /\ target' = [target EXCEPT ![k] = inflight]
    /\ UNCHANGED <<link, sess, mounts, requests, agent, permissions>>

CancelSettle(k) ==
    /\ cancel[k] = "settle" /\ cancel' = [cancel EXCEPT ![k] = "abort"]
    /\ IF target[k] = "none" THEN UNCHANGED settled ELSE Settle(target[k], "cancelled")
    /\ UNCHANGED <<link, sess, mounts, prompt, inflight, bound, byTurn, target, agent,
                   permissions>>

CancelAbort(k) ==
    /\ cancel[k] = "abort" /\ cancel' = [cancel EXCEPT ![k] = "done"]
    /\ aborted' = (aborted \/ turn # "none")
    /\ UNCHANGED <<link, sess, mounts, requests, target, inbox, turn, updates, channel, shed, ended,
                   permissions>>

-----------------------------------------------------------------------------
(* The agent, as its subscribers see it.                                    *)
Deliver(ev) ==
    IF Len(channel) < ChanCap THEN channel' = Append(channel, ev) /\ shed' = shed
                              ELSE channel' = channel /\ shed' = TRUE

PostFollowup(f) ==
    /\ sess = "open" /\ ended[f] = "none" /\ turn # f
    /\ \A i \in DOMAIN inbox : inbox[i] # f
    /\ inbox' = Append(inbox, f)
    /\ UNCHANGED <<link, sess, mounts, requests, cancels, turn, aborted, updates, channel, shed, ended,
                   permissions>>

StartTurn ==
    /\ turn = "none" /\ inbox # <<>>
    /\ turn' = Head(inbox) /\ inbox' = Tail(inbox)
    /\ aborted' = FALSE /\ updates' = 0
    /\ Deliver([type |-> "user", msg |-> Head(inbox), kind |-> "none"])
    /\ UNCHANGED <<link, sess, mounts, requests, cancels, ended, permissions>>

EmitUpdate ==
    /\ turn # "none" /\ updates < MaxUpdates
    /\ updates' = updates + 1
    /\ Deliver([type |-> "update", msg |-> turn, kind |-> "none"])
    /\ UNCHANGED <<link, sess, mounts, requests, cancels, inbox, turn, aborted, ended,
                   permissions>>

EndTurn(kind) ==
    /\ turn # "none" /\ \A q \in Permissions : perm[q] # "waiting"
    /\ aborted <=> kind = "interrupted"
    /\ ended' = [ended EXCEPT ![turn] = kind]
    /\ Deliver([type |-> "end", msg |-> turn, kind |-> kind])
    /\ turn' = "none"
    /\ UNCHANGED <<link, sess, mounts, requests, cancels, inbox, aborted, updates, permissions>>

-----------------------------------------------------------------------------
(* relayEvents, one event at a time: the prompt's own message binds it ...  *)
RelayMessage ==
    /\ channel # <<>> /\ Head(channel).type = "user"
    /\ bound' = IF inflight # "none" /\ Head(channel).msg = inflight THEN bound \cup {inflight} ELSE bound
    /\ channel' = Tail(channel)
    /\ UNCHANGED <<link, sess, mounts, prompt, inflight, settled, byTurn, cancels, inbox, turn, aborted,
                   updates, shed, ended, permissions>>

(* ... replies and tool traffic become session/update notifications ...     *)
RelayUpdate ==
    /\ channel # <<>> /\ Head(channel).type = "update"
    /\ channel' = Tail(channel)
    /\ UNCHANGED <<link, sess, mounts, requests, cancels, inbox, turn, aborted, updates, shed, ended,
                   permissions>>

(* Wrong variant: any turn/end settles the prompt in flight.                *)
RelayTurnEndUnbound ==
    /\ channel # <<>> /\ Head(channel).type = "end"
    /\ channel' = Tail(channel)
    /\ IF inflight # "none"
       THEN /\ byTurn' = IF settled[inflight] = "none" THEN byTurn \cup {inflight} ELSE byTurn
            /\ Settle(inflight, StopReason(Head(channel).kind))
       ELSE UNCHANGED <<settled, byTurn>>
    /\ UNCHANGED <<link, sess, mounts, prompt, inflight, bound, cancels, inbox, turn, aborted, updates,
                   shed, ended, permissions>>

(* ... and a turn/end settles the prompt in flight if it is bound.          *)
RelayTurnEnd ==
    /\ channel # <<>> /\ Head(channel).type = "end"
    /\ channel' = Tail(channel)
    /\ IF inflight # "none" /\ inflight \in bound
       THEN /\ byTurn' = IF settled[inflight] = "none" THEN byTurn \cup {inflight} ELSE byTurn
            /\ Settle(inflight, StopReason(Head(channel).kind))
       ELSE UNCHANGED <<settled, byTurn>>
    /\ UNCHANGED <<link, sess, mounts, prompt, inflight, bound, cancels, inbox, turn, aborted, updates,
                   shed, ended, permissions>>

-----------------------------------------------------------------------------
(* askPermission of a tool in the running turn; a closed bridge cancels.    *)
AskPermission(q) ==
    /\ turn # "none" /\ perm[q] = "new" /\ \A r \in Permissions : perm[r] # "waiting"
    /\ IF link = "open"
       THEN perm' = [perm EXCEPT ![q] = "waiting"] /\ permTable' = permTable \cup {q}
       ELSE perm' = [perm EXCEPT ![q] = "cancelled"] /\ UNCHANGED permTable
    /\ UNCHANGED <<link, sess, mounts, requests, cancels, agent, permSend, permChan>>

(* resolvePermission: take the entry, then send without blocking.           *)
ResolveTake(q) ==
    /\ link = "open" /\ q \in permTable
    /\ permTable' = permTable \ {q} /\ permSend' = permSend \cup {q}
    /\ UNCHANGED <<link, sess, mounts, requests, cancels, agent, perm, permChan>>

ResolveSend(q, decision) ==
    /\ q \in permSend /\ permSend' = permSend \ {q}
    /\ permChan' = [permChan EXCEPT ![q] = decision]
    /\ UNCHANGED <<link, sess, mounts, requests, cancels, agent, perm, permTable>>

(* The decision arrives, or the timer fires; either way the entry goes.     *)
PermissionReturns(q) ==
    /\ perm[q] = "waiting"
    /\ \/ permChan[q] # "none" /\ perm' = [perm EXCEPT ![q] = permChan[q]]
       \/ perm' = [perm EXCEPT ![q] = "cancelled"]
    /\ permTable' = permTable \ {q}
    /\ UNCHANGED <<link, sess, mounts, requests, cancels, agent, permSend, permChan>>

-----------------------------------------------------------------------------
Next ==
    \/ LinkFails \/ MountInlineMCP \/ StartAgent \/ OpenSession
    \/ \E p \in Prompts : PromptClaim(p) \/ PromptPost(p) \/ PromptReturn(p)
    \/ \E k \in Cancels : CancelRead(k) \/ CancelSettle(k) \/ CancelAbort(k)
    \/ \E f \in Followups : PostFollowup(f)
    \/ StartTurn \/ EmitUpdate \/ \E kind \in Kinds \cup {"interrupted"} : EndTurn(kind)
    \/ RelayMessage \/ RelayUpdate \/ RelayTurnEnd
    \/ \E q \in Permissions :
          \/ AskPermission(q) \/ ResolveTake(q) \/ PermissionReturns(q)
          \/ \E d \in {"allow", "deny", "cancelled"} : ResolveSend(q, d)

Spec == Init /\ [][Next]_vars

-----------------------------------------------------------------------------
(* PROPERTIES *)

(* A prompt answered by a turn/end was answered by its own: whatever turns  *)
(* of cancelled prompts and follow-ups end while it waits, the stop reason  *)
(* is that of the turn its message started, unless the relay's channel      *)
(* dropped an event.                                                        *)
SettledByOwnTurn ==
    \A p \in byTurn : shed \/ (ended[p] # "none" /\ settled[p] = StopReason(ended[p]))
==============================================================================
