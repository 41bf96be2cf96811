------------------------------ MODULE MCGateway -------------------------------
(***************************************************************************)
(* The gateway's components on small instances.  They share no state, so a *)
(* behaviour of one beside the others shows nothing that it does not show  *)
(* alone: focus picks the one that moves, and the run explores the sum of  *)
(* their state spaces instead of the product.  A focus may look at a part  *)
(* of a component only, or at another instance of its module.              *)
(***************************************************************************)
EXTENDS Gateway

CONSTANTS p1, k1, q1, q2, c2     \* a prompt, a cancel and permissions of an editor, a settings client

VARIABLE focus

hub == <<stored, inflight, channel, hand, pump, shed, conn, staged, backlog, notices,
         ask, pending, answer, resolver, decided>>
acp == <<link, sess, mounts, prompt, current, bound, settled, byTurn, cancel, target, mailbox, turn,
         aborted, updates, relayChannel, relayShed, ended, perm, permTable, permSend, permChan>>
sessions == vars
config == <<doc, rev, disk, unusable, boot, seen, creds, credFile, adapter, call, item, versions, heard>>
MCvars == <<focus, hub, acp, sessions, config>>

-----------------------------------------------------------------------------
(* Two prompts, a follow-up and a cancel of an editor are what the          *)
(* configuration gives Acp; these are one prompt and its permissions.       *)
Permits == INSTANCE AcpBridge WITH
    Prompts <- {p1}, Followups <- {}, Cancels <- {k1}, Permissions <- {q1, q2},
    Kinds <- {"completed", "max-tokens"}, ChanCap <- 2, MaxUpdates <- 1,
    inflight <- current, inbox <- mailbox, channel <- relayChannel, shed <- relayShed

(* Two requests of any kind.  Three of those that race for the agent are    *)
(* what the configuration gives the extended module.                        *)
Pairs == INSTANCE GatewaySessions WITH
    MaxRequests <- 2,
    Ops <- {"create", "resume", "prompt", "steer", "effort", "rename", "abort", "stop", "delete",
            "inbound", "sdkPrompt", "sdkShutdown"}

(* One session's events to a mux connection, while no host connects, calls  *)
(* or is noticed; and an approval and notices to a host.                    *)
EventsNext == Hub!Next /\ (\A c \in HostConns : conn'[c] = conn[c]) /\ ask' = ask /\ notices' = notices
ApprovalsNext == Hub!Next /\ (\A c \in MuxConns : conn'[c] = conn[c]) /\ stored' = stored

(* Provider requests beside one settings client; two clients alone.         *)
ProvidersNext == Config!Next /\ seen'[c2] = seen[c2] /\ versions' = versions /\ heard' = heard
EditorsNext == Config!Next /\ call' = call

-----------------------------------------------------------------------------
MCInit ==
    /\ focus \in {"events", "prompts", "turns", "permits", "pairs", "races", "providers", "editors"}
    /\ Hub!Init /\ Init /\ Config!Init
    /\ IF focus = "permits" THEN Permits!Init ELSE Acp!Init
    /\ focus \notin {"pairs", "races"} => header = TRUE
    /\ focus \notin {"providers", "editors"} => unusable = FALSE

MCNext ==
    \/ focus = "events" /\ EventsNext /\ UNCHANGED <<focus, acp, sessions, config>>
    \/ focus = "prompts" /\ ApprovalsNext /\ UNCHANGED <<focus, acp, sessions, config>>
    \/ focus = "turns" /\ Acp!Next /\ UNCHANGED <<focus, hub, sessions, config>>
    \/ focus = "permits" /\ Permits!Next /\ UNCHANGED <<focus, hub, sessions, config>>
    \/ focus = "pairs" /\ Pairs!Next /\ UNCHANGED <<focus, hub, acp, config>>
    \/ focus = "races" /\ Next /\ UNCHANGED <<focus, hub, acp, config>>
    \/ focus = "providers" /\ ProvidersNext /\ UNCHANGED <<focus, hub, acp, sessions>>
    \/ focus = "editors" /\ EditorsNext /\ UNCHANGED <<focus, hub, acp, sessions>>

MCSpec == MCInit /\ [][MCNext]_MCvars
==============================================================================
