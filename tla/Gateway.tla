-------------------------------- MODULE Gateway --------------------------------
(***************************************************************************)
(* The gateway's components side by side, each for any constants: the      *)
(* agents of one session (GatewaySessions, extended), the hub that sends   *)
(* its events and approvals to clients, the ACP server and the settings    *)
(* and provider stores (instances).  They share no state: the agent that   *)
(* connects them is modelled in AgentLoop and SessionLog.  What the        *)
(* components promise is stated here once; MCGateway checks it on small    *)
(* instances, Gateway_proofs proves it for every value of the constants.   *)
(***************************************************************************)
EXTENDS GatewaySessions

CONSTANTS
    MuxConns, HostConns, Calls, ChanCap, QueueMax, BacklogLimit, Oversized, MaxEvents, MaxNotices,  \* DownlinkHub
    Prompts, Followups, Cancels, Permissions, Kinds, RelayCap, MaxUpdates,                          \* AcpBridge
    Clients, Requesters, Ids, Vals, ProviderKinds, MaxWrites, MaxVersions, MaxBoots                 \* ConfigStores

VARIABLES
    stored, inflight, channel, hand, pump, shed, conn, staged, backlog, notices,
    ask, pending, answer, resolver, decided,
    link, sess, mounts, prompt, current, bound, settled, byTurn, cancel, target, mailbox, turn,
    aborted, updates, relayChannel, relayShed, ended, perm, permTable, permSend, permChan,
    doc, rev, disk, unusable, boot, seen, creds, credFile, adapter, call, item, versions, heard

Hub == INSTANCE DownlinkHub

Acp == INSTANCE AcpBridge WITH
    ChanCap <- RelayCap,
    inflight <- current, inbox <- mailbox, channel <- relayChannel, shed <- relayShed

Config == INSTANCE ConfigStores WITH
    Requests <- Requesters, Kinds <- ProviderKinds, req <- call

(* The code's limits are 1024 frames and 64 notices; a connection is one of *)
(* the two kinds; an event is oversized by its number.                      *)
ASSUME LimitsAssumption == QueueMax \in Nat \ {0} /\ BacklogLimit \in Nat \ {0}
ASSUME ConnsAssumption == MuxConns \cap HostConns = {} /\ Oversized \subseteq Nat

(* A prompt's message is not also somebody else's, and "none" is neither a  *)
(* message nor a kind of turn/end.                                          *)
ASSUME NamesAssumption ==
    Prompts \cap Followups = {} /\ "none" \notin Prompts \cup Followups /\ "none" \notin Kinds

-----------------------------------------------------------------------------
(* PROPERTIES: those of the components, and NoStrayAgent of GatewaySessions. *)

(* DownlinkHub: the hub never silently loses a stored session event on the  *)
(* way to a registered, open connection, and a connection's writer never    *)
(* sleeps on a frame or a close.                                            *)
DownlinkDelivers == Hub!NoSilentGap /\ Hub!WriterNotStranded

(* DownlinkHub: a client is told one outcome of an approval, the one the    *)
(* tool call got.                                                           *)
OneTerminalFrame == Hub!OneTerminalFrame

(* AcpBridge: a prompt that a turn/end answers is answered by its own turn. *)
SettledByOwnTurn == Acp!SettledByOwnTurn

(* ConfigStores: a matching revision means the section is the one shown,    *)
(* and the settings in force are the ones on disk.                          *)
SettingsTrue == Config!RevisionNamesContent /\ Config!DiskFaithful
==============================================================================
