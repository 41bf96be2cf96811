----------------------------- MODULE DownlinkHub -----------------------------
(***************************************************************************)
(* The gateway's way to its clients (backend/pkg/gateway): one session's   *)
(* pump from the agent's lossy channel to the DownlinkHub, the WebSocket   *)
(* connections with their single-writer queues (websocket_downlink.go),    *)
(* and the approval prompts that askApproval stages, broadcasts and        *)
(* resolves through the same hub (http_router.go).                         *)
(*                                                                         *)
(* An action is one critical section of h.mu, s.mu or d.mu, or one channel *)
(* or socket operation.  A mux connection carries the session's events, a  *)
(* host connection the prompts and lifecycle notices of the process.       *)
(***************************************************************************)
EXTENDS Naturals, Sequences, SequencesExt, FiniteSets

CONSTANTS
    MuxConns, HostConns,  \* connections, each opened at most once
    Calls,          \* askApproval calls of the session, each made at most once
    ChanCap,        \* capacity of the agent's subscriber channel (256)
    QueueMax,       \* downlinkQueueMaxFrames (1024)
    BacklogLimit,   \* hostLifecycleBacklogLimit (64)
    Oversized,      \* events whose frame exceeds downlinkQueueMaxBytes alone
    MaxEvents,      \* bound: events the agent stores
    MaxNotices      \* bound: lifecycle notices broadcast

VARIABLES
    stored,     \* events in the store: 0 .. stored - 1
    inflight,   \* stored events EmitEvent has not yet fanned out
    channel,    \* the subscriber channel of the downlink pump
    hand,       \* what the pump has received and not yet broadcast
    pump,       \* "run", "drain" after the agent stopped, "gone"
    shed,       \* history: events that never reached the pump
    conn,       \* [MuxConns \cup HostConns -> connection]
    staged,     \* stagedFrames: calls whose prompt is replayed to newcomers, in order
    backlog,    \* lifecycleFrames
    notices,    \* bound counter
    ask,        \* [Calls -> where the askApproval call is]
    pending,    \* pendingApprovals
    answer,     \* [Calls -> the decision in its channel, or "none"]
    resolver,   \* resolutions a taker still has to broadcast: {<<call, outcome>>}
    decided     \* history: [Calls -> what askApproval returned]

session == <<stored, inflight, channel, hand, pump, shed>>
approvals == <<ask, pending, answer, resolver, decided>>
vars == <<session, conn, staged, backlog, notices, approvals>>

Conns == MuxConns \cup HostConns
Decisions == {"allowed", "denied", "cancelled"}
Outcomes == Decisions \cup {"timeout"}

EventFrame(n) == <<"event", n>>
PromptFrame(a) == <<"request", a>>
ResolvedFrame(a, outcome) == <<"resolved", a, outcome>>
NoticeFrame(n) == <<"notice", n>>

(* A connection: whether the hub knows it, the buffer of live events while  *)
(* its snapshot is fetched, and the downlinkConn behind it.                 *)
NewConn == [stage |-> "new", registered |-> FALSE, buffering |-> FALSE, buffer |-> <<>>,
            from |-> 0, snapshot |-> <<>>, complete |-> TRUE,
            queue |-> <<>>, closed |-> FALSE, failing |-> FALSE, broken |-> FALSE,
            writer |-> "look", token |-> FALSE, got |-> <<>>]

Init ==
    /\ stored = 0 /\ inflight = {} /\ channel = <<>> /\ hand = <<>>
    /\ pump = "run" /\ shed = {}
    /\ conn = [c \in Conns |-> NewConn]
    /\ staged = <<>> /\ backlog = <<>> /\ notices = 0
    /\ ask = [a \in Calls |-> "new"] /\ pending = {}
    /\ answer = [a \in Calls |-> "none"] /\ resolver = {}
    /\ decided = [a \in Calls |-> "none"]

-----------------------------------------------------------------------------
(* downlinkConn *)

FrameTooLarge(f) == f[1] = "event" /\ f[2] \in Oversized

(* enqueue: a closed connection ignores the frame, a full one is closed and *)
(* failed by a goroutine of its own, any other gets the frame and a token.  *)
Enqueue(d, f) ==
    IF d.closed THEN d
    ELSE IF Len(d.queue) >= QueueMax \/ FrameTooLarge(f)
    THEN [d EXCEPT !.closed = TRUE, !.failing = TRUE]
    ELSE [d EXCEPT !.queue = Append(@, f), !.token = TRUE]

EnqueueAll(d, frames) ==
    LET after[n \in 0 .. Len(frames)] == IF n = 0 THEN d ELSE Enqueue(after[n - 1], frames[n])
    IN  after[Len(frames)]

(* Wrong variant: close leaves the writer asleep.                           *)
CloseSilently(d) == [d EXCEPT !.closed = TRUE]

(* close: nothing for a closed connection, else mark it and wake the writer.*)
Close(d) == IF d.closed THEN d ELSE [d EXCEPT !.closed = TRUE, !.token = TRUE]

(* unregisterMux / unregisterHost: forget the connection, close its queue.  *)
Unregister(d) == [Close(d) EXCEPT !.registered = FALSE, !.buffering = FALSE, !.buffer = <<>>]

(* fail, once: mark it closed, close the socket, then onFail.               *)
Fail(d) == Unregister([d EXCEPT !.closed = TRUE, !.failing = FALSE, !.broken = TRUE])

Update(c, d) == conn' = [conn EXCEPT ![c] = d]

(* fail in the goroutine that enqueue started.                              *)
FailAsync(c) ==
    /\ conn[c].failing
    /\ Update(c, Fail(conn[c]))
    /\ UNCHANGED <<session, staged, backlog, notices, approvals>>

(* writePump with a frame: written, or the socket fails.  A broken socket   *)
(* always fails.                                                            *)
WriteFrame(c) ==
    LET d == conn[c]
        popped == [d EXCEPT !.queue = Tail(@)]
    IN  /\ d.writer = "look" /\ d.stage # "new" /\ d.queue # <<>>
        /\ \/ ~d.broken /\ Update(c, [popped EXCEPT !.got = Append(@, Head(d.queue))])
           \/ Update(c, [Fail(popped) EXCEPT !.writer = "done"])
        /\ UNCHANGED <<session, staged, backlog, notices, approvals>>

(* writePump without one: exit when closed, else wait for a token.          *)
WriterIdle(c) ==
    /\ conn[c].writer = "look" /\ conn[c].stage # "new" /\ conn[c].queue = <<>>
    /\ Update(c, [conn[c] EXCEPT !.writer = IF conn[c].closed THEN "done" ELSE "wait"])
    /\ UNCHANGED <<session, staged, backlog, notices, approvals>>

WriterWakes(c) ==
    /\ conn[c].writer = "wait" /\ conn[c].token
    /\ Update(c, [conn[c] EXCEPT !.writer = "look", !.token = FALSE])
    /\ UNCHANGED <<session, staged, backlog, notices, approvals>>

(* The reader of HandleMux / HandleHost ends: the peer left, sent something *)
(* or went silent, or fail closed the socket.  Its defers unregister and    *)
(* close.                                                                   *)
ReaderEnds(c) ==
    /\ conn[c].stage = "reading"
    /\ Update(c, [Unregister(conn[c]) EXCEPT !.stage = "ended", !.broken = TRUE])
    /\ UNCHANGED <<session, staged, backlog, notices, approvals>>

-----------------------------------------------------------------------------
(* Registration and replay *)

StagedFrames == [i \in 1 .. Len(staged) |-> PromptFrame(staged[i])]

(* Wrong variant: the connection is registered only with its snapshot.      *)
RegisterMuxPendingLate(c, from) ==
    /\ conn[c].stage = "new"
    /\ Update(c, EnqueueAll([conn[c] EXCEPT !.stage = "query", !.from = from], StagedFrames))
    /\ UNCHANGED <<session, staged, backlog, notices, approvals>>

(* HandleMux up to registerMuxPending: from here on live events are kept.   *)
RegisterMuxPending(c, from) ==
    /\ conn[c].stage = "new"
    /\ Update(c, EnqueueAll([conn[c] EXCEPT !.stage = "query", !.from = from,
                                            !.registered = TRUE, !.buffering = TRUE],
                            StagedFrames))
    /\ UNCHANGED <<session, staged, backlog, notices, approvals>>

StoredFrom(from) == [i \in 1 .. stored - from |-> from + i - 1]

(* Hub.Replay, outside h.mu: the stored events from fromSeq on, or nothing  *)
(* when the store fails.                                                    *)
QueryHistory(c) ==
    /\ conn[c].stage = "query"
    /\ \/ Update(c, [conn[c] EXCEPT !.stage = "finish", !.snapshot = StoredFrom(conn[c].from)])
       \/ Update(c, [conn[c] EXCEPT !.stage = "finish", !.complete = FALSE])
    /\ UNCHANGED <<session, staged, backlog, notices, approvals>>

(* The seen map: a repeated sequence number is skipped, but 0 never counts  *)
(* as seen.                                                                 *)
Deduplicate(s) ==
    LET out[n \in 0 .. Len(s)] ==
            IF n = 0 THEN <<>>
            ELSE IF s[n] > 0 /\ Contains(out[n - 1], s[n]) THEN out[n - 1] ELSE Append(out[n - 1], s[n])
    IN  out[Len(s)]

(* finishMuxReplay: the snapshot, then the buffer; live from now on.  A     *)
(* connection that failed meanwhile gets nothing.                           *)
FinishMuxReplay(c) ==
    LET d == conn[c]
        events == Deduplicate(d.snapshot \o d.buffer)
        frames == [i \in DOMAIN events |-> EventFrame(events[i])]
        done == [d EXCEPT !.stage = "reading", !.snapshot = <<>>]
    IN  /\ d.stage = "finish"
        /\ IF d.registered
           THEN Update(c, [EnqueueAll(done, frames) EXCEPT !.buffering = FALSE, !.buffer = <<>>])
           ELSE Update(c, done)
        /\ UNCHANGED <<session, staged, backlog, notices, approvals>>

(* pruneLifecycleLocked: the oldest notices have expired.                   *)
Pruned == {SubSeq(backlog, k, Len(backlog)) : k \in 1 .. Len(backlog) + 1}

(* registerHost: the staged prompts and the notices nobody has seen.        *)
RegisterHost(c) ==
    /\ conn[c].stage = "new"
    /\ \E kept \in Pruned :
          Update(c, EnqueueAll([conn[c] EXCEPT !.stage = "reading", !.registered = TRUE],
                               StagedFrames \o kept))
    /\ backlog' = <<>>
    /\ UNCHANGED <<session, staged, notices, approvals>>

-----------------------------------------------------------------------------
(* Session events *)

(* EmitEvent has persisted an event; its fan-out comes later.               *)
Persist ==
    /\ stored < MaxEvents /\ pump # "gone"
    /\ stored' = stored + 1
    /\ inflight' = inflight \cup {stored}
    /\ UNCHANGED <<channel, hand, pump, shed, conn, staged, backlog, notices, approvals>>

(* EmitEvent's fan-out: a full channel, or none after Unsubscribe, loses it.*)
FanOut ==
    \E n \in inflight :
        /\ inflight' = inflight \ {n}
        /\ IF pump # "gone" /\ Len(channel) < ChanCap
           THEN channel' = Append(channel, n) /\ shed' = shed
           ELSE channel' = channel /\ shed' = shed \cup {n}
        /\ UNCHANGED <<stored, hand, pump, conn, staged, backlog, notices, approvals>>

PumpReceive ==
    /\ pump # "gone" /\ hand = <<>> /\ channel # <<>>
    /\ hand' = <<Head(channel)>> /\ channel' = Tail(channel)
    /\ UNCHANGED <<stored, inflight, pump, shed, conn, staged, backlog, notices, approvals>>

(* BroadcastSessionEvent, under h.mu: buffered for a connection that awaits *)
(* its snapshot, enqueued for the others.                                   *)
BroadcastSessionEvent ==
    /\ hand # <<>>
    /\ conn' = [c \in Conns |->
            IF ~conn[c].registered \/ c \in HostConns THEN conn[c]
            ELSE IF conn[c].buffering THEN [conn[c] EXCEPT !.buffer = Append(@, hand[1])]
            ELSE Enqueue(conn[c], EventFrame(hand[1]))]
    /\ hand' = <<>>
    /\ UNCHANGED <<stored, inflight, channel, pump, shed, staged, backlog, notices, approvals>>

(* session.stop: the pump goes on for one grace period, then unsubscribes   *)
(* and what is left in its channel is gone.                                 *)
StopAgent ==
    /\ pump = "run" /\ pump' = "drain"
    /\ UNCHANGED <<stored, inflight, channel, hand, shed, conn, staged, backlog, notices, approvals>>

DrainExpires ==
    /\ pump = "drain" /\ hand = <<>>
    /\ pump' = "gone" /\ channel' = <<>> /\ shed' = shed \cup ToSet(channel)
    /\ UNCHANGED <<stored, inflight, hand, conn, staged, backlog, notices, approvals>>

-----------------------------------------------------------------------------
(* Host frames and approvals *)

Hosts == {c \in HostConns : conn[c].registered}
ToHosts(f) == conn' = [c \in Conns |-> IF c \in Hosts THEN Enqueue(conn[c], f) ELSE conn[c]]

(* BroadcastHostEvent of a lifecycle method: with no host connected it is   *)
(* kept, the oldest making room.                                            *)
BroadcastNotice ==
    /\ notices < MaxNotices
    /\ notices' = notices + 1
    /\ IF Hosts = {}
       THEN /\ \E kept \in Pruned : backlog' = Append(
                    IF Len(kept) >= BacklogLimit THEN Tail(kept) ELSE kept, NoticeFrame(notices))
            /\ UNCHANGED conn
       ELSE ToHosts(NoticeFrame(notices)) /\ UNCHANGED backlog
    /\ UNCHANGED <<session, staged, approvals>>

AskTo(a, stage) == ask' = [ask EXCEPT ![a] = stage]

(* askApproval: register the call, stage its prompt, broadcast it, wait.    *)
AskRegister(a) ==
    /\ ask[a] = "new" /\ AskTo(a, "stage")
    /\ pending' = pending \cup {a}
    /\ UNCHANGED <<session, conn, staged, backlog, notices, answer, resolver, decided>>

AskStage(a) ==
    /\ ask[a] = "stage" /\ AskTo(a, "broadcast")
    /\ staged' = Append(staged, a)
    /\ UNCHANGED <<session, conn, backlog, notices, pending, answer, resolver, decided>>

AskBroadcast(a) ==
    /\ ask[a] = "broadcast" /\ AskTo(a, "wait")
    /\ ToHosts(PromptFrame(a))
    /\ UNCHANGED <<session, staged, backlog, notices, pending, answer, resolver, decided>>

(* The decision arrives.                                                    *)
AskAnswered(a) ==
    /\ ask[a] = "wait" /\ answer[a] # "none"
    /\ AskTo(a, "returned")
    /\ decided' = [decided EXCEPT ![a] = answer[a]]
    /\ UNCHANGED <<session, conn, staged, backlog, notices, pending, answer, resolver>>

(* Wrong variant: the timeout does not look whether the call is pending.    *)
AskTimeoutBlind(a) ==
    /\ ask[a] = "wait"
    /\ pending' = pending \ {a}
    /\ AskTo(a, "returned") /\ decided' = [decided EXCEPT ![a] = "timeout"]
    /\ resolver' = resolver \cup {<<a, "timeout">>}
    /\ UNCHANGED <<session, conn, staged, backlog, notices, answer>>

(* The timer fires: whoever takes the pending entry owns the outcome.       *)
AskTimeout(a) ==
    /\ ask[a] = "wait"
    /\ pending' = pending \ {a}
    /\ IF a \in pending
       THEN /\ AskTo(a, "returned") /\ decided' = [decided EXCEPT ![a] = "timeout"]
            /\ resolver' = resolver \cup {<<a, "timeout">>}
       ELSE AskTo(a, "receive") /\ UNCHANGED <<decided, resolver>>
    /\ UNCHANGED <<session, conn, staged, backlog, notices, answer>>

AskReceive(a) ==
    /\ ask[a] = "receive" /\ answer[a] # "none"
    /\ AskTo(a, "returned")
    /\ decided' = [decided EXCEPT ![a] = answer[a]]
    /\ UNCHANGED <<session, conn, staged, backlog, notices, pending, answer, resolver>>

(* approval.respond by a client that was shown the prompt: take the entry   *)
(* and deliver, in one section of s.mu.                                     *)
Respond(a, decision) ==
    /\ a \in pending /\ \E c \in Conns : Contains(conn[c].got, PromptFrame(a))
    /\ pending' = pending \ {a}
    /\ answer' = [answer EXCEPT ![a] = decision]
    /\ resolver' = resolver \cup {<<a, decision>>}
    /\ UNCHANGED <<session, conn, staged, backlog, notices, ask, decided>>

(* cancelSessionApprovals (session.abort, session.stop): take every entry   *)
(* of the session, then cancel and resolve one call after the other.        *)
CancelSessionApprovals ==
    /\ pending # {}
    /\ pending' = {}
    /\ resolver' = resolver \cup {<<a, "cancel">> : a \in pending}
    /\ UNCHANGED <<session, conn, staged, backlog, notices, ask, answer, decided>>

CancelDeliver(a) ==
    /\ <<a, "cancel">> \in resolver
    /\ answer' = [answer EXCEPT ![a] = "cancelled"]
    /\ resolver' = (resolver \ {<<a, "cancel">>}) \cup {<<a, "cancelled">>}
    /\ UNCHANGED <<session, conn, staged, backlog, notices, ask, pending, decided>>

Unstaged(a) ==
    IF Contains(staged, a)
    THEN LET i == CHOOSE k \in DOMAIN staged : staged[k] = a
         IN SubSeq(staged, 1, i - 1) \o SubSeq(staged, i + 1, Len(staged))
    ELSE staged

(* resolvePermission: tell the hosts and unstage, in one section of h.mu.   *)
ResolvePermission(a, outcome) ==
    /\ <<a, outcome>> \in resolver
    /\ resolver' = resolver \ {<<a, outcome>>}
    /\ ToHosts(ResolvedFrame(a, outcome))
    /\ staged' = Unstaged(a)
    /\ UNCHANGED <<session, backlog, notices, ask, pending, answer, decided>>

-----------------------------------------------------------------------------
Connection(c) == FailAsync(c) \/ WriteFrame(c) \/ WriterIdle(c) \/ WriterWakes(c) \/ ReaderEnds(c)
Approval(a) ==
    \/ AskRegister(a) \/ AskStage(a) \/ AskBroadcast(a) \/ AskAnswered(a)
    \/ AskTimeout(a) \/ AskReceive(a) \/ CancelDeliver(a)
    \/ \E d \in Decisions : Respond(a, d)
    \/ \E o \in Outcomes : ResolvePermission(a, o)

Next ==
    \/ \E c \in Conns : Connection(c)
    \/ \E c \in MuxConns : QueryHistory(c) \/ FinishMuxReplay(c)
                           \/ \E from \in 0 .. stored : RegisterMuxPending(c, from)
    \/ \E c \in HostConns : RegisterHost(c)
    \/ Persist \/ FanOut \/ PumpReceive \/ BroadcastSessionEvent \/ StopAgent \/ DrainExpires
    \/ BroadcastNotice \/ CancelSessionApprovals
    \/ \E a \in Calls : Approval(a)

Spec == Init /\ [][Next]_vars

-----------------------------------------------------------------------------
(* PROPERTIES *)

(* The hub never silently loses a session event: for a registered mux       *)
(* connection that is not closed and whose snapshot could be read, every    *)
(* stored event from fromSeq on has been sent, is queued or buffered, is in *)
(* the snapshot, or is still on its way to the hub; the only events missing *)
(* are those the agent's own channel shed before the hub saw them.          *)
NoSilentGap ==
    \A c \in MuxConns : conn[c].stage \in {"finish", "reading"} /\ ~conn[c].closed /\ conn[c].complete =>
        \A n \in conn[c].from .. stored - 1 :
            \/ n \in inflight \cup ToSet(channel) \cup ToSet(hand) \cup shed
            \/ n \in ToSet(conn[c].snapshot) \cup ToSet(conn[c].buffer)
            \/ EventFrame(n) \in ToSet(conn[c].queue) \cup ToSet(conn[c].got)

(* The writer of a connection never sleeps on work: while it waits, a       *)
(* queued frame or a close has left a token, except for a close by a frame  *)
(* over the byte bound, which wakes nobody.                                 *)
WriterNotStranded ==
    \A c \in Conns : conn[c].writer = "wait" /\ ~conn[c].token =>
        conn[c].queue = <<>> /\ (conn[c].closed => \E n \in Oversized : n < stored)

Told(c) == conn[c].got \o conn[c].queue
Terminal(c, a) == {i \in DOMAIN Told(c) : Told(c)[i][1] = "resolved" /\ Told(c)[i][2] = a}

(* One terminal frame per call: whichever of answer, timeout and cancel     *)
(* wins the pending entry, no host connection is told two outcomes of one   *)
(* call, and the outcome it is told is the one askApproval returns.         *)
OneTerminalFrame ==
    \A c \in HostConns, a \in Calls :
        /\ \A i, j \in Terminal(c, a) : i = j
        /\ decided[a] # "none" => \A i \in Terminal(c, a) : Told(c)[i] = ResolvedFrame(a, decided[a])

(* What resolvePermission's comment promises ("never a resurrected          *)
(* prompt"): once a call is decided and its resolution broadcast, its       *)
(* prompt is no longer replayed to connections that come later.             *)
NoDeadPrompt ==
    \A a \in Calls : ask[a] = "returned" /\ (\A o \in Outcomes : <<a, o>> \notin resolver) => ~Contains(staged, a)
==============================================================================
