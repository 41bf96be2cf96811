---------------------------- MODULE McpSupervisor -----------------------------
(***************************************************************************)
(* The connection supervisor of one MCP server (backend/pkg/mcp).          *)
(* NewStdioSupervisor and NewHttpSupervisor connect from the goroutine of  *)
(* the caller ("start"); the goroutine "run" watches the connection and    *)
(* reconnects when it is lost; Close runs in a third.  A connection is     *)
(* followed by a fetch of the whole tool list and by a swap of the         *)
(* registered tools, which holds s.mu but shares the tool registry with    *)
(* every other server.                                                     *)
(*                                                                         *)
(* connectGeneration, generationDown, scheduleReconnect and reconnectNow   *)
(* call each other recursively: a frame whose connection attempt failed    *)
(* will schedule a reconnect when the calls above it return, and owed      *)
(* counts those frames.                                                    *)
(***************************************************************************)
EXTENDS Naturals, FiniteSets

CONSTANTS
    Lists,          \* tool lists the server may offer: sets of names
    Shared,         \* names another server may register as well
    MaxAttempts,    \* reconnect.maxAttempts
    FailOnStartup,  \* cfg.FailOnStartupError
    MaxDials        \* bound: connections that succeed

VARIABLES
    thr,        \* [threads -> [at, gen, owed, defs, new]]
    mu,         \* who holds s.mu across steps, or "free"
    conn,       \* s.conn: a connection, or 0
    dials,      \* connections so far: 1 .. dials
    up,         \* connections whose peer is still there
    connSet,    \* how often signalConnSet closed the channel
    snapshot,   \* the channel run waits on
    offer,      \* what the server lists now
    changed,    \* connections with a tools/list_changed notification queued
    owner,      \* the tool registry: [names -> "none", "mine" or "other"]
    disposers,  \* s.disposers: names this supervisor registered
    failed,     \* s.failed
    since,      \* s.connectedAt: "zero", "recent" or at least maxDelayMs ago, "stable"
    closed, stopping, reserved

vars == <<thr, mu, conn, dials, up, connSet, snapshot, offer, changed, owner, disposers,
          failed, since, closed, stopping, reserved>>
remote == <<dials, up, offer, changed>>
tools == <<owner, disposers>>
budget == <<failed, since>>
ending == <<closed, stopping, reserved>>
signal == <<connSet, snapshot>>

Threads == {"start", "run"}
Names == (UNION Lists) \cup Shared
Mine == {n \in Names : owner[n] = "mine"}

Init ==
    /\ thr = [t \in Threads |-> [at |-> IF t = "start" THEN "dial" ELSE "loop", gen |-> 0, owed |-> 0,
                                 defs |-> {}, new |-> FALSE]]
    /\ mu = "free" /\ conn = 0 /\ dials = 0 /\ up = {} /\ connSet = 0 /\ snapshot = 0
    /\ offer \in Lists /\ changed = {} /\ owner = [n \in Names |-> "none"] /\ disposers = {}
    /\ failed = 0 /\ since = "zero" /\ closed = FALSE /\ stopping = "no" /\ reserved = TRUE

At(t, stage) == thr[t].at = stage
Go(t, stage) == thr' = [thr EXCEPT ![t].at = stage]

-----------------------------------------------------------------------------
(* Returning: the innermost frame that owes a reconnect schedules it; only  *)
(* the outermost frame of start reports the error instead, on request.      *)
Returned(t, frames) ==
    /\ thr' = [thr EXCEPT ![t].owed = IF frames > 0 THEN frames - 1 ELSE 0,
                          ![t].at = IF frames = 1 /\ t = "start" /\ FailOnStartup THEN "failed"
                                   ELSE IF frames > 0 THEN "schedule"
                                   ELSE IF t = "start" THEN "started"
                                   ELSE "loop"]
    /\ reserved' = (reserved /\ ~(frames = 1 /\ t = "start" /\ FailOnStartup))

Return(t) == Returned(t, thr[t].owed)
ReturnError(t) == Returned(t, thr[t].owed + 1)

(* dial of connectGeneration: the transport and the initialize handshake.   *)
DialFails(t) ==
    /\ At(t, "dial") /\ ReturnError(t)
    /\ UNCHANGED <<mu, conn, remote, signal, tools, budget, closed, stopping>>

Dial(t) ==
    /\ At(t, "dial") /\ dials < MaxDials /\ mu = "free"
    /\ dials' = dials + 1 /\ up' = up \cup {dials + 1}
    /\ conn' = dials + 1 /\ connSet' = connSet + 1
    /\ thr' = [thr EXCEPT ![t].at = "fetch", ![t].gen = dials + 1]
    /\ UNCHANGED <<mu, snapshot, offer, changed, tools, budget, ending>>

(* fetchGeneration: all pages of tools/list, each a call on the connection. *)
Fetch(t) ==
    /\ At(t, "fetch") /\ thr[t].gen \in up
    /\ thr' = [thr EXCEPT ![t].at = "swap", ![t].defs = offer, ![t].new = TRUE]
    /\ UNCHANGED <<mu, conn, remote, signal, tools, budget, ending>>

(* A page fails or times out, or the server lists a name twice.             *)
FetchFails(t) ==
    /\ At(t, "fetch") /\ Go(t, "down")
    /\ UNCHANGED <<mu, conn, remote, signal, tools, budget, ending>>

(* generationDown, for the connection t holds.  In connectGeneration its    *)
(* caller gets the error and schedules once more.                           *)
GenerationDown(t) ==
    LET frames == thr[t].owed + (IF At(t, "down") THEN 1 ELSE 0) IN
    /\ thr[t].at \in {"down", "lost"} /\ mu = "free"
    /\ \/ /\ closed \/ conn # thr[t].gen
          /\ Returned(t, frames) /\ UNCHANGED <<conn, connSet>>
       \/ /\ ~closed /\ conn = thr[t].gen
          /\ conn' = 0 /\ connSet' = connSet + 1
          /\ thr' = [thr EXCEPT ![t].at = "schedule", ![t].owed = frames]
          /\ UNCHANGED reserved
    /\ UNCHANGED <<mu, remote, snapshot, tools, budget, closed, stopping>>

(* scheduleReconnect: the budget of an outage.                              *)
ScheduleReconnect(t) ==
    /\ At(t, "schedule") /\ mu = "free"
    /\ failed' = (IF since = "stable" THEN 0 ELSE failed) + 1
    /\ since' = "zero"
    /\ IF closed THEN Return(t)
       ELSE /\ Go(t, IF failed' > MaxAttempts THEN "giveup" ELSE "backoff")
            /\ UNCHANGED reserved
    /\ UNCHANGED <<mu, conn, remote, signal, tools, closed, stopping>>

Dispose(names) == owner' = [n \in Names |-> IF n \in names THEN "none" ELSE owner[n]]

GiveUp(t) ==
    /\ At(t, "giveup") /\ mu = "free"
    /\ Dispose(disposers) /\ disposers' = {}
    /\ Return(t)
    /\ UNCHANGED <<mu, conn, remote, signal, budget, closed, stopping>>

(* The delay, or stop; then reconnectNow.                                   *)
Backoff(t) ==
    /\ At(t, "backoff")
    /\ \/ stopping # "no" /\ Return(t)
       \/ mu = "free" /\ closed /\ Return(t)
       \/ mu = "free" /\ ~closed /\ Go(t, "dial") /\ UNCHANGED reserved
    /\ UNCHANGED <<mu, conn, remote, signal, tools, budget, closed, stopping>>

-----------------------------------------------------------------------------
(* swapGeneration: with s.mu held, the previous generation out, the next    *)
(* one in, name by name; a name that is taken rolls the generation back.    *)
SwapBegin(t) ==
    /\ At(t, "swap") /\ mu = "free"
    /\ mu' = t
    /\ Dispose(disposers) /\ disposers' = {}
    /\ Go(t, "register")
    /\ UNCHANGED <<conn, remote, signal, budget, ending>>

SwapRegister(t, n) ==
    /\ At(t, "register") /\ n \in thr[t].defs \ disposers /\ owner[n] = "none"
    /\ owner' = [owner EXCEPT ![n] = "mine"] /\ disposers' = disposers \cup {n}
    /\ UNCHANGED <<thr, mu, conn, remote, signal, budget, ending>>

(* Wrong variant: the names registered before the conflict stay.            *)
SwapConflictKeeps(t) ==
    /\ At(t, "register") /\ \E n \in thr[t].defs \ disposers : owner[n] # "none"
    /\ disposers' = {}
    /\ Go(t, "swapped")
    /\ UNCHANGED <<mu, conn, remote, signal, owner, budget, ending>>

SwapConflict(t) ==
    /\ At(t, "register") /\ \E n \in thr[t].defs \ disposers : owner[n] # "none"
    /\ Dispose(disposers) /\ disposers' = {}
    /\ Go(t, "swapped")
    /\ UNCHANGED <<mu, conn, remote, signal, budget, ending>>

(* s.mu is released; a new connection starts its stable period.  run goes   *)
(* back to its loop after a resync, whatever it owes being nothing.         *)
SwapEnd(t) ==
    /\ \/ At(t, "swapped")
       \/ At(t, "register") /\ thr[t].defs = disposers
    /\ mu' = "free"
    /\ since' = IF thr[t].new THEN "recent" ELSE since
    /\ Return(t)
    /\ UNCHANGED <<conn, remote, signal, tools, failed, closed, stopping>>

-----------------------------------------------------------------------------
(* run                                                                      *)

(* One look at conn and closed, a second at connSet, then the select.       *)
RunLook ==
    /\ At("run", "loop") /\ mu = "free"
    /\ thr' = [thr EXCEPT !["run"].at = IF closed THEN "exit" ELSE IF conn = 0 THEN "look" ELSE "watch",
                          !["run"].gen = conn, !["run"].new = FALSE]
    /\ UNCHANGED <<mu, conn, remote, signal, tools, budget, ending>>

RunSnapshot ==
    /\ At("run", "look") /\ mu = "free"
    /\ snapshot' = connSet /\ Go("run", "wait")
    /\ UNCHANGED <<mu, conn, remote, connSet, tools, budget, ending>>

RunWake ==
    /\ At("run", "wait")
    /\ \/ stopping # "no" /\ Go("run", "exit")
       \/ connSet # snapshot /\ Go("run", "loop")
    /\ UNCHANGED <<mu, conn, remote, signal, tools, budget, ending>>

(* The connection is done.  It counts when it is still the current one.     *)
RunLost ==
    /\ At("run", "watch") /\ mu = "free" /\ thr["run"].gen \notin up
    /\ Go("run", IF conn = thr["run"].gen /\ ~closed THEN "lost" ELSE "loop")
    /\ UNCHANGED <<mu, conn, remote, signal, tools, budget, ending>>

RunStop ==
    /\ At("run", "watch") /\ stopping # "no" /\ Go("run", "exit")
    /\ UNCHANGED <<mu, conn, remote, signal, tools, budget, ending>>

(* handleNotify: resync on whatever connection is current now.              *)
HandleNotify ==
    /\ At("run", "watch") /\ mu = "free" /\ thr["run"].gen \in changed
    /\ changed' = changed \ {thr["run"].gen}
    /\ thr' = [thr EXCEPT !["run"].at = IF conn = 0 THEN "loop" ELSE "resync", !["run"].gen = conn]
    /\ UNCHANGED <<mu, conn, dials, up, offer, signal, tools, budget, ending>>

(* syncGeneration: a failed fetch leaves the tools as they are.             *)
SyncGeneration ==
    /\ At("run", "resync")
    /\ \/ thr["run"].gen \in up /\ thr' = [thr EXCEPT !["run"].at = "swap", !["run"].defs = offer]
       \/ Go("run", "loop")
    /\ UNCHANGED <<mu, conn, remote, signal, tools, budget, ending>>

-----------------------------------------------------------------------------
(* Close, which the owner can call once the constructor has returned it.    *)
Close ==
    /\ At("start", "started") /\ ~closed /\ mu = "free"
    /\ closed' = TRUE /\ conn' = 0 /\ stopping' = "stop"
    /\ Dispose(disposers) /\ disposers' = {}
    /\ connSet' = connSet + 1
    /\ up' = up \ {conn}
    /\ UNCHANGED <<thr, mu, dials, offer, changed, snapshot, budget, reserved>>

CloseEnd ==
    /\ stopping = "stop" /\ At("run", "exit")
    /\ stopping' = "done" /\ reserved' = FALSE
    /\ UNCHANGED <<thr, mu, conn, remote, signal, tools, budget, closed>>

(* The world: the server goes away, changes its list, or time passes; and   *)
(* another server takes or gives up a name they share.                      *)
PeerGone(c) ==
    /\ c \in up /\ up' = up \ {c}
    /\ UNCHANGED <<thr, mu, conn, dials, offer, changed, signal, tools, budget, ending>>

ListChanged(l) ==
    /\ l # offer /\ changed = {} /\ up # {}
    /\ offer' = l /\ changed' = up
    /\ UNCHANGED <<thr, mu, conn, dials, up, signal, tools, budget, ending>>

Stabilise ==
    /\ since = "recent" /\ since' = "stable"
    /\ UNCHANGED <<thr, mu, conn, remote, signal, tools, failed, ending>>

Other(n) ==
    /\ owner[n] # "mine"
    /\ owner' = [owner EXCEPT ![n] = IF @ = "none" THEN "other" ELSE "none"]
    /\ UNCHANGED <<thr, mu, conn, remote, signal, disposers, budget, ending>>

-----------------------------------------------------------------------------
Next ==
    \/ \E t \in Threads :
        \/ DialFails(t) \/ Dial(t) \/ Fetch(t) \/ FetchFails(t) \/ GenerationDown(t)
        \/ ScheduleReconnect(t) \/ GiveUp(t) \/ Backoff(t)
        \/ SwapBegin(t) \/ SwapConflict(t) \/ SwapEnd(t)
        \/ \E n \in Names : SwapRegister(t, n)
    \/ RunLook \/ RunSnapshot \/ RunWake \/ RunLost \/ RunStop \/ HandleNotify \/ SyncGeneration
    \/ Close \/ CloseEnd
    \/ \E c \in up : PeerGone(c)
    \/ \E l \in Lists : ListChanged(l)
    \/ Stabilise
    \/ \E n \in Shared : Other(n)

Spec == Init /\ [][Next]_vars

-----------------------------------------------------------------------------
(* Whenever no swap is under way, the registry holds one whole tool list of *)
(* the server or none of it, exactly the names the supervisor can dispose:  *)
(* the two-phase contract of bridge.go, whatever the interleaving of start, *)
(* reconnects, resyncs, give-up and Close, and whatever another server      *)
(* registers meanwhile.                                                     *)
WholeGeneration ==
    mu = "free" => Mine = disposers /\ Mine \in Lists \cup {{}}
==============================================================================
