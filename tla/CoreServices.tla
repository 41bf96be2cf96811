---------------------------- MODULE CoreServices -----------------------------
(***************************************************************************)
(* The owner-scoped services of backend/core: the plugin registry          *)
(* (registry.go), the reload manager (reload.go), and the timers and the   *)
(* event bus (tasks.go).  Each protects its maps with a mutex and runs     *)
(* user code (Plugin.Load, a factory, Close, a callback) outside it.       *)
(*                                                                         *)
(* Handles of plugins and owners of the reload manager are numbered in the *)
(* order they are built; a request is one call of a service's method, and  *)
(* the services share no state, so one sequence of requests drives all.    *)
(***************************************************************************)
EXTENDS Naturals, Sequences, FiniteSets

CONSTANTS
    Plugins,        \* number of plugins, in the order LoadContext sorts them
    Ops,            \* calls a request may be
    MaxRequests,    \* bound: requests
    MaxTimers       \* bound: timers and subscriptions

VARIABLES
    req,        \* requests so far: [op, at, got, old, prev, copy]
    built,      \* handles and owners so far: "open" or "closed", and how often closed
    handles,    \* Registry.handles: a handle per plugin, 0 for none
    reloadMu,   \* the request that holds it, or 0
    owner,      \* ReloadManager.owner and config, committed together: [of, config]
    timer,      \* timers so far: [owner, pending, chan, at]
    subs        \* the handlers of one topic, in order: <<subscribing request, owner>>

vars == <<req, built, handles, reloadMu, owner, timer, subs>>
reload == <<reloadMu, owner>>

Requests == DOMAIN req
Owners == {"p", "q"}
NoOwner == [of |-> 0, config |-> 0]
Held(r) == {req[r].got[i] : i \in DOMAIN req[r].got} \cup req[r].old

Init ==
    /\ req = <<>> /\ reloadMu = 0 /\ timer = <<>> /\ subs = <<>>
    /\ built = <<0>>                                        \* NewReloadManager's first owner
    /\ owner = [of |-> 1, config |-> 0]
    /\ handles = [p \in 1 .. Plugins |-> 0]

Arrive(op) ==
    /\ Len(req) < MaxRequests
    /\ req' = Append(req, [op |-> op, got |-> <<>>, old |-> {}, prev |-> NoOwner, copy |-> <<>>,
                           at |-> CASE op = "load" -> "load" [] op = "unload" -> "take"
                                    [] op \in {"reload", "reloadCurrent"} -> "lock" [] OTHER -> op])
    /\ UNCHANGED <<built, handles, reload, timer, subs>>

At(r, stage) == r \in Requests /\ req[r].at = stage
Go(r, stage) == req' = [req EXCEPT ![r].at = stage]

(* Close of a handle or an owner.                                           *)
Closed(h) == built' = [built EXCEPT ![h] = @ + 1]

-----------------------------------------------------------------------------
(* Registry.LoadContext: load in order outside the lock; a failure closes   *)
(* what was loaded, in reverse.                                             *)
LoadPlugin(r) ==
    /\ At(r, "load") /\ Len(req[r].got) < Plugins
    /\ \/ built' = Append(built, 0) /\ req' = [req EXCEPT ![r].got = Append(@, Len(built) + 1)]
       \/ Go(r, "rollback") /\ UNCHANGED built
    /\ UNCHANGED <<handles, reload, timer, subs>>

Rollback(r) ==
    /\ At(r, "rollback")
    /\ IF req[r].got = <<>> THEN Go(r, "done") /\ UNCHANGED built
       ELSE /\ Closed(req[r].got[Len(req[r].got)])
            /\ req' = [req EXCEPT ![r].got = SubSeq(@, 1, Len(@) - 1)]
    /\ UNCHANGED <<handles, reload, timer, subs>>

(* The handles go in under the lock, the ones they replace come out.        *)
Loaded == {handles[p] : p \in 1 .. Plugins} \ {0}

InstallHandles(r) ==
    /\ At(r, "load") /\ Len(req[r].got) = Plugins
    /\ handles' = req[r].got
    /\ req' = [req EXCEPT ![r].at = "close", ![r].got = <<>>,
                          ![r].old = Loaded]
    /\ UNCHANGED <<built, reload, timer, subs>>

TakeHandles(r) ==
    /\ At(r, "take")
    /\ handles' = [p \in 1 .. Plugins |-> 0]
    /\ req' = [req EXCEPT ![r].at = "close", ![r].old = Loaded]
    /\ UNCHANGED <<built, reload, timer, subs>>

(* They are closed one by one; Unload has them from a map, in any order.    *)
CloseOld(r) ==
    /\ At(r, "close")
    /\ \/ req[r].old = {} /\ Go(r, "done") /\ UNCHANGED built
       \/ \E h \in req[r].old : Closed(h) /\ req' = [req EXCEPT ![r].old = @ \ {h}]
    /\ UNCHANGED <<handles, reload, timer, subs>>

-----------------------------------------------------------------------------
(* Wrong variant: the build and commit of a reload is not serialized.       *)
ReloadLockSkipped(r) ==
    /\ At(r, "lock") /\ Go(r, "snapshot")
    /\ UNCHANGED <<built, handles, reload, timer, subs>>

(* ReloadManager.Reload and ReloadCurrent under reloadMu: snapshot the      *)
(* previous owner, build, commit owner and config together, close the       *)
(* previous one.                                                            *)
ReloadLock(r) ==
    /\ At(r, "lock") /\ reloadMu = 0
    /\ reloadMu' = r /\ Go(r, "snapshot")
    /\ UNCHANGED <<built, handles, owner, timer, subs>>

ReloadSnapshot(r) ==
    /\ At(r, "snapshot")
    /\ req' = [req EXCEPT ![r].at = "build", ![r].prev = owner]
    /\ UNCHANGED <<built, handles, reload, timer, subs>>

ReloadBuild(r) ==
    /\ At(r, "build")
    /\ \/ built' = Append(built, 0) /\ req' = [req EXCEPT ![r].at = "commit", ![r].got = <<Len(built) + 1>>]
       \/ Go(r, "unlock") /\ UNCHANGED built
    /\ UNCHANGED <<handles, reload, timer, subs>>

ReloadCommit(r) ==
    /\ At(r, "commit")
    /\ owner' = [of |-> req[r].got[1],
                 config |-> IF req[r].op = "reloadCurrent" THEN req[r].prev.config ELSE r]
    /\ req' = [req EXCEPT ![r].at = "teardown", ![r].got = <<>>, ![r].old = {req[r].prev.of}]
    /\ UNCHANGED <<built, handles, reloadMu, timer, subs>>

ReloadTeardown(r) ==
    /\ At(r, "teardown")
    /\ Closed(req[r].prev.of)
    /\ req' = [req EXCEPT ![r].at = "unlock", ![r].old = {}]
    /\ UNCHANGED <<handles, reload, timer, subs>>

ReloadUnlock(r) ==
    /\ At(r, "unlock")
    /\ reloadMu' = 0 /\ Go(r, "done")
    /\ UNCHANGED <<built, handles, owner, timer, subs>>

-----------------------------------------------------------------------------
(* Timer.After and its goroutine: the timer comes due, or a closed channel  *)
(* or its context ends it; a due timer runs its callback only if it is      *)
(* still pending under the lock.                                            *)
After(r, o) ==
    /\ At(r, "after") /\ Len(timer) < MaxTimers
    /\ timer' = Append(timer, [owner |-> o, pending |-> TRUE, chan |-> "open", at |-> "wait", cancelled |-> FALSE])
    /\ Go(r, "done")
    /\ UNCHANGED <<built, handles, reload, subs>>

Due(t) ==
    /\ timer[t].at = "wait" /\ timer' = [timer EXCEPT ![t].at = "due"]
    /\ UNCHANGED <<req, built, handles, reload, subs>>

EndWait(t) ==
    /\ timer[t].at = "wait"
    /\ \/ timer[t].chan = "closed" /\ timer' = [timer EXCEPT ![t].at = "ended"]
       \/ timer' = [timer EXCEPT ![t].at = "ended"]          \* ctx.Done: the entry stays pending
    /\ UNCHANGED <<req, built, handles, reload, subs>>

(* Wrong variant: a due timer runs its callback without looking again.      *)
FireBlindly(t) ==
    /\ timer[t].at = "due"
    /\ timer' = [timer EXCEPT ![t].at = "fired", ![t].pending = FALSE]
    /\ UNCHANGED <<req, built, handles, reload, subs>>

Fire(t) ==
    /\ timer[t].at = "due"
    /\ timer' = [timer EXCEPT ![t].at = IF timer[t].pending THEN "fired" ELSE "ended", ![t].pending = FALSE]
    /\ UNCHANGED <<req, built, handles, reload, subs>>

(* cancel, CancelOwner and CancelSession; Tick, which cancels what is due.  *)
Cancelled(set) ==
    timer' = [t \in DOMAIN timer |->
                 IF t \in set /\ timer[t].pending
                 THEN [timer[t] EXCEPT !.pending = FALSE, !.chan = "closed", !.cancelled = TRUE]
                 ELSE timer[t]]

CancelOwner(r, o) ==
    /\ At(r, "cancelOwner")
    /\ Cancelled({t \in DOMAIN timer : timer[t].owner = o}) /\ Go(r, "done")
    /\ UNCHANGED <<built, handles, reload, subs>>

Cancel(r, t) ==
    /\ At(r, "cancel") /\ Cancelled({t}) /\ Go(r, "done")
    /\ UNCHANGED <<built, handles, reload, subs>>

(* A deadline may have passed before the goroutine's timer was started.     *)
Tick(r, expired) ==
    /\ At(r, "tick") /\ Cancelled(expired) /\ Go(r, "done")
    /\ UNCHANGED <<built, handles, reload, subs>>

-----------------------------------------------------------------------------
(* EventBus: Subscribe, the returned remove and Unsubscribe by owner;       *)
(* Publish copies the handlers and calls them one by one outside the lock.  *)
Subscribe(r, o) ==
    /\ At(r, "subscribe") /\ Len(subs) < MaxTimers
    /\ subs' = Append(subs, <<r, o>>) /\ Go(r, "done")
    /\ UNCHANGED <<built, handles, reload, timer>>

Without(list, gone) ==
    LET kept[n \in 0 .. Len(list)] ==
            IF n = 0 THEN <<>> ELSE IF list[n] \in gone THEN kept[n - 1] ELSE Append(kept[n - 1], list[n])
    IN  kept[Len(list)]

Unsubscribe(r, o) ==
    /\ At(r, "unsubscribe")
    /\ subs' = Without(subs, Requests \X {o}) /\ Go(r, "done")
    /\ UNCHANGED <<built, handles, reload, timer>>

RemoveSub(r, i) ==
    /\ At(r, "remove")
    /\ subs' = Without(subs, {i} \X Owners) /\ Go(r, "done")
    /\ UNCHANGED <<built, handles, reload, timer>>

Publish(r) ==
    /\ At(r, "publish")
    /\ req' = [req EXCEPT ![r].at = "deliver", ![r].copy = subs]
    /\ UNCHANGED <<built, handles, reload, timer, subs>>

(* A cancelled context ends the delivery before the next handler.           *)
Deliver(r) ==
    /\ At(r, "deliver")
    /\ \/ /\ req[r].copy # <<>>
          /\ req' = [req EXCEPT ![r].copy = Tail(@)]
       \/ req' = [req EXCEPT ![r].at = "done", ![r].copy = <<>>]
    /\ UNCHANGED <<built, handles, reload, timer, subs>>

-----------------------------------------------------------------------------
Next ==
    \/ \E op \in Ops : Arrive(op)
    \/ \E r \in Requests :
        \/ LoadPlugin(r) \/ Rollback(r) \/ InstallHandles(r) \/ TakeHandles(r) \/ CloseOld(r)
        \/ ReloadLock(r) \/ ReloadSnapshot(r) \/ ReloadBuild(r) \/ ReloadCommit(r)
        \/ ReloadTeardown(r) \/ ReloadUnlock(r)
        \/ \E o \in Owners : After(r, o) \/ CancelOwner(r, o) \/ Subscribe(r, o) \/ Unsubscribe(r, o)
        \/ \E t \in DOMAIN timer : Cancel(r, t)
        \/ \E expired \in SUBSET DOMAIN timer : Tick(r, expired)
        \/ \E i \in Requests : RemoveSub(r, i)
        \/ Publish(r) \/ Deliver(r)
    \/ \E t \in DOMAIN timer : Due(t) \/ EndWait(t) \/ Fire(t)

Spec == Init /\ [][Next]_vars

-----------------------------------------------------------------------------
(* PROPERTIES                                                               *)

Reachable == {owner.of} \cup {handles[p] : p \in 1 .. Plugins} \cup UNION {Held(r) : r \in Requests}

(* No plugin handle and no runtime owner is closed twice, used after it is  *)
(* closed or leaked: what is open is the active owner, in the handle map or *)
(* in the hands of the call that built or will close it, however loads,     *)
(* unloads and reloads overlap and fail.                                    *)
OwnersSettled ==
    /\ \A h \in DOMAIN built : built[h] <= 1
    /\ built[owner.of] = 0
    /\ \A p \in 1 .. Plugins : handles[p] # 0 => built[handles[p]] = 0
    /\ {h \in DOMAIN built : built[h] = 0} \subseteq Reachable

(* A timer that a cancel or a Tick took out of the pending set before its   *)
(* callback began never runs it, although its goroutine may have come due.  *)
CancelledNeverFires == \A t \in DOMAIN timer : timer[t].cancelled => timer[t].at # "fired"
==============================================================================
