---------------------------- MODULE PluginRegistry ----------------------------
(***************************************************************************)
(* The plugin registry and the host of an external plugin                  *)
(* (backend/pkg/plugin: registry.go, install.go, libregistry.go, host.go), *)
(* around one plugin name.  Operations run in goroutines of their own:     *)
(* r.mu covers single reads and writes of the maps, r.reconcileMu covers a *)
(* whole Reconcile or Reload, and installing, uninstalling and unloading   *)
(* take only r.mu.  A host connects, registers its tools and reconnects in *)
(* a goroutine of its own; a builtin capability is mounted the same way    *)
(* but never loses its connection.                                         *)
(*                                                                         *)
(* The host's tools stand for one name: all of them are registered and     *)
(* unregistered under the plugin's name, whichever host does it.  The maps *)
(* mounted and hosts are written together, and an entry's disposer closes  *)
(* its host, so one variable stands for both.                              *)
(***************************************************************************)
EXTENDS Naturals, Sequences, FiniteSets

CONSTANTS
    Builtin,        \* the name is a compile-time capability
    Ops,            \* operations a request may ask for
    MaxRequests,    \* bound: requests
    MaxHosts,       \* bound: hosts started
    MaxReconnects   \* bound: reconnects of a host, at most reconnect.maxAttempts

ASSUME OpsAssumption ==
    Ops \subseteq {"reconcile", "reload", "enable", "disable", "install", "uninstall", "shutdown"}

VARIABLES
    req,        \* requests so far: [op, at, h, version, names]
    lock,       \* who holds reconcileMu: a request, or 0
    disabled,   \* r.disabled
    external,   \* r.external: the version registered, or 0
    blocked,    \* r.libBlocked
    mounted,    \* r.mounted and r.hosts: a host, or 0
    broken,     \* r.lastErr is set
    tool,       \* the host whose tools the tool registry holds, or 0
    host,       \* hosts so far: [stage, closed, tries]
    files,      \* the version in the plugin directory, or 0
    saved       \* the .disabled file names the plugin

vars == <<req, lock, disabled, external, blocked, mounted, broken, tool, host, files, saved>>
maps == <<disabled, external, blocked, mounted, broken>>
disk == <<files, saved>>

Requests == DOMAIN req
Hosts == DOMAIN host
Final == {"done", "error"}
Known == Builtin \/ external # 0

-----------------------------------------------------------------------------
(* LibRegistry: "^M.m" accepts M.x with x >= m, "M.m" exactly that.         *)
VersionSatisfies(entry, want) ==
    /\ entry.major = want.major
    /\ IF want.caret THEN entry.minor >= want.minor ELSE entry.minor = want.minor

(* Resolve: every declared lib is there, and no two constraints differ.     *)
Resolve(decls, libs) ==
    /\ \A d, e \in decls : d.id = e.id => d.version = e.version
    /\ \A d \in decls : d.id \in DOMAIN libs /\ VersionSatisfies(libs[d.id], d.version)

Libs == [easyapi |-> [major |-> 1, minor |-> 2]]
Declared == {{}, {[id |-> "easyapi", version |-> [major |-> 1, minor |-> 1, caret |-> TRUE]]},
             {[id |-> "easyapi", version |-> [major |-> 1, minor |-> 3, caret |-> TRUE]]},
             {[id |-> "other", version |-> [major |-> 1, minor |-> 0, caret |-> FALSE]]}}

(* NewRegistry and ScanDir of a directory with at most version 1 in it.     *)
Init ==
    /\ req = <<>> /\ lock = 0 /\ mounted = 0 /\ tool = 0 /\ host = <<>>
    /\ files \in IF Builtin THEN {0} ELSE {0, 1}
    /\ external = files
    /\ saved \in BOOLEAN /\ disabled = saved
    /\ \E decls \in Declared : blocked = (files # 0 /\ ~Resolve(decls, Libs))
    /\ broken = blocked

At(r, stage) == r \in Requests /\ req[r].at = stage
Go(r, stage) == req' = [req EXCEPT ![r].at = stage]
Op(r) == req[r].op

Arrive(op) ==
    /\ Len(req) < MaxRequests
    /\ req' = Append(req, [op |-> op, h |-> 0, version |-> 0, names |-> FALSE,
                           at |-> CASE op \in {"reconcile", "reload"} -> "lock"
                                    [] op = "install" -> "copy"
                                    [] op = "shutdown" -> "unload"
                                    [] OTHER -> op])
    /\ UNCHANGED <<lock, maps, tool, host, disk>>

-----------------------------------------------------------------------------
(* SetEnabled and Uninstall: the maps under r.mu, with a copy of disabled   *)
(* to be written to the file later.                                         *)
Switch(r) ==
    /\ r \in Requests /\ req[r].at \in {"enable", "disable"}
    /\ IF ~Known THEN Go(r, "error") /\ UNCHANGED disabled
       ELSE /\ disabled' = (Op(r) = "disable")
            /\ req' = [req EXCEPT ![r].at = "persist", ![r].names = (Op(r) = "disable")]
    /\ UNCHANGED <<lock, external, blocked, mounted, broken, tool, host, disk>>

Uninstall(r) ==
    /\ At(r, "uninstall")
    /\ Go(r, IF Builtin \/ (external = 0 /\ files = 0 /\ ~disabled) THEN "error" ELSE "unload")
    /\ UNCHANGED <<lock, maps, tool, host, disk>>

Forget(r) ==
    /\ At(r, "forget")
    /\ external' = 0 /\ broken' = FALSE /\ disabled' = FALSE
    /\ req' = [req EXCEPT ![r].at = "remove", ![r].names = FALSE]
    /\ UNCHANGED <<lock, blocked, mounted, tool, host, disk>>

RemoveFiles(r) ==
    /\ At(r, "remove") /\ files' = 0 /\ Go(r, "persist")
    /\ UNCHANGED <<lock, maps, tool, host, saved>>

(* persistDisabled, after r.mu is released.  A failure ends SetEnabled      *)
(* before it unloads; the others ignore it.                                 *)
PersistDisabled(r) ==
    /\ At(r, "persist")
    /\ \/ saved' = req[r].names
          /\ Go(r, CASE Op(r) \in {"enable", "disable"} -> "lock"
                     [] Op(r) = "install" -> "unload2"
                     [] OTHER -> "done")
       \/ UNCHANGED saved
          /\ Go(r, CASE Op(r) \in {"enable", "disable"} -> "error"
                     [] Op(r) = "install" -> "unload2"
                     [] OTHER -> "done")
    /\ UNCHANGED <<lock, maps, tool, host, files>>

(* installTree and installJSON: unload, then replace the files, which may   *)
(* fail and leave none.                                                     *)
InstallCopy(r) ==
    /\ At(r, "copied")
    /\ \/ files' = files + 1 /\ Go(r, "finish")
       \/ files' = 0 /\ Go(r, "error")
    /\ UNCHANGED <<lock, maps, tool, host, saved>>

InstallStart(r) ==
    /\ At(r, "copy") /\ ~Builtin /\ files < MaxHosts /\ Go(r, "unload")
    /\ UNCHANGED <<lock, maps, tool, host, disk>>

(* finishInstall; the version is what loadPluginManifest reads back.        *)
FinishInstall(r) ==
    /\ At(r, "finish")
    /\ disabled' = FALSE /\ broken' = FALSE
    /\ req' = [req EXCEPT ![r].at = "persist", ![r].names = FALSE, ![r].version = files]
    /\ UNCHANGED <<lock, external, blocked, mounted, tool, host, disk>>

AddExternal(r) ==
    /\ At(r, "add") /\ external' = req[r].version /\ Go(r, "lock")
    /\ UNCHANGED <<lock, disabled, blocked, mounted, broken, tool, host, disk>>

-----------------------------------------------------------------------------
(* Unload: take the entry under r.mu, then close its host.                  *)
Unload(r) ==
    /\ r \in Requests /\ req[r].at \in {"unload", "unload2"}
    /\ mounted' = 0
    /\ req' = [req EXCEPT ![r].h = mounted, ![r].at = IF @ = "unload" THEN "close" ELSE "close2"]
    /\ UNCHANGED <<lock, disabled, external, blocked, broken, tool, host, disk>>

(* Host.Close: the flag and the disposers under h.mu; run the disposers,    *)
(* which unregister by the plugin's name; wait for the host's goroutine.    *)
Unregistered == tool' = 0

CloseMark(r) ==
    /\ r \in Requests /\ req[r].at \in {"close", "close2", "drop"} /\ req[r].h # 0
    /\ ~host[req[r].h].closed
    /\ host' = [host EXCEPT ![req[r].h].closed = TRUE]
    /\ IF host[req[r].h].stage = "up" THEN Unregistered ELSE UNCHANGED tool
    /\ UNCHANGED <<req, lock, maps, disk>>

AfterClose(r) ==
    IF req[r].at = "close2" THEN "add"
    ELSE IF req[r].at = "drop" THEN "unlock"
    ELSE CASE Op(r) = "install"   -> "copied"
           [] Op(r) = "uninstall" -> "forget"
           [] Op(r) = "reload"    -> "pick"
           [] Op(r) = "disable"   -> "unlock"
           [] OTHER               -> "done"

CloseWait(r) ==
    LET h == req[r].h IN
    /\ r \in Requests /\ req[r].at \in {"close", "close2", "drop"}
    /\ IF h = 0 THEN TRUE ELSE host[h].closed /\ host[h].stage # "sync"
    /\ req' = [req EXCEPT ![r].at = AfterClose(r), ![r].h = 0]
    /\ host' = IF h = 0 THEN host ELSE [host EXCEPT ![h].stage = "gone"]
    /\ UNCHANGED <<lock, maps, tool, disk>>

-----------------------------------------------------------------------------
(* Wrong variant: Reload does not take reconcileMu.                         *)
LockUnlessReload(r) ==
    /\ At(r, "lock") /\ (lock = 0 \/ Op(r) = "reload")
    /\ lock' = IF Op(r) = "reload" THEN lock ELSE r
    /\ Go(r, CASE Op(r) \in {"reload", "disable"} -> "unload" [] OTHER -> "pick")
    /\ UNCHANGED <<maps, tool, host, disk>>

(* reconcileMu, held for a whole Reconcile or Reload, and by SetEnabled     *)
(* while it unloads.                                                        *)
Lock(r) ==
    /\ At(r, "lock") /\ lock = 0
    /\ lock' = r
    /\ Go(r, CASE Op(r) \in {"reload", "disable"} -> "unload" [] OTHER -> "pick")
    /\ UNCHANGED <<maps, tool, host, disk>>

Unlock(r) ==
    /\ At(r, "unlock")
    /\ lock' = IF lock = r THEN 0 ELSE lock
    /\ Go(r, "done")
    /\ UNCHANGED <<maps, tool, host, disk>>

(* The snapshot of Reconcile, with its config; then, for an external plugin *)
(* of a Reconcile, the second look at disabled and mounted.                 *)
Pick(r) ==
    LET skipped == \/ ~Known \/ disabled \/ blocked
                   \/ Builtin /\ Op(r) # "reload" /\ mounted # 0 IN
    /\ At(r, "pick")
    /\ req' = [req EXCEPT ![r].version = external,
                          ![r].at = IF skipped THEN "unlock"
                                    ELSE IF Builtin \/ Op(r) = "reload" THEN "start" ELSE "recheck"]
    /\ UNCHANGED <<lock, maps, tool, host, disk>>

Recheck(r) ==
    /\ At(r, "recheck")
    /\ Go(r, IF disabled \/ blocked \/ mounted # 0 THEN "unlock" ELSE "start")
    /\ UNCHANGED <<lock, maps, tool, host, disk>>

(* NewHost or Capability.Mount, outside r.mu: the tools are registered      *)
(* before it returns, and unregistered when it fails after all.             *)
StartHost(r) ==
    /\ At(r, "start") /\ Len(host) < MaxHosts
    /\ host' = Append(host, [stage |-> "sync", closed |-> FALSE, tries |-> 0])
    /\ tool' = Len(host) + 1
    /\ req' = [req EXCEPT ![r].at = "starting", ![r].h = Len(host) + 1]
    /\ UNCHANGED <<lock, maps, disk>>

StartFails(r) ==
    /\ r \in Requests /\ req[r].at \in {"start", "starting"}
    /\ IF At(r, "starting")
       THEN Unregistered /\ host' = [host EXCEPT ![req[r].h] = [@ EXCEPT !.stage = "gone", !.closed = TRUE]]
       ELSE UNCHANGED <<tool, host>>
    /\ req' = [req EXCEPT ![r].at = "failed", ![r].h = 0]
    /\ UNCHANGED <<lock, maps, disk>>

RecordError(r) ==
    /\ At(r, "failed") /\ broken' = TRUE /\ Go(r, "unlock")
    /\ UNCHANGED <<lock, disabled, external, blocked, mounted, tool, host, disk>>

HostReady(r) ==
    /\ At(r, "starting")
    /\ host' = [host EXCEPT ![req[r].h].stage = "up"]
    /\ Go(r, "mount")
    /\ UNCHANGED <<lock, maps, tool, disk>>

(* A plugin disabled meanwhile is closed again.                             *)
Mount(r) ==
    /\ At(r, "mount")
    /\ IF disabled THEN Go(r, "drop") /\ UNCHANGED <<mounted, broken>>
       ELSE /\ mounted' = req[r].h /\ broken' = FALSE
            /\ req' = [req EXCEPT ![r].at = "unlock", ![r].h = 0]
    /\ UNCHANGED <<lock, disabled, external, blocked, tool, host, disk>>

-----------------------------------------------------------------------------
(* The goroutine of a host: the plugin process ends, the tools go; after    *)
(* the backoff a new process registers them again, and a host that was      *)
(* closed meanwhile takes them back.                                        *)
HostLost(h) ==
    /\ ~Builtin /\ host[h].stage = "up" /\ ~host[h].closed
    /\ host' = [host EXCEPT ![h].stage = "down"]
    /\ Unregistered
    /\ UNCHANGED <<req, lock, maps, disk>>

HostReconnect(h) ==
    /\ host[h].stage = "down" /\ ~host[h].closed /\ host[h].tries < MaxReconnects
    /\ host' = [host EXCEPT ![h].stage = "sync", ![h].tries = @ + 1]
    /\ tool' = h
    /\ UNCHANGED <<req, lock, maps, disk>>

(* Wrong variant: the end of a reconnect does not look whether the host was *)
(* closed while it registered.                                              *)
HostReconnectedBlind(h) ==
    /\ host[h].stage = "sync" /\ host[h].tries > 0
    /\ \/ host' = [host EXCEPT ![h].stage = "up"] /\ UNCHANGED tool
       \/ host' = [host EXCEPT ![h].stage = "down"] /\ Unregistered
    /\ UNCHANGED <<req, lock, maps, disk>>

HostReconnected(h) ==
    /\ host[h].stage = "sync" /\ host[h].tries > 0
    /\ \/ /\ host' = [host EXCEPT ![h].stage = IF host[h].closed THEN "down" ELSE "up"]
          /\ IF host[h].closed THEN Unregistered ELSE UNCHANGED tool
       \/ /\ host' = [host EXCEPT ![h].stage = "down"] /\ Unregistered
    /\ UNCHANGED <<req, lock, maps, disk>>

-----------------------------------------------------------------------------
Next ==
    \/ \E op \in Ops : Arrive(op)
    \/ \E r \in Requests :
        \/ Switch(r) \/ Uninstall(r) \/ Forget(r) \/ RemoveFiles(r) \/ PersistDisabled(r)
        \/ InstallStart(r) \/ InstallCopy(r) \/ FinishInstall(r) \/ AddExternal(r)
        \/ Unload(r) \/ CloseMark(r) \/ CloseWait(r) \/ Lock(r) \/ Unlock(r) \/ Pick(r) \/ Recheck(r)
        \/ StartHost(r) \/ StartFails(r) \/ RecordError(r) \/ HostReady(r) \/ Mount(r)
    \/ \E h \in Hosts : HostLost(h) \/ HostReconnect(h) \/ HostReconnected(h)

Spec == Init /\ [][Next]_vars

-----------------------------------------------------------------------------
(* PROPERTIES                                                               *)

Quiet == \A r \in Requests : req[r].at \in Final

(* Once every operation has ended and none of them failed to disable it, a  *)
(* disabled plugin has no mounted host, no running process and no tool in   *)
(* the registry, whatever Reconcile, Reload and reconnects raced with       *)
(* SetEnabled.                                                              *)
DisabledStaysDown ==
    (Quiet /\ disabled /\ \A r \in Requests : Op(r) = "disable" => At(r, "done")) =>
        /\ mounted = 0 /\ tool = 0
        /\ \A h \in Hosts : host[h].closed

(* Every host that is not closed is the mounted one or still in the hands   *)
(* of the operation that started or unloads it: reconcileMu keeps two       *)
(* operations from starting a host each and losing one.                     *)
NoStrayHost ==
    \A h \in Hosts : host[h].closed \/ h = mounted \/ \E r \in Requests : req[r].h = h

(* A plugin that was disabled stays down, and no plugin process runs that   *)
(* the registry does not know, however installs, switches, reloads and      *)
(* reconnects interleave.                                                   *)
PluginsAccounted == DisabledStaysDown /\ NoStrayHost
==============================================================================
