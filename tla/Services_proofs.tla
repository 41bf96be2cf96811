---------------------------- MODULE Services_proofs ----------------------------
(***************************************************************************)
(* What the services keep, for any constants: a plugin host that runs is   *)
(* the mounted one or in the hands of an operation, handles and owners are *)
(* closed once, callers learn what their processes did, tool lists are     *)
(* whole and tools run as the policy permits.                              *)
(***************************************************************************)
EXTENDS Sessions_proofs

-----------------------------------------------------------------------------
(* PluginRegistry: the invariant. *)

Stages ==
    {"lock", "copy", "unload", "enable", "disable", "uninstall", "persist", "forget", "remove",
     "unload2", "copied", "finish", "add", "close", "close2", "drop", "unlock", "pick", "recheck",
     "start", "starting", "failed", "mount", "done", "error"}

RequestType == [op : Ops, at : Stages, h : Nat, version : Nat, names : BOOLEAN]
HostType == [stage : {"sync", "up", "down", "gone"}, closed : BOOLEAN, tries : Nat]

TypeInv ==
    /\ req \in Seq(RequestType) /\ host \in Seq(HostType)
    /\ mounted \in Nat /\ tool \in Nat /\ external \in Nat /\ files \in Nat /\ lock \in Nat
    /\ disabled \in BOOLEAN

(* Only hosts that were started are named.                                  *)
NamesInv ==
    /\ mounted <= Len(host) /\ tool <= Len(host)
    /\ \A r \in Requests : req[r].h <= Len(host)

(* The part of an operation under reconcileMu.                              *)
LockedAt(op, stage) ==
    \/ stage \in {"pick", "recheck", "start", "starting", "failed", "mount", "drop", "unlock"}
    \/ stage \in {"unload", "close"} /\ op \in {"reload", "disable"}

(* One operation at a time is in that part, and the mutex names it.         *)
LockInv ==
    /\ lock = 0 \/ lock \in Requests
    /\ \A r \in Requests :
        /\ LockedAt(Op(r), req[r].at) <=> lock = r
        /\ req[r].at = "uninstall" => Op(r) = "uninstall"
        /\ req[r].at = "copy" => Op(r) = "install"

(* The stages at which an operation has a host in hand.                     *)
Hand == {"close", "close2", "drop", "starting", "mount"}

(* A host is in one pair of hands, or mounted; it is not closed by another  *)
(* while its operation starts it.                                           *)
HandInv ==
    \A r \in Requests :
        /\ req[r].h # 0 =>
            /\ req[r].at \in Hand /\ req[r].h # mounted
            /\ \A q \in Requests : req[q].h = req[r].h => q = r
        /\ req[r].at \in {"starting", "mount"} => req[r].h # 0 /\ ~host[req[r].h].closed

(* Where an operation will start or mount a host, none is mounted.          *)
FreeInv ==
    \A r \in Requests :
        \/ req[r].at \in {"start", "starting", "mount"}
        \/ req[r].at \in {"close", "pick"} /\ Op(r) = "reload"
        => mounted = 0

(* A disabled plugin is mounted only as long as the operation that disabled *)
(* it has not unloaded it, or failed to.                                    *)
Disabling == {"persist", "lock", "unload", "error"}
DisabledInv ==
    disabled /\ mounted # 0 => \E r \in Requests : Op(r) = "disable" /\ req[r].at \in Disabling

(* The tools belong to a host that serves, or registers them; once closed,  *)
(* it is still registering and will take them back.                         *)
ToolInv ==
    tool # 0 =>
        /\ host[tool].stage \in {"sync", "up"}
        /\ host[tool].closed => host[tool].stage = "sync"

(* A closed host is gone once nobody waits for its goroutine any more.      *)
GoneInv ==
    \A h \in Hosts : host[h].closed => host[h].stage = "gone" \/ \E r \in Requests : req[r].h = h

RegistryInv ==
    /\ TypeInv /\ NamesInv /\ LockInv /\ HandInv /\ FreeInv
    /\ NoStrayHost /\ DisabledInv /\ ToolInv /\ GoneInv

-----------------------------------------------------------------------------
(* Steps of a request. *)

(* Request r moves to a stage with host h in hand; the others stay.         *)
Moved(r, stage, h) ==
    /\ req' \in Seq(RequestType) /\ Requests' = Requests
    /\ \A q \in Requests \ {r} : req'[q] = req[q]
    /\ req'[r].at = stage /\ req'[r].h = h /\ req'[r].op = Op(r)

(* The domains of the two sequences.                                        *)
LEMMA Domains ==
    ASSUME TypeInv
    PROVE  /\ Requests = 1 .. Len(req) /\ Len(req) \in Nat /\ \A r \in Requests : req[r] \in RequestType
           /\ Hosts = 1 .. Len(host) /\ Len(host) \in Nat /\ \A h \in Hosts : host[h] \in HostType
  BY LenProperties DEF TypeInv, Requests, Hosts

(* Replacing one request keeps the others.                                  *)
LEMMA ReplaceOne ==
    ASSUME TypeInv, NEW r \in Requests, NEW new \in RequestType, new.op = Op(r),
           req' = [req EXCEPT ![r] = new]
    PROVE  Moved(r, new.at, new.h)
<1>1. r \in 1 .. Len(req) /\ Requests = 1 .. Len(req) /\ req \in Seq(RequestType)
  BY Domains DEF TypeInv
<1>2. req' \in Seq(RequestType) /\ Len(req') = Len(req)
  BY <1>1, ExceptSeq
<1>3. Requests' = Requests
  BY <1>1, <1>2, LenProperties DEF Requests
<1>4. req'[r] = new /\ \A q \in Requests \ {r} : req'[q] = req[q]
  BY <1>1, LenProperties
<1>5. QED
  BY <1>2, <1>3, <1>4 DEF Moved

(* Going to a stage.                                                        *)
LEMMA GoMoves ==
    ASSUME TypeInv, NEW r \in Requests, NEW s \in Stages, Go(r, s)
    PROVE  Moved(r, s, req[r].h)
<1> DEFINE new == [req[r] EXCEPT !.at = s]
<1>1. req[r] \in RequestType /\ req \in Seq(RequestType)
  BY Domains DEF TypeInv
<1>2. new \in RequestType /\ new.op = Op(r) /\ new.at = s /\ new.h = req[r].h
  BY <1>1 DEF RequestType, Op
<1>3. req' = [req EXCEPT ![r] = new]
  BY <1>1 DEF Go, RequestType
<1> HIDE DEF new
<1>4. QED
  BY <1>2, <1>3, ReplaceOne

(* Going to a stage with another host in hand, version or name to save.     *)
LEMMA RecordMoves ==
    ASSUME TypeInv, NEW r \in Requests, NEW s \in Stages, NEW h \in Nat, NEW v \in Nat, NEW n \in BOOLEAN,
           req' = [req EXCEPT ![r] = [req[r] EXCEPT !.at = s, !.h = h, !.version = v, !.names = n]]
    PROVE  Moved(r, s, h)
<1> DEFINE new == [req[r] EXCEPT !.at = s, !.h = h, !.version = v, !.names = n]
<1>1. req[r] \in RequestType
  BY Domains
<1>2. new \in RequestType /\ new.op = Op(r) /\ new.at = s /\ new.h = h
  BY <1>1 DEF RequestType, Op
<1> HIDE DEF new
<1>3. req' = [req EXCEPT ![r] = new]
  BY DEF new
<1>4. QED
  BY <1>2, <1>3, ReplaceOne

(* The mutex goes with the part it guards.                                  *)
LEMMA LockKept ==
    ASSUME TypeInv, LockInv, NEW r \in Requests, NEW s \in Stages \ {"uninstall", "copy"}, NEW h,
           Moved(r, s, h),
           \/ lock' = lock /\ (LockedAt(Op(r), s) <=> LockedAt(Op(r), req[r].at))
           \/ lock = 0 /\ lock' = r /\ LockedAt(Op(r), s)
           \/ lock = r /\ lock' = 0 /\ ~LockedAt(Op(r), s)
    PROVE  LockInv'
<1>1. r \in Nat \ {0} /\ \A q \in Requests : q \in Nat \ {0}
  BY Domains
<1>2. \A q \in Requests \ {r} : req'[q] = req[q]
  BY DEF Moved
<1>3. Requests' = Requests /\ req'[r].at = s /\ req'[r].op = Op(r)
  BY DEF Moved
<1>4. ASSUME NEW q \in Requests \ {r}
      PROVE  /\ LockedAt(req'[q].op, req'[q].at) <=> lock' = q
             /\ req'[q].at = "uninstall" => req'[q].op = "uninstall"
             /\ req'[q].at = "copy" => req'[q].op = "install"
  <2>1. LockedAt(req[q].op, req[q].at) <=> lock = q
    BY DEF LockInv, Op
  <2>2. lock' = q <=> lock = q
    BY <1>1
  <2>3. QED
    BY <1>2, <2>1, <2>2 DEF LockInv, Op
<1>5. LockedAt(req'[r].op, s) <=> lock' = r
  BY <1>1, <1>3 DEF LockInv, LockedAt
<1>6. lock' = 0 \/ lock' \in Requests
  BY DEF LockInv
<1>7. QED
  BY <1>3, <1>4, <1>5, <1>6 DEF LockInv, Op

(* Who disables a plugin keeps at it until it is unloaded.                  *)
LEMMA DisabledKept ==
    ASSUME DisabledInv, NEW r \in Requests, NEW s, NEW h, Moved(r, s, h),
           \/ disabled' = FALSE
           \/ mounted' = 0
           \/ mounted' = mounted /\ Op(r) = "disable" /\ s \in Disabling
           \/ /\ mounted' = mounted /\ disabled' = disabled
              /\ Op(r) = "disable" /\ req[r].at \in Disabling => s \in Disabling
    PROVE  DisabledInv'
  BY DEF DisabledInv, Moved, Op

(* A step that gives and takes no host and starts none changes nothing for  *)
(* the hosts.                                                               *)
LEMMA EmptyHandsMove ==
    ASSUME RegistryInv, NEW r \in Requests, NEW s \in Stages \ Hand,
           Moved(r, s, req[r].h), req[r].at \notin Hand, UNCHANGED <<mounted, tool, host>>,
           s = "start" => mounted = 0, s = "pick" => Op(r) # "reload"
    PROVE  NamesInv' /\ HandInv' /\ FreeInv' /\ NoStrayHost' /\ ToolInv' /\ GoneInv'
<1>1. req[r].h = 0
  BY DEF RegistryInv, HandInv
<1>2. Requests' = Requests /\ Hosts' = Hosts /\ \A q \in Requests \ {r} : req'[q] = req[q]
  BY DEF Moved, Hosts
<1>3. req'[r].at = s /\ req'[r].h = 0 /\ req'[r].op = Op(r)
  BY <1>1 DEF Moved
<1>4. \A q \in Requests : req'[q].h = req[q].h
  BY <1>1, <1>2, <1>3
<1>5. NamesInv' /\ NoStrayHost' /\ ToolInv' /\ GoneInv'
  BY <1>2, <1>4 DEF RegistryInv, NamesInv, NoStrayHost, ToolInv, GoneInv
<1>6. FreeInv'
  BY <1>2, <1>3 DEF RegistryInv, FreeInv, Op, Hand
<1>7. HandInv'
  <2>1. ASSUME NEW q \in Requests \ {r}
        PROVE  /\ req[q].h # 0 =>
                     /\ req[q].at \in Hand /\ req[q].h # mounted
                     /\ \A p \in Requests : req'[p].h = req[q].h => p = q
               /\ req[q].at \in {"starting", "mount"} => req[q].h # 0 /\ ~host[req[q].h].closed
    BY <1>4 DEF RegistryInv, HandInv
  <2>2. QED
    BY <1>2, <1>3, <2>1 DEF HandInv, Hand
<1>8. QED
  BY <1>5, <1>6, <1>7

-----------------------------------------------------------------------------
(* Switching, installing, removing. *)

(* What the operations do before and after they touch a host.               *)
Plain(r) ==
    \/ Switch(r) \/ Uninstall(r) \/ Forget(r) \/ RemoveFiles(r) \/ PersistDisabled(r)
    \/ InstallStart(r) \/ InstallCopy(r) \/ FinishInstall(r) \/ AddExternal(r)
    \/ Lock(r) \/ Unlock(r) \/ Pick(r) \/ Recheck(r) \/ RecordError(r)

(* The stages they go through.                                              *)
PlainStages ==
    {"lock", "copy", "unload", "enable", "disable", "uninstall", "persist", "forget", "remove",
     "unload2", "copied", "finish", "add", "unlock", "pick", "recheck", "start", "failed", "done", "error"}

(* Each goes on to one of these stages, and says how the maps changed.      *)
LEMMA PlainMoves ==
    ASSUME TypeInv, NEW r \in Requests, Plain(r)
    PROVE  /\ req[r].at \in PlainStages /\ UNCHANGED <<mounted, tool, host>>
           /\ external' \in Nat /\ files' \in Nat /\ disabled' \in BOOLEAN
           /\ \E s \in PlainStages \ {"uninstall", "copy"} : Moved(r, s, req[r].h)
<1> USE DEF maps, disk
<1>1. req[r] \in RequestType /\ req[r].h \in Nat /\ req[r].version \in Nat /\ req[r].names \in BOOLEAN
      /\ req[r].at \in Stages
  BY Domains DEF RequestType
<1>2. \A s \in PlainStages : s \in Stages
  BY DEF PlainStages, Stages
<1>3. ASSUME NEW s \in PlainStages, Go(r, s) PROVE Moved(r, s, req[r].h)
  BY <1>2, <1>3, GoMoves
<1>4. ASSUME NEW s \in PlainStages, NEW v \in Nat, NEW n \in BOOLEAN,
             req' = [req EXCEPT ![r] = [req[r] EXCEPT !.at = s, !.h = req[r].h, !.version = v, !.names = n]]
      PROVE  Moved(r, s, req[r].h)
  BY <1>1, <1>2, <1>4, RecordMoves
<1>5. CASE Switch(r)
  <2>1. CASE Go(r, "error")
    BY <1>3, <1>5, <2>1 DEF Switch, TypeInv, PlainStages
  <2>2. CASE req' = [req EXCEPT ![r].at = "persist", ![r].names = (Op(r) = "disable")]
    <3>1. req' = [req EXCEPT ![r] = [req[r] EXCEPT !.at = "persist", !.h = req[r].h,
                                       !.version = req[r].version, !.names = (Op(r) = "disable")]]
      BY <1>1, <2>2 DEF RequestType
    <3>2. (Op(r) = "disable") \in BOOLEAN
      OBVIOUS
    <3>3. Moved(r, "persist", req[r].h)
      BY <1>1, <1>4, <3>1, <3>2 DEF PlainStages
    <3>4. QED
      BY <1>5, <3>2, <3>3 DEF Switch, TypeInv, PlainStages
  <2>3. QED
    BY <1>5, <2>1, <2>2 DEF Switch
<1>6. CASE Uninstall(r) \/ InstallStart(r) \/ RemoveFiles(r) \/ InstallCopy(r)
  BY <1>3, <1>6 DEF Uninstall, InstallStart, RemoveFiles, InstallCopy, At, TypeInv, PlainStages
<1>7. CASE PersistDisabled(r)
  BY <1>3, <1>7 DEF PersistDisabled, At, TypeInv, PlainStages
<1>8. CASE Forget(r)
  <2>1. req' = [req EXCEPT ![r] = [req[r] EXCEPT !.at = "remove", !.h = req[r].h,
                                     !.version = req[r].version, !.names = FALSE]]
    BY <1>1, <1>8 DEF Forget, RequestType
  <2>2. Moved(r, "remove", req[r].h)
    BY <1>1, <1>4, <2>1 DEF PlainStages
  <2>3. QED
    BY <1>8, <2>2 DEF Forget, At, TypeInv, PlainStages
<1>9. CASE FinishInstall(r)
  <2>1. req' = [req EXCEPT ![r] = [req[r] EXCEPT !.at = "persist", !.h = req[r].h,
                                     !.version = files, !.names = FALSE]]
    BY <1>1, <1>9 DEF FinishInstall, RequestType
  <2>2. Moved(r, "persist", req[r].h)
    BY <1>1, <1>4, <2>1 DEF PlainStages, TypeInv
  <2>3. QED
    BY <1>9, <2>2 DEF FinishInstall, At, TypeInv, PlainStages
<1>10. CASE AddExternal(r) \/ Lock(r) \/ Unlock(r) \/ Recheck(r) \/ RecordError(r)
  BY <1>1, <1>3, <1>10 DEF AddExternal, Lock, Unlock, Recheck, RecordError, At, TypeInv, PlainStages
<1>11. CASE Pick(r)
  <2>1. PICK s \in {"unlock", "start", "recheck"} : req' = [req EXCEPT ![r].version = external, ![r].at = s]
    BY <1>11 DEF Pick
  <2>2. req' = [req EXCEPT ![r] = [req[r] EXCEPT !.at = s, !.h = req[r].h,
                                     !.version = external, !.names = req[r].names]]
    BY <1>1, <2>1 DEF RequestType
  <2>3. Moved(r, s, req[r].h)
    BY <1>1, <1>4, <2>2 DEF PlainStages, TypeInv
  <2>4. QED
    BY <1>11, <2>3 DEF Pick, At, TypeInv, PlainStages
<1>12. QED
  BY <1>5, <1>6, <1>7, <1>8, <1>9, <1>10, <1>11 DEF Plain

(* Where each of them goes, and from where.                                 *)
LEMMA PlainGoes ==
    ASSUME TypeInv, NEW r \in Requests
    PROVE  /\ Switch(r) => req[r].at \in {"enable", "disable"} /\ req'[r].at \in {"error", "persist"}
           /\ Uninstall(r) => req[r].at = "uninstall" /\ req'[r].at \in {"error", "unload"}
           /\ InstallStart(r) => req[r].at = "copy" /\ req'[r].at = "unload"
           /\ Forget(r) => req[r].at = "forget" /\ req'[r].at = "remove"
           /\ RemoveFiles(r) => req[r].at = "remove" /\ req'[r].at = "persist"
           /\ PersistDisabled(r) =>
                /\ req[r].at = "persist" /\ req'[r].at \in {"lock", "error", "unload2", "done"}
                /\ Op(r) = "disable" => req'[r].at \in {"lock", "error"}
           /\ InstallCopy(r) => req[r].at = "copied" /\ req'[r].at \in {"finish", "error"}
           /\ FinishInstall(r) => req[r].at = "finish" /\ req'[r].at = "persist"
           /\ AddExternal(r) => req[r].at = "add" /\ req'[r].at = "lock"
           /\ Lock(r) => /\ req[r].at = "lock"
                         /\ req'[r].at = IF Op(r) \in {"reload", "disable"} THEN "unload" ELSE "pick"
           /\ Unlock(r) => req[r].at = "unlock" /\ req'[r].at = "done"
           /\ Pick(r) => /\ req[r].at = "pick" /\ req'[r].at \in {"unlock", "start", "recheck"}
                         /\ req'[r].at = "start" => Op(r) = "reload" \/ mounted = 0
           /\ Recheck(r) => /\ req[r].at = "recheck" /\ req'[r].at \in {"unlock", "start"}
                            /\ req'[r].at = "start" => mounted = 0
           /\ RecordError(r) => req[r].at = "failed" /\ req'[r].at = "unlock"
<1>1. req[r] \in RequestType /\ r \in DOMAIN req
  BY Domains DEF Requests
<1>2. Switch(r) => req[r].at \in {"enable", "disable"} /\ req'[r].at \in {"error", "persist"}
  BY <1>1 DEF Switch, Go, RequestType
<1>3. Pick(r) => /\ req[r].at = "pick" /\ req'[r].at \in {"unlock", "start", "recheck"}
                 /\ req'[r].at = "start" => Op(r) = "reload" \/ mounted = 0
  BY <1>1 DEF Pick, At, RequestType
<1>4. Forget(r) => req[r].at = "forget" /\ req'[r].at = "remove"
  BY <1>1 DEF Forget, At, RequestType
<1>5. FinishInstall(r) => req[r].at = "finish" /\ req'[r].at = "persist"
  BY <1>1 DEF FinishInstall, At, RequestType
<1>6. /\ Uninstall(r) => req[r].at = "uninstall" /\ req'[r].at \in {"error", "unload"}
      /\ InstallStart(r) => req[r].at = "copy" /\ req'[r].at = "unload"
      /\ RemoveFiles(r) => req[r].at = "remove" /\ req'[r].at = "persist"
      /\ InstallCopy(r) => req[r].at = "copied" /\ req'[r].at \in {"finish", "error"}
      /\ AddExternal(r) => req[r].at = "add" /\ req'[r].at = "lock"
  BY <1>1 DEF Uninstall, InstallStart, RemoveFiles, InstallCopy, AddExternal, At, Go, RequestType
<1>7. PersistDisabled(r) =>
        /\ req[r].at = "persist" /\ req'[r].at \in {"lock", "error", "unload2", "done"}
        /\ Op(r) = "disable" => req'[r].at \in {"lock", "error"}
  BY <1>1 DEF PersistDisabled, At, Go, RequestType
<1>8. Lock(r) => /\ req[r].at = "lock"
                 /\ req'[r].at = IF Op(r) \in {"reload", "disable"} THEN "unload" ELSE "pick"
  BY <1>1 DEF Lock, At, Go, RequestType
<1>9. /\ Unlock(r) => req[r].at = "unlock" /\ req'[r].at = "done"
      /\ Recheck(r) => /\ req[r].at = "recheck" /\ req'[r].at \in {"unlock", "start"}
                       /\ req'[r].at = "start" => mounted = 0
      /\ RecordError(r) => req[r].at = "failed" /\ req'[r].at = "unlock"
  BY <1>1 DEF Unlock, Recheck, RecordError, At, Go, RequestType
<1>10. QED
  BY <1>2, <1>3, <1>4, <1>5, <1>6, <1>7, <1>8, <1>9

(* They keep the invariant.                                                 *)
LEMMA PlainKeeps ==
    ASSUME RegistryInv, NEW r \in Requests, Plain(r)
    PROVE  RegistryInv'
<1>1. TypeInv
  BY DEF RegistryInv
<1>2. PICK s \in PlainStages \ {"uninstall", "copy"} : Moved(r, s, req[r].h)
  BY <1>1, PlainMoves
<1>3. /\ req[r].at \in PlainStages /\ UNCHANGED <<mounted, tool, host>>
      /\ external' \in Nat /\ files' \in Nat /\ disabled' \in BOOLEAN
  BY <1>1, PlainMoves
<1>4. req'[r].at = s /\ s \in Stages \ Hand /\ req[r].at \notin Hand
  BY <1>2, <1>3 DEF Moved, PlainStages, Stages, Hand
<1>5. /\ lock' \in Nat
      /\ \/ lock' = lock /\ (LockedAt(Op(r), s) <=> LockedAt(Op(r), req[r].at))
         \/ lock = 0 /\ lock' = r /\ LockedAt(Op(r), s)
         \/ lock = r /\ lock' = 0 /\ ~LockedAt(Op(r), s)
  <2> USE DEF LockedAt, maps, disk
  <2>1. r \in Nat /\ lock \in Nat
    BY <1>1, Domains DEF TypeInv
  <2>2. CASE Switch(r) \/ Forget(r) \/ RemoveFiles(r) \/ PersistDisabled(r)
    BY <1>1, <1>4, <2>1, <2>2, PlainGoes DEF Switch, Forget, RemoveFiles, PersistDisabled
  <2>3. CASE InstallCopy(r) \/ FinishInstall(r) \/ AddExternal(r)
    BY <1>1, <1>4, <2>1, <2>3, PlainGoes DEF InstallCopy, FinishInstall, AddExternal
  <2>4. CASE Uninstall(r) \/ InstallStart(r)
    BY <1>1, <1>4, <2>1, <2>4, PlainGoes DEF Uninstall, InstallStart, RegistryInv, LockInv
  <2>5. CASE Lock(r)
    BY <1>1, <1>4, <2>1, <2>5, PlainGoes DEF Lock
  <2>6. CASE Unlock(r)
    BY <1>1, <1>4, <2>1, <2>6, PlainGoes DEF Unlock, RegistryInv, LockInv
  <2>7. CASE Pick(r) \/ Recheck(r) \/ RecordError(r)
    BY <1>1, <1>4, <2>1, <2>7, PlainGoes DEF Pick, Recheck, RecordError
  <2>8. QED
    BY <2>2, <2>3, <2>4, <2>5, <2>6, <2>7 DEF Plain
<1>6. s = "start" => mounted = 0
  BY <1>1, <1>4, PlainGoes DEF Plain, RegistryInv, FreeInv
<1>7. s = "pick" => Op(r) # "reload"
  BY <1>1, <1>4, PlainGoes DEF Plain
<1>8. \/ disabled' = FALSE
      \/ mounted' = mounted /\ Op(r) = "disable" /\ s \in Disabling
      \/ /\ mounted' = mounted /\ disabled' = disabled
         /\ Op(r) = "disable" /\ req[r].at \in Disabling => s \in Disabling
  <2> USE DEF Disabling, maps, disk
  <2>1. CASE Switch(r)
    BY <1>1, <1>3, <1>4, <2>1, PlainGoes DEF Switch
  <2>2. CASE Forget(r) \/ FinishInstall(r)
    BY <2>2 DEF Forget, FinishInstall
  <2>3. CASE RemoveFiles(r) \/ PersistDisabled(r) \/ InstallCopy(r) \/ AddExternal(r)
    BY <1>1, <1>3, <1>4, <2>3, PlainGoes DEF RemoveFiles, PersistDisabled, InstallCopy, AddExternal
  <2>4. CASE Uninstall(r) \/ InstallStart(r)
    BY <1>1, <1>3, <1>4, <2>4, PlainGoes DEF Uninstall, InstallStart, RegistryInv, LockInv
  <2>5. CASE Lock(r) \/ Unlock(r) \/ Pick(r) \/ Recheck(r) \/ RecordError(r)
    BY <1>1, <1>3, <1>4, <2>5, PlainGoes DEF Lock, Unlock, Pick, Recheck, RecordError
  <2>6. QED
    BY <2>1, <2>2, <2>3, <2>4, <2>5 DEF Plain
<1>9. TypeInv'
  BY <1>1, <1>2, <1>3, <1>5 DEF TypeInv, Moved
<1>10. LockInv'
  BY <1>1, <1>2, <1>4, <1>5, LockKept DEF RegistryInv
<1>11. DisabledInv'
  BY <1>2, <1>8, DisabledKept DEF RegistryInv
<1>12. NamesInv' /\ HandInv' /\ FreeInv' /\ NoStrayHost' /\ ToolInv' /\ GoneInv'
  BY <1>2, <1>3, <1>4, <1>6, <1>7, EmptyHandsMove
<1>13. QED
  BY <1>9, <1>10, <1>11, <1>12 DEF RegistryInv

-----------------------------------------------------------------------------
(* Unloading. *)

(* Host h changes; the others stay.                                         *)
HostMoved(h, new) ==
    /\ host' \in Seq(HostType) /\ Hosts' = Hosts /\ Len(host') = Len(host)
    /\ host'[h] = new /\ \A g \in Hosts \ {h} : host'[g] = host[g]

(* Replacing one host keeps the others.                                     *)
LEMMA ReplaceHost ==
    ASSUME TypeInv, NEW h \in Hosts, NEW new \in HostType, host' = [host EXCEPT ![h] = new]
    PROVE  HostMoved(h, new)
<1>1. h \in 1 .. Len(host) /\ Hosts = 1 .. Len(host) /\ host \in Seq(HostType)
  BY Domains DEF TypeInv
<1>2. host' \in Seq(HostType) /\ Len(host') = Len(host)
  BY <1>1, ExceptSeq
<1>3. Hosts' = Hosts
  BY <1>1, <1>2, LenProperties DEF Hosts
<1>4. host'[h] = new /\ \A g \in Hosts \ {h} : host'[g] = host[g]
  BY <1>1, LenProperties
<1>5. QED
  BY <1>2, <1>3, <1>4 DEF HostMoved

(* A host in an operation's hands is one that was started.                  *)
LEMMA InHand ==
    ASSUME RegistryInv, NEW r \in Requests, req[r].h # 0
    PROVE  req[r].h \in Hosts
  BY Domains DEF RegistryInv, NamesInv, RequestType

(* Unload takes the mounted host in hand.                                   *)
LEMMA UnloadKeeps ==
    ASSUME RegistryInv, NEW r \in Requests, Unload(r)
    PROVE  RegistryInv'
<1> DEFINE s == IF req[r].at = "unload" THEN "close" ELSE "close2"
<1>1. TypeInv /\ req[r] \in RequestType /\ mounted \in Nat
  BY Domains DEF RegistryInv, TypeInv
<1>2. req[r].at \in {"unload", "unload2"} /\ mounted' = 0
      /\ UNCHANGED <<lock, disabled, external, tool, host, files>>
  BY DEF Unload, disk
<1>3. s \in Stages /\ s \in {"close", "close2"}
  BY DEF Stages
<1>4. req' = [req EXCEPT ![r] = [req[r] EXCEPT !.at = s, !.h = mounted, !.version = req[r].version,
                                               !.names = req[r].names]]
  BY <1>1 DEF Unload, RequestType
<1>5. Moved(r, s, mounted)
  BY <1>1, <1>3, <1>4, RecordMoves DEF RequestType
<1>6. req[r].h = 0
  BY <1>2 DEF RegistryInv, HandInv, Hand
<1>7. Requests' = Requests /\ Hosts' = Hosts /\ \A q \in Requests \ {r} : req'[q] = req[q]
  BY <1>2, <1>5 DEF Moved, Hosts
<1>8. req'[r].at = s /\ req'[r].h = mounted /\ req'[r].op = Op(r)
  BY <1>5 DEF Moved
<1>9. LockInv'
  BY <1>1, <1>2, <1>3, <1>5, LockKept DEF RegistryInv, LockedAt
<1>10. DisabledInv'
  BY <1>2, <1>5, DisabledKept DEF RegistryInv
<1>11. TypeInv' /\ NamesInv'
  BY <1>1, <1>2, <1>5, <1>7, <1>8 DEF RegistryInv, TypeInv, NamesInv, Moved
<1>12. FreeInv'
  BY <1>2 DEF FreeInv
<1>13. HandInv'
  <2>1. ASSUME NEW q \in Requests \ {r}
        PROVE  /\ req[q].h # 0 =>
                     /\ req[q].at \in Hand /\ req[q].h # 0
                     /\ \A p \in Requests : req'[p].h = req[q].h => p = q
               /\ req[q].at \in {"starting", "mount"} => req[q].h # 0 /\ ~host[req[q].h].closed
    BY <1>7, <1>8 DEF RegistryInv, HandInv
  <2>2. ASSUME mounted # 0 PROVE \A p \in Requests : req'[p].h = mounted => p = r
    BY <1>7, <2>2 DEF RegistryInv, HandInv
  <2>3. QED
    BY <1>2, <1>3, <1>7, <1>8, <2>1, <2>2 DEF HandInv, Hand
<1>14. NoStrayHost' /\ ToolInv' /\ GoneInv'
  BY <1>2, <1>6, <1>7, <1>8, Domains DEF RegistryInv, NoStrayHost, ToolInv, GoneInv
<1>15. QED
  BY <1>9, <1>10, <1>11, <1>12, <1>13, <1>14 DEF RegistryInv

(* Closing a host that serves takes the tools; one that registers will take *)
(* them back itself.                                                        *)
LEMMA CloseMarkKeeps ==
    ASSUME RegistryInv, NEW r \in Requests, CloseMark(r)
    PROVE  RegistryInv'
<1> DEFINE h == req[r].h
           new == [host[h] EXCEPT !.closed = TRUE]
<1>1. TypeInv /\ h \in Hosts /\ host[h] \in HostType /\ tool \in Nat
  BY InHand, Domains DEF CloseMark, RegistryInv, TypeInv
<1>2. req[r].at \in {"close", "close2", "drop"} /\ h # 0
      /\ UNCHANGED <<req, lock, disabled, external, mounted, files>>
  BY DEF CloseMark, maps, disk
<1>3. new \in HostType /\ new.closed /\ new.stage = host[h].stage
  BY <1>1 DEF HostType
<1>4. host' = [host EXCEPT ![h] = new]
  BY <1>1 DEF CloseMark, HostType
<1>5. HostMoved(h, new)
  BY <1>1, <1>3, <1>4, ReplaceHost
<1>6. tool' = (IF host[h].stage = "up" THEN 0 ELSE tool)
  BY DEF CloseMark, Unregistered
<1> HIDE DEF h, new
<1>7. Requests' = Requests /\ Hosts' = Hosts /\ Len(host') = Len(host)
      /\ host'[h].closed /\ host'[h].stage = host[h].stage
      /\ \A g \in Hosts \ {h} : host'[g] = host[g]
  BY <1>2, <1>3, <1>5 DEF HostMoved, Requests
<1>8. TypeInv' /\ NamesInv'
  BY <1>1, <1>2, <1>5, <1>6, <1>7, Domains DEF RegistryInv, TypeInv, NamesInv, HostMoved
<1>9. LockInv' /\ FreeInv' /\ DisabledInv'
  BY <1>2 DEF RegistryInv, LockInv, FreeInv, DisabledInv, Op, Requests
<1>10. HandInv'
  <2>1. ASSUME NEW q \in Requests, req[q].at \in {"starting", "mount"} PROVE ~host'[req[q].h].closed
    <3>1. req[q].h # 0 /\ ~host[req[q].h].closed /\ req[q].h \in Hosts
      BY <2>1, InHand DEF RegistryInv, HandInv
    <3>2. q # r /\ req[q].h # h
      BY <1>2, <2>1, <3>1 DEF RegistryInv, HandInv, h
    <3>3. QED
      BY <1>7, <3>1, <3>2
  <2>2. QED
    BY <1>2, <1>7, <2>1 DEF RegistryInv, HandInv
<1>11. NoStrayHost'
  BY <1>2, <1>7 DEF RegistryInv, NoStrayHost
<1>12. ToolInv'
  <2>1. tool # 0 => tool \in Hosts
    BY <1>1, Domains DEF RegistryInv, NamesInv
  <2>2. QED
    BY <1>6, <1>7, <2>1 DEF RegistryInv, ToolInv
<1>13. GoneInv'
  BY <1>2, <1>7 DEF RegistryInv, GoneInv, h
<1>14. QED
  BY <1>8, <1>9, <1>10, <1>11, <1>12, <1>13 DEF RegistryInv

(* Close returns once the host's goroutine is gone.                         *)
LEMMA CloseWaitKeeps ==
    ASSUME RegistryInv, NEW r \in Requests, CloseWait(r)
    PROVE  RegistryInv'
<1> DEFINE h == req[r].h
           s == AfterClose(r)
<1>1. TypeInv /\ req[r] \in RequestType /\ tool \in Nat
  BY Domains DEF RegistryInv, TypeInv
<1>2. req[r].at \in {"close", "close2", "drop"}
      /\ UNCHANGED <<lock, disabled, external, mounted, tool, files>>
  BY DEF CloseWait, maps, disk
<1>3. s \in Stages \ Hand /\ s \in {"add", "unlock", "copied", "forget", "pick", "done"}
  BY DEF AfterClose, Stages, Hand
<1>4. req' = [req EXCEPT ![r] = [req[r] EXCEPT !.at = s, !.h = 0, !.version = req[r].version,
                                               !.names = req[r].names]]
  BY <1>1 DEF CloseWait, RequestType
<1>5. Moved(r, s, 0)
  BY <1>1, <1>3, <1>4, RecordMoves DEF RequestType
<1>6. Requests' = Requests /\ \A q \in Requests \ {r} : req'[q] = req[q]
  BY <1>5 DEF Moved
<1>7. req'[r].at = s /\ req'[r].h = 0 /\ req'[r].op = Op(r)
  BY <1>5 DEF Moved
<1>8. /\ host' \in Seq(HostType) /\ Hosts' = Hosts /\ Len(host') = Len(host)
      /\ \A g \in Hosts \ {h} : host'[g] = host[g]
      /\ h # 0 => h \in Hosts /\ host[h].closed /\ host[h].stage # "sync"
                  /\ host'[h].closed /\ host'[h].stage = "gone"
  <2>1. CASE h = 0
    BY <1>1, <2>1, Domains DEF CloseWait, Hosts, TypeInv
  <2>2. CASE h # 0
    <3> DEFINE new == [host[h] EXCEPT !.stage = "gone"]
    <3>1. h \in Hosts /\ host[h] \in HostType /\ host[h].closed /\ host[h].stage # "sync"
      BY <1>1, <2>2, InHand, Domains DEF CloseWait
    <3>2. new \in HostType /\ new.closed /\ new.stage = "gone"
      BY <3>1 DEF HostType
    <3>3. host' = [host EXCEPT ![h] = new]
      BY <2>2, <3>1 DEF CloseWait, HostType
    <3>4. HostMoved(h, new)
      BY <1>1, <3>1, <3>2, <3>3, ReplaceHost
    <3> HIDE DEF h, new
    <3>5. QED
      BY <3>1, <3>2, <3>4 DEF HostMoved
  <2>3. QED
    BY <2>1, <2>2
<1>9. LockInv'
  <2>1. CASE req[r].at = "close2"
    BY <2>1, <1>1, <1>2, <1>3, <1>5, LockKept DEF RegistryInv, LockedAt, AfterClose
  <2>2. CASE req[r].at = "drop"
    BY <2>2, <1>1, <1>2, <1>3, <1>5, LockKept DEF RegistryInv, LockedAt, AfterClose
  <2>3. CASE req[r].at = "close"
    <3>1. s = (CASE Op(r) = "install"   -> "copied"
                 [] Op(r) = "uninstall" -> "forget"
                 [] Op(r) = "reload"    -> "pick"
                 [] Op(r) = "disable"   -> "unlock"
                 [] OTHER               -> "done")
      BY <2>3 DEF AfterClose
    <3>2. LockedAt(Op(r), s) <=> LockedAt(Op(r), req[r].at)
      BY <2>3, <3>1 DEF LockedAt
    <3>3. QED
      BY <1>1, <1>2, <1>3, <1>5, <3>2, LockKept DEF RegistryInv
  <2>4. QED
    BY <1>2, <2>1, <2>2, <2>3
<1>10. DisabledInv'
  BY <1>2, <1>5, DisabledKept DEF RegistryInv, Disabling
<1>11. s = "pick" => Op(r) = "reload" /\ req[r].at = "close"
  BY <1>2 DEF AfterClose
<1> HIDE DEF h, s
<1>12. TypeInv' /\ NamesInv'
  BY <1>1, <1>2, <1>5, <1>6, <1>7, <1>8 DEF RegistryInv, TypeInv, NamesInv, Moved
<1>13. FreeInv'
  BY <1>2, <1>3, <1>6, <1>7, <1>11 DEF RegistryInv, FreeInv, Op
<1>14. \A q \in Requests \ {r} : req[q].h # 0 => req[q].h # h
  BY DEF RegistryInv, HandInv, h
<1>15. HandInv'
  <2>1. ASSUME NEW q \in Requests \ {r}
        PROVE  /\ req[q].h # 0 =>
                     /\ req[q].at \in Hand /\ req[q].h # mounted
                     /\ \A p \in Requests : req'[p].h = req[q].h => p = q
               /\ req[q].at \in {"starting", "mount"} => req[q].h # 0 /\ ~host'[req[q].h].closed
    <3>1. req[q].h # 0 => req[q].h \in Hosts
      BY InHand
    <3>2. QED
      BY <1>6, <1>7, <1>8, <1>14, <3>1 DEF RegistryInv, HandInv
  <2>2. QED
    BY <1>2, <1>3, <1>6, <1>7, <2>1 DEF HandInv, Hand
<1>16. NoStrayHost'
  <2>1. ASSUME NEW g \in Hosts \ {h}
        PROVE  host[g].closed \/ g = mounted \/ \E q \in Requests : req'[q].h = g
    BY <1>6 DEF RegistryInv, NoStrayHost, h
  <2>2. h \in Hosts => h # 0
    BY <1>1, Domains
  <2>3. QED
    BY <1>2, <1>6, <1>8, <2>1, <2>2 DEF NoStrayHost
<1>17. ToolInv'
  <2>1. tool # 0 => tool \in Hosts
    BY <1>1, Domains DEF RegistryInv, NamesInv
  <2>2. QED
    BY <1>2, <1>8, <2>1 DEF RegistryInv, ToolInv
<1>18. GoneInv'
  <2>1. ASSUME NEW g \in Hosts \ {h}, host[g].closed
        PROVE  host[g].stage = "gone" \/ \E q \in Requests : req'[q].h = g
    BY <1>6, <2>1 DEF RegistryInv, GoneInv, h
  <2>2. h \in Hosts => h # 0
    BY <1>1, Domains
  <2>3. QED
    BY <1>6, <1>8, <2>1, <2>2 DEF GoneInv
<1>19. QED
  BY <1>9, <1>10, <1>12, <1>13, <1>15, <1>16, <1>17, <1>18 DEF RegistryInv

-----------------------------------------------------------------------------
(* Starting and mounting. *)

(* A host is started only under reconcileMu with none mounted, and its      *)
(* number is new.                                                           *)
LEMMA StartHostKeeps ==
    ASSUME RegistryInv, NEW r \in Requests, StartHost(r)
    PROVE  RegistryInv'
<1> DEFINE n == Len(host) + 1
           new == [stage |-> "sync", closed |-> FALSE, tries |-> 0]
<1>1. TypeInv /\ req[r] \in RequestType /\ Len(host) \in Nat /\ Hosts = 1 .. Len(host)
  BY Domains DEF RegistryInv
<1>2. req[r].at = "start" /\ tool' = n
      /\ UNCHANGED <<lock, disabled, external, mounted, files>>
  BY DEF StartHost, At, maps, disk
<1>3. req[r].h = 0 /\ mounted = 0
  BY <1>2 DEF RegistryInv, HandInv, FreeInv, Hand
<1>4. new \in HostType /\ host' = Append(host, new) /\ new.stage = "sync" /\ ~new.closed
  BY DEF StartHost, HostType
<1> HIDE DEF new
<1>5. /\ host' \in Seq(HostType) /\ Len(host') = n /\ host'[n].stage = "sync" /\ ~host'[n].closed
      /\ \A g \in Hosts : host'[g] = host[g]
  BY <1>1, <1>4, AppendProperties DEF TypeInv
<1>6. Hosts' = Hosts \cup {n}
  BY <1>1, <1>5, LenProperties DEF Hosts
<1>7. req' = [req EXCEPT ![r] = [req[r] EXCEPT !.at = "starting", !.h = n, !.version = req[r].version,
                                               !.names = req[r].names]]
  BY <1>1 DEF StartHost, RequestType
<1>8. n \in Nat /\ n # 0 /\ n \notin Hosts
  BY <1>1
<1>9. Moved(r, "starting", n)
  BY <1>1, <1>7, <1>8, RecordMoves DEF RequestType, Stages
<1>10. Requests' = Requests /\ \A q \in Requests \ {r} : req'[q] = req[q]
  BY <1>9 DEF Moved
<1>11. req'[r].at = "starting" /\ req'[r].h = n /\ req'[r].op = Op(r)
  BY <1>9 DEF Moved
<1>12. \A q \in Requests : req[q].h # n /\ (req[q].h # 0 => req[q].h \in Hosts)
  BY <1>3, <1>8, InHand
<1>13. LockInv'
  BY <1>1, <1>2, <1>9, LockKept DEF RegistryInv, LockedAt, Stages
<1>14. DisabledInv' /\ FreeInv'
  BY <1>2, <1>3 DEF DisabledInv, FreeInv
<1>15. TypeInv'
  BY <1>1, <1>2, <1>5, <1>8, <1>9 DEF TypeInv, Moved
<1>16. NamesInv'
  <2>1. \A q \in Requests : req[q].h \in Nat /\ req[q].h <= Len(host)
    BY <1>1, Domains DEF RegistryInv, NamesInv, RequestType
  <2>2. QED
    BY <1>1, <1>2, <1>3, <1>5, <1>10, <1>11, <2>1 DEF NamesInv
<1> HIDE DEF n
<1>17. HandInv'
  <2>1. ASSUME NEW q \in Requests \ {r}
        PROVE  /\ req[q].h # 0 =>
                     /\ req[q].at \in Hand /\ req[q].h # mounted
                     /\ \A p \in Requests : req'[p].h = req[q].h => p = q
               /\ req[q].at \in {"starting", "mount"} => req[q].h # 0 /\ ~host'[req[q].h].closed
    BY <1>5, <1>10, <1>11, <1>12 DEF RegistryInv, HandInv
  <2>2. QED
    BY <1>2, <1>3, <1>5, <1>8, <1>10, <1>11, <1>12, <2>1 DEF HandInv, Hand
<1>18. NoStrayHost'
  BY <1>2, <1>3, <1>5, <1>6, <1>10, <1>11 DEF RegistryInv, NoStrayHost
<1>19. ToolInv'
  BY <1>2, <1>5 DEF ToolInv
<1>20. GoneInv'
  <2>1. ASSUME NEW g \in Hosts, host[g].closed
        PROVE  host[g].stage = "gone" \/ \E q \in Requests : req'[q].h = g
    BY <1>1, <1>3, <1>10, <2>1 DEF RegistryInv, GoneInv
  <2>2. QED
    BY <1>5, <1>6, <1>10, <2>1 DEF GoneInv
<1>21. QED
  BY <1>13, <1>14, <1>15, <1>16, <1>17, <1>18, <1>19, <1>20 DEF RegistryInv

(* A host that fails to start is closed and gone, with its tools.           *)
LEMMA StartFailsKeeps ==
    ASSUME RegistryInv, NEW r \in Requests, StartFails(r)
    PROVE  RegistryInv'
<1> DEFINE h == req[r].h
<1>1. TypeInv /\ req[r] \in RequestType
  BY Domains DEF RegistryInv
<1>2. req[r].at \in {"start", "starting"}
      /\ UNCHANGED <<lock, disabled, external, mounted, files>>
  BY DEF StartFails, maps, disk
<1>3. req' = [req EXCEPT ![r] = [req[r] EXCEPT !.at = "failed", !.h = 0, !.version = req[r].version,
                                               !.names = req[r].names]]
  BY <1>1 DEF StartFails, RequestType
<1>4. Moved(r, "failed", 0)
  BY <1>1, <1>3, RecordMoves DEF RequestType, Stages
<1>5. LockInv'
  BY <1>1, <1>2, <1>4, LockKept DEF RegistryInv, LockedAt, Stages
<1>6. DisabledInv'
  BY <1>2, <1>4, DisabledKept DEF RegistryInv, Disabling
<1>7. CASE req[r].at = "start"
  <2>1. UNCHANGED <<tool, host>>
    BY <1>7 DEF StartFails, At
  <2>2. h = 0
    BY <1>7 DEF RegistryInv, HandInv, Hand
  <2>3. NamesInv' /\ HandInv' /\ FreeInv' /\ NoStrayHost' /\ ToolInv' /\ GoneInv'
    BY <1>2, <1>4, <1>7, <2>1, <2>2, EmptyHandsMove DEF Hand, Stages
  <2>4. QED
    BY <1>1, <1>2, <1>4, <1>5, <1>6, <2>1, <2>3 DEF RegistryInv, TypeInv, Moved
<1>8. CASE req[r].at = "starting"
  <2> DEFINE new == [host[h] EXCEPT !.stage = "gone", !.closed = TRUE]
  <2>1. h # 0 /\ h \in Hosts /\ host[h] \in HostType
    BY <1>1, <1>8, InHand, Domains DEF RegistryInv, HandInv
  <2>2. new \in HostType /\ new.closed /\ new.stage = "gone"
    BY <2>1 DEF HostType
  <2>3. host' = [host EXCEPT ![h] = new] /\ tool' = 0
    BY <1>8, <2>1 DEF StartFails, At, Unregistered, HostType
  <2>4. HostMoved(h, new)
    BY <1>1, <2>1, <2>2, <2>3, ReplaceHost
  <2> HIDE DEF new, h
  <2>5. /\ host' \in Seq(HostType) /\ Hosts' = Hosts /\ Len(host') = Len(host)
        /\ host'[h].closed /\ host'[h].stage = "gone" /\ \A g \in Hosts \ {h} : host'[g] = host[g]
    BY <2>2, <2>4 DEF HostMoved
  <2>6. Requests' = Requests /\ \A q \in Requests \ {r} : req'[q] = req[q]
    BY <1>4 DEF Moved
  <2>7. req'[r].at = "failed" /\ req'[r].h = 0 /\ req'[r].op = Op(r)
    BY <1>4 DEF Moved
  <2>8. \A q \in Requests \ {r} : req[q].h # 0 => req[q].h # h /\ req[q].h \in Hosts
    BY InHand DEF RegistryInv, HandInv, h
  <2>9. TypeInv' /\ NamesInv'
    BY <1>1, <1>2, <1>4, <2>3, <2>5, <2>6, <2>7, Domains DEF RegistryInv, TypeInv, NamesInv, Moved
  <2>10. FreeInv'
    BY <1>2, <2>6, <2>7 DEF RegistryInv, FreeInv, Op
  <2>11. HandInv'
    <3>1. ASSUME NEW q \in Requests \ {r}
          PROVE  /\ req[q].h # 0 =>
                       /\ req[q].at \in Hand /\ req[q].h # mounted
                       /\ \A p \in Requests : req'[p].h = req[q].h => p = q
                 /\ req[q].at \in {"starting", "mount"} => req[q].h # 0 /\ ~host'[req[q].h].closed
      BY <2>5, <2>6, <2>7, <2>8 DEF RegistryInv, HandInv
    <3>2. QED
      BY <1>2, <2>6, <2>7, <3>1 DEF HandInv, Hand
  <2>12. NoStrayHost'
    <3>1. ASSUME NEW g \in Hosts \ {h}
          PROVE  host[g].closed \/ g = mounted \/ \E q \in Requests : req'[q].h = g
      BY <2>6 DEF RegistryInv, NoStrayHost, h
    <3>2. QED
      BY <1>2, <2>5, <2>6, <3>1 DEF NoStrayHost
  <2>13. GoneInv'
    <3>1. ASSUME NEW g \in Hosts \ {h}, host[g].closed
          PROVE  host[g].stage = "gone" \/ \E q \in Requests : req'[q].h = g
      BY <2>6, <3>1 DEF RegistryInv, GoneInv, h
    <3>2. QED
      BY <2>5, <2>6, <3>1 DEF GoneInv
  <2>14. ToolInv'
    BY <2>3 DEF ToolInv
  <2>15. QED
    BY <1>5, <1>6, <2>9, <2>10, <2>11, <2>12, <2>13, <2>14 DEF RegistryInv
<1>9. QED
  BY <1>2, <1>7, <1>8

(* A host that is ready serves; its operation goes on to mount it.          *)
LEMMA HostReadyKeeps ==
    ASSUME RegistryInv, NEW r \in Requests, HostReady(r)
    PROVE  RegistryInv'
<1> DEFINE h == req[r].h
           new == [host[h] EXCEPT !.stage = "up"]
<1>1. TypeInv /\ req[r] \in RequestType /\ tool \in Nat
  BY Domains DEF RegistryInv, TypeInv
<1>2. req[r].at = "starting" /\ Go(r, "mount")
      /\ UNCHANGED <<lock, disabled, external, mounted, tool, files>>
  BY DEF HostReady, At, maps, disk
<1>3. Moved(r, "mount", h)
  BY <1>1, <1>2, GoMoves DEF Stages
<1>4. h # 0 /\ h \in Hosts /\ host[h] \in HostType /\ ~host[h].closed /\ mounted = 0
  BY <1>1, <1>2, InHand, Domains DEF RegistryInv, HandInv, FreeInv
<1>5. new \in HostType /\ ~new.closed /\ new.stage = "up"
  BY <1>4 DEF HostType
<1>6. host' = [host EXCEPT ![h] = new]
  BY <1>4 DEF HostReady, HostType
<1>7. HostMoved(h, new)
  BY <1>1, <1>4, <1>5, <1>6, ReplaceHost
<1> HIDE DEF new, h
<1>8. /\ host' \in Seq(HostType) /\ Hosts' = Hosts /\ Len(host') = Len(host)
      /\ ~host'[h].closed /\ host'[h].stage = "up" /\ \A g \in Hosts \ {h} : host'[g] = host[g]
  BY <1>5, <1>7 DEF HostMoved
<1>9. Requests' = Requests /\ \A q \in Requests \ {r} : req'[q] = req[q]
  BY <1>3 DEF Moved
<1>10. req'[r].at = "mount" /\ req'[r].h = h /\ req'[r].op = Op(r)
  BY <1>3 DEF Moved
<1>11. \A q \in Requests : req'[q].h = req[q].h
  BY <1>9, <1>10 DEF h
<1>12. LockInv'
  BY <1>1, <1>2, <1>3, LockKept DEF RegistryInv, LockedAt, Stages
<1>13. DisabledInv' /\ FreeInv'
  BY <1>2, <1>4 DEF DisabledInv, FreeInv
<1>14. TypeInv' /\ NamesInv'
  BY <1>1, <1>2, <1>3, <1>8, <1>9, <1>11 DEF RegistryInv, TypeInv, NamesInv, Moved
<1>15. HandInv'
  <2>1. ASSUME NEW q \in Requests, req[q].h # 0
        PROVE  /\ req'[q].at \in Hand /\ req[q].h # mounted
               /\ \A p \in Requests : req[p].h = req[q].h => p = q
    BY <1>9, <1>10, <2>1 DEF RegistryInv, HandInv, Hand
  <2>2. ASSUME NEW q \in Requests \ {r}, req[q].at \in {"starting", "mount"}
        PROVE  req[q].h # 0 /\ ~host'[req[q].h].closed
    <3>1. req[q].h # 0 /\ ~host[req[q].h].closed /\ req[q].h \in Hosts
      BY <2>2, InHand DEF RegistryInv, HandInv
    <3>2. QED
      BY <1>8, <3>1
  <2>3. QED
    BY <1>2, <1>4, <1>8, <1>9, <1>10, <1>11, <2>1, <2>2 DEF HandInv
<1>16. NoStrayHost'
  BY <1>2, <1>8, <1>9, <1>10, <1>11 DEF RegistryInv, NoStrayHost, h
<1>17. ToolInv'
  <2>1. tool # 0 => tool \in Hosts
    BY <1>1, Domains DEF RegistryInv, NamesInv
  <2>2. QED
    BY <1>2, <1>8, <2>1 DEF RegistryInv, ToolInv
<1>18. GoneInv'
  BY <1>8, <1>9, <1>11 DEF RegistryInv, GoneInv
<1>19. QED
  BY <1>12, <1>13, <1>14, <1>15, <1>16, <1>17, <1>18 DEF RegistryInv

(* Mounting hands the host over to the registry, unless the plugin was      *)
(* disabled meanwhile.                                                      *)
LEMMA MountKeeps ==
    ASSUME RegistryInv, NEW r \in Requests, Mount(r)
    PROVE  RegistryInv'
<1> DEFINE h == req[r].h
<1>1. TypeInv /\ req[r] \in RequestType
  BY Domains DEF RegistryInv
<1>2. req[r].at = "mount" /\ UNCHANGED <<lock, disabled, external, tool, host, files>>
  BY DEF Mount, At, disk
<1>3. h # 0 /\ h \in Hosts /\ ~host[h].closed /\ h # mounted /\ mounted = 0
  BY <1>2, InHand DEF RegistryInv, HandInv, FreeInv
<1>4. lock = r /\ \A q \in Requests \ {r} : ~LockedAt(Op(q), req[q].at)
  BY <1>2 DEF RegistryInv, LockInv, LockedAt
<1>5. CASE disabled
  <2>1. Moved(r, "drop", h) /\ mounted' = mounted
    BY <1>1, <1>5, GoMoves DEF Mount, Stages
  <2>2. Requests' = Requests /\ \A q \in Requests \ {r} : req'[q] = req[q]
    BY <2>1 DEF Moved
  <2>3. req'[r].at = "drop" /\ req'[r].h = h /\ req'[r].op = Op(r)
    BY <2>1 DEF Moved
  <2>4. \A q \in Requests : req'[q].h = req[q].h
    BY <2>2, <2>3
  <2>5. LockInv'
    BY <1>1, <1>2, <2>1, LockKept DEF RegistryInv, LockedAt, Stages
  <2>6. DisabledInv' /\ FreeInv'
    BY <1>3, <2>1 DEF DisabledInv, FreeInv
  <2>7. TypeInv' /\ NamesInv'
    BY <1>1, <1>2, <2>1, <2>2, <2>4 DEF RegistryInv, TypeInv, NamesInv, Moved
  <2>8. HandInv'
    <3>1. ASSUME NEW q \in Requests, req[q].h # 0
          PROVE  /\ req'[q].at \in Hand /\ req[q].h # mounted
                 /\ \A p \in Requests : req[p].h = req[q].h => p = q
      BY <2>2, <2>3, <3>1 DEF RegistryInv, HandInv, Hand
    <3>2. ASSUME NEW q \in Requests, req'[q].at \in {"starting", "mount"}
          PROVE  req[q].h # 0 /\ ~host[req[q].h].closed
      BY <2>2, <2>3, <3>2 DEF RegistryInv, HandInv
    <3>3. QED
      BY <1>2, <2>1, <2>2, <2>4, <3>1, <3>2 DEF HandInv
  <2>9. NoStrayHost' /\ ToolInv' /\ GoneInv'
    BY <1>2, <2>1, <2>2, <2>4 DEF RegistryInv, NoStrayHost, ToolInv, GoneInv, Hosts
  <2>10. QED
    BY <2>5, <2>6, <2>7, <2>8, <2>9 DEF RegistryInv
<1>6. CASE ~disabled
  <2>1. mounted' = h
    BY <1>6 DEF Mount
  <2>2. req' = [req EXCEPT ![r] = [req[r] EXCEPT !.at = "unlock", !.h = 0, !.version = req[r].version,
                                                 !.names = req[r].names]]
    BY <1>1, <1>6 DEF Mount, RequestType
  <2>3. Moved(r, "unlock", 0)
    BY <1>1, <2>2, RecordMoves DEF RequestType, Stages
  <2>4. Requests' = Requests /\ \A q \in Requests \ {r} : req'[q] = req[q]
    BY <2>3 DEF Moved
  <2>5. req'[r].at = "unlock" /\ req'[r].h = 0 /\ req'[r].op = Op(r)
    BY <2>3 DEF Moved
  <2>6. LockInv'
    BY <1>1, <1>2, <2>3, LockKept DEF RegistryInv, LockedAt, Stages
  <2>7. DisabledInv'
    BY <1>1, <1>2, <1>6 DEF DisabledInv, TypeInv
  <2>8. FreeInv'
    BY <1>4, <2>4, <2>5 DEF FreeInv, Op, LockedAt
  <2> HIDE DEF h
  <2>9. TypeInv' /\ NamesInv'
    BY <1>1, <1>2, <1>3, <2>1, <2>3, <2>4, <2>5, Domains DEF RegistryInv, TypeInv, NamesInv, Moved
  <2>10. \A q \in Requests \ {r} : req[q].h # h
    BY <1>3 DEF RegistryInv, HandInv, h
  <2>11. HandInv'
    <3>1. ASSUME NEW q \in Requests \ {r}
          PROVE  /\ req[q].h # 0 =>
                       /\ req[q].at \in Hand /\ req[q].h # h
                       /\ \A p \in Requests : req'[p].h = req[q].h => p = q
                 /\ req[q].at \in {"starting", "mount"} => req[q].h # 0 /\ ~host[req[q].h].closed
      BY <2>4, <2>5, <2>10 DEF RegistryInv, HandInv
    <3>2. QED
      BY <1>2, <2>1, <2>4, <2>5, <3>1 DEF HandInv
  <2>12. NoStrayHost'
    <3>1. ASSUME NEW g \in Hosts, g # h
          PROVE  host[g].closed \/ \E q \in Requests : req'[q].h = g
      <4>1. g # 0
        BY <1>1, Domains
      <4>2. QED
        BY <1>3, <2>4, <3>1, <4>1 DEF RegistryInv, NoStrayHost, h
    <3>2. QED
      BY <1>2, <2>1, <2>4, <3>1 DEF NoStrayHost, Hosts
  <2>13. ToolInv'
    BY <1>2 DEF RegistryInv, ToolInv
  <2>14. GoneInv'
    <3>1. ASSUME NEW g \in Hosts, host[g].closed
          PROVE  host[g].stage = "gone" \/ \E q \in Requests : req'[q].h = g
      BY <1>3, <2>4, <3>1 DEF RegistryInv, GoneInv, h
    <3>2. QED
      BY <1>2, <2>4, <3>1 DEF GoneInv, Hosts
  <2>15. QED
    BY <2>6, <2>7, <2>8, <2>9, <2>11, <2>12, <2>13, <2>14 DEF RegistryInv
<1>7. QED
  BY <1>5, <1>6

-----------------------------------------------------------------------------
(* The goroutine of a host, and new requests. *)

(* A host that loses or regains its process keeps its place; the tools are  *)
(* its own, or nobody's.                                                    *)
LEMMA HostKeeps ==
    ASSUME RegistryInv, NEW h \in Hosts, HostLost(h) \/ HostReconnect(h) \/ HostReconnected(h)
    PROVE  RegistryInv'
<1>1. TypeInv /\ host[h] \in HostType /\ tool \in Nat /\ h \in Nat /\ h # 0 /\ h <= Len(host)
      /\ Len(host) \in Nat
  BY Domains DEF RegistryInv, TypeInv
<1>2. UNCHANGED <<req, lock, disabled, external, mounted, files>> /\ host[h].stage # "gone"
  BY DEF HostLost, HostReconnect, HostReconnected, maps, disk
<1>3. PICK new \in HostType :
        /\ host' = [host EXCEPT ![h] = new] /\ new.closed = host[h].closed
        /\ \/ tool' = 0
           \/ tool' = h /\ new.stage = "sync"
           \/ tool' = tool /\ new.stage = "up" /\ ~new.closed
  <2> DEFINE To(s, n) == [host[h] EXCEPT !.stage = s, !.tries = n]
  <2>1. \A s \in {"sync", "up", "down"}, n \in Nat :
          /\ To(s, n) \in HostType /\ To(s, n).closed = host[h].closed /\ To(s, n).stage = s
    BY <1>1 DEF HostType
  <2>2. host[h].tries \in Nat /\ host[h].tries + 1 \in Nat
    BY <1>1 DEF HostType
  <2>3. CASE HostLost(h)
    <3>1. host' = [host EXCEPT ![h] = To("down", host[h].tries)] /\ tool' = 0
      BY <1>1, <2>3 DEF HostLost, Unregistered, HostType
    <3> HIDE DEF To
    <3>2. QED
      BY <2>1, <2>2, <3>1
  <2>4. CASE HostReconnect(h)
    <3>1. host' = [host EXCEPT ![h] = To("sync", host[h].tries + 1)] /\ tool' = h
      BY <1>1, <2>4 DEF HostReconnect, HostType
    <3> HIDE DEF To
    <3>2. QED
      BY <2>1, <2>2, <3>1
  <2>5. CASE HostReconnected(h)
    <3>1. \/ host' = [host EXCEPT ![h] = To("down", host[h].tries)] /\ tool' = 0
          \/ host' = [host EXCEPT ![h] = To("up", host[h].tries)] /\ tool' = tool /\ ~host[h].closed
      BY <1>1, <2>5 DEF HostReconnected, Unregistered, HostType
    <3> HIDE DEF To
    <3>2. QED
      BY <2>1, <2>2, <3>1
  <2>6. QED
    BY <2>3, <2>4, <2>5
<1>4. HostMoved(h, new)
  BY <1>1, <1>3, ReplaceHost
<1>5. /\ host' \in Seq(HostType) /\ Hosts' = Hosts /\ Len(host') = Len(host) /\ host'[h] = new
      /\ \A g \in Hosts \ {h} : host'[g] = host[g]
  BY <1>4 DEF HostMoved
<1>6. \A g \in Hosts : host'[g].closed = host[g].closed
  BY <1>3, <1>5
<1>7. TypeInv' /\ NamesInv'
  BY <1>1, <1>2, <1>3, <1>5 DEF RegistryInv, TypeInv, NamesInv, Requests
<1>8. LockInv' /\ FreeInv' /\ DisabledInv'
  BY <1>2 DEF RegistryInv, LockInv, FreeInv, DisabledInv, Op, Requests
<1>9. HandInv'
  <2>1. ASSUME NEW q \in Requests, req[q].at \in {"starting", "mount"}
        PROVE  req[q].h # 0 /\ ~host'[req[q].h].closed
    BY <1>6, <2>1, InHand DEF RegistryInv, HandInv
  <2>2. QED
    BY <1>2, <2>1 DEF RegistryInv, HandInv, Requests
<1>10. NoStrayHost'
  BY <1>2, <1>5, <1>6 DEF RegistryInv, NoStrayHost, Requests
<1>11. ToolInv'
  <2>1. tool # 0 => tool \in Hosts
    BY <1>1, Domains DEF RegistryInv, NamesInv
  <2>2. QED
    BY <1>3, <1>5, <2>1 DEF RegistryInv, ToolInv
<1>12. GoneInv'
  <2>1. ASSUME NEW g \in Hosts, host'[g].closed
        PROVE  host'[g].stage = "gone" \/ \E q \in Requests : req[q].h = g
    BY <1>2, <1>5, <1>6, <2>1 DEF RegistryInv, GoneInv
  <2>2. QED
    BY <1>2, <1>5, <2>1 DEF GoneInv, Requests
<1>13. QED
  BY <1>7, <1>8, <1>9, <1>10, <1>11, <1>12 DEF RegistryInv

(* A new request holds nothing.                                             *)
LEMMA ArriveKeeps ==
    ASSUME RegistryInv, NEW op \in Ops, Arrive(op)
    PROVE  RegistryInv'
<1> DEFINE stage == CASE op \in {"reconcile", "reload"} -> "lock"
                      [] op = "install" -> "copy"
                      [] op = "shutdown" -> "unload"
                      [] OTHER -> op
           new == [op |-> op, h |-> 0, version |-> 0, names |-> FALSE, at |-> stage]
           n == Len(req) + 1
<1>1. TypeInv /\ Requests = 1 .. Len(req) /\ Len(req) \in Nat
  BY Domains DEF RegistryInv
<1>2. op \in {"reconcile", "reload", "enable", "disable", "install", "uninstall", "shutdown"}
  BY OpsAssumption
<1>3. /\ stage \in {"lock", "copy", "unload", "enable", "disable", "uninstall"}
      /\ ~LockedAt(op, stage)
      /\ (stage = "uninstall" => op = "uninstall") /\ (stage = "copy" => op = "install")
      /\ stage = "unload" => op # "disable"
  BY <1>2 DEF LockedAt
<1>4. new \in RequestType /\ new.at = stage /\ new.h = 0 /\ new.op = op
  BY <1>3 DEF RequestType, Stages
<1>5. req' = Append(req, new) /\ UNCHANGED <<lock, disabled, external, mounted, tool, host, files>>
  BY DEF Arrive, maps, disk
<1> HIDE DEF new, stage
<1>6. /\ req' \in Seq(RequestType) /\ req'[n] = new
      /\ \A q \in Requests : req'[q] = req[q]
      /\ Len(req') = n
  BY <1>1, <1>4, <1>5, AppendProperties DEF TypeInv
<1>7. Requests' = Requests \cup {n}
  BY <1>1, <1>6, LenProperties DEF Requests
<1>8. n \notin Requests
  BY <1>1
<1>9. lock # n
  BY <1>1, <1>7, <1>8 DEF RegistryInv, LockInv
<1>10. TypeInv' /\ NamesInv'
  BY <1>1, <1>4, <1>5, <1>6, <1>7, Domains DEF RegistryInv, TypeInv, NamesInv
<1> HIDE DEF n
<1>11. LockInv'
  <2>1. \A q \in Requests : req'[q].op = Op(q) /\ req'[q].at = req[q].at
    BY <1>6 DEF Op
  <2>2. req'[n].op = op /\ req'[n].at = stage
    BY <1>4, <1>6
  <2>3. QED
    BY <1>3, <1>5, <1>7, <1>9, <2>1, <2>2 DEF RegistryInv, LockInv, Op
<1>12. FreeInv'
  BY <1>3, <1>4, <1>5, <1>6, <1>7 DEF RegistryInv, FreeInv, Op
<1>13. \A q \in Requests' : req'[q].h = (IF q = n THEN 0 ELSE req[q].h)
  BY <1>4, <1>6, <1>7, <1>8
<1>14. HandInv'
  <2>1. ASSUME NEW q \in Requests
        PROVE  /\ req[q].h # 0 =>
                     /\ req[q].at \in Hand /\ req[q].h # mounted
                     /\ \A p \in Requests' : req'[p].h = req[q].h => p = q
               /\ req[q].at \in {"starting", "mount"} => req[q].h # 0 /\ ~host[req[q].h].closed
    BY <1>7, <1>13 DEF RegistryInv, HandInv
  <2>2. req'[n].h = 0 /\ req'[n].at \notin {"starting", "mount"}
    BY <1>3, <1>4, <1>6
  <2>3. ASSUME NEW q \in Requests'
        PROVE  /\ req'[q].h # 0 =>
                     /\ req'[q].at \in Hand /\ req'[q].h # mounted
                     /\ \A p \in Requests' : req'[p].h = req'[q].h => p = q
               /\ req'[q].at \in {"starting", "mount"} => req'[q].h # 0 /\ ~host[req'[q].h].closed
    <3>1. CASE q \in Requests
      BY <1>6, <2>1, <3>1
    <3>2. CASE q = n
      BY <2>2, <3>2
    <3>3. QED
      BY <1>7, <3>1, <3>2
  <2>4. QED
    BY <1>5, <2>3 DEF HandInv
<1>15. NoStrayHost' /\ ToolInv' /\ GoneInv'
  <2>1. \A h \in Hosts : (\E q \in Requests : req[q].h = h) => \E q \in Requests' : req'[q].h = h
    BY <1>6, <1>7
  <2>2. QED
    BY <1>5, <2>1 DEF RegistryInv, NoStrayHost, ToolInv, GoneInv, Hosts
<1>16. DisabledInv'
  BY <1>5, <1>6, <1>7 DEF RegistryInv, DisabledInv, Op
<1>17. QED
  BY <1>10, <1>11, <1>12, <1>14, <1>15, <1>16 DEF RegistryInv

-----------------------------------------------------------------------------
(* The theorem. *)

(* No operation and no host breaks the invariant.                           *)
LEMMA RegistryStep == RegistryInv /\ [Next]_vars => RegistryInv'
<1> SUFFICES ASSUME RegistryInv, [Next]_vars PROVE RegistryInv'
  OBVIOUS
<1>1. ASSUME NEW op \in Ops, Arrive(op) PROVE RegistryInv'
  BY <1>1, ArriveKeeps
<1>2. ASSUME NEW r \in Requests, Plain(r) PROVE RegistryInv'
  BY <1>2, PlainKeeps
<1>3. ASSUME NEW r \in Requests, Unload(r) \/ CloseMark(r) \/ CloseWait(r) PROVE RegistryInv'
  BY <1>3, UnloadKeeps, CloseMarkKeeps, CloseWaitKeeps
<1>4. ASSUME NEW r \in Requests, StartHost(r) \/ StartFails(r) \/ HostReady(r) \/ Mount(r)
      PROVE  RegistryInv'
  BY <1>4, StartHostKeeps, StartFailsKeeps, HostReadyKeeps, MountKeeps
<1>5. ASSUME NEW h \in Hosts, HostLost(h) \/ HostReconnect(h) \/ HostReconnected(h) PROVE RegistryInv'
  BY <1>5, HostKeeps
<1>6. CASE UNCHANGED vars
  BY <1>6 DEF vars, maps, disk, RegistryInv, TypeInv, NamesInv, LockInv, HandInv, FreeInv, NoStrayHost,
              DisabledInv, ToolInv, GoneInv, Requests, Hosts, Op
<1>7. QED
  BY <1>1, <1>2, <1>3, <1>4, <1>5, <1>6 DEF Next, Plain

(* A fresh registry has no operation and no host.                           *)
LEMMA RegistryInit == Init => RegistryInv
<1> SUFFICES ASSUME Init PROVE RegistryInv
  OBVIOUS
<1>1. req = <<>> /\ host = <<>> /\ lock = 0 /\ mounted = 0 /\ tool = 0 /\ files \in Nat
      /\ external \in Nat /\ disabled \in BOOLEAN
  BY DEF Init
<1>2. req \in Seq(RequestType) /\ host \in Seq(HostType) /\ Len(host) = 0
  BY <1>1, EmptySeq
<1>3. Requests = {} /\ Hosts = {}
  BY <1>1 DEF Requests, Hosts
<1>4. QED
  BY <1>1, <1>2, <1>3 DEF RegistryInv, TypeInv, NamesInv, LockInv, HandInv, FreeInv, NoStrayHost,
                          DisabledInv, ToolInv, GoneInv

(* Once every operation is over, no hand holds a host: then whatever runs   *)
(* is mounted, nothing disabled is, and a closed host has taken its tools   *)
(* back.                                                                    *)
LEMMA RegistryAccounts == RegistryInv => PluginsAccounted
<1> SUFFICES ASSUME RegistryInv, Quiet, disabled, \A r \in Requests : Op(r) = "disable" => At(r, "done")
             PROVE  mounted = 0 /\ tool = 0 /\ \A h \in Hosts : host[h].closed
  BY DEF RegistryInv, PluginsAccounted, DisabledStaysDown
<1>1. TypeInv /\ tool \in Nat /\ Hosts = 1 .. Len(host) /\ Len(host) \in Nat
  BY Domains DEF RegistryInv, TypeInv
<1>2. mounted = 0
  BY DEF RegistryInv, DisabledInv, Disabling, At
<1>3. \A r \in Requests : req[r].h = 0
  BY DEF RegistryInv, HandInv, Quiet, Final, Hand
<1>4. \A h \in Hosts : host[h].closed /\ host[h].stage = "gone"
  BY <1>1, <1>2, <1>3 DEF RegistryInv, NoStrayHost, GoneInv
<1>5. tool # 0 => tool \in Hosts
  BY <1>1 DEF RegistryInv, NamesInv
<1>6. tool = 0
  BY <1>4, <1>5 DEF RegistryInv, ToolInv
<1>7. QED
  BY <1>2, <1>4, <1>6

(* A disabled plugin stays down and no plugin process is lost sight of,     *)
(* however installs, switches, reloads, shutdowns and reconnects            *)
(* interleave: reconcileMu, the hand-over of a started host and the         *)
(* disposers that run after a close are enough for any number of them.      *)
THEOREM PluginsStayAccounted == Spec => []PluginsAccounted
<1>1. RegistryInv /\ [Next]_vars => RegistryInv'
  BY RegistryStep
<1>2. QED
  BY <1>1, RegistryInit, RegistryAccounts, PTL DEF Spec

-----------------------------------------------------------------------------
(* CoreServices: owners, handles, timers.                                   *)

Reloading == {"snapshot", "build", "commit", "teardown", "unlock"}
CoreStages == Reloading \cup {"load", "rollback", "take", "close", "lock", "deliver", "done"}

OwnerType == [of : Nat, config : Nat]
CoreRequestType ==
        [op : CoreOps, at : CoreOps \cup CoreStages, got : Seq(Nat), old : SUBSET Nat, prev : OwnerType,
         copy : Seq(Nat \X Core!Owners)]

HeldOf(q) == {q.got[i] : i \in DOMAIN q.got} \cup q.old
Open == {h \in DOMAIN built : built[h] = 0}

(* What a request holds at each of its stages.                              *)
StageOf(r, q, mutex, own) ==
    /\ q.at \notin {"load", "rollback", "commit"} => q.got = <<>>
    /\ q.at \notin {"close", "teardown"} => q.old = {}
    /\ q.at \in Reloading => mutex = r
    /\ q.at \in {"build", "commit"} => q.prev = own
    /\ q.at = "commit" => Len(q.got) = 1
    /\ q.at = "teardown" => q.old = {q.prev.of}
    /\ \A i, j \in DOMAIN q.got : i # j => q.got[i] # q.got[j]

StagesInv ==
    /\ request \in Seq(CoreRequestType) /\ appOwner \in OwnerType /\ subs \in Seq(Nat \X Core!Owners)
    /\ \A r \in Core!Requests : StageOf(r, request[r], reloadMu, appOwner)

HandlesApart(hs, own) ==
    /\ hs \in [1 .. Plugins -> Nat]
    /\ \A p \in 1 .. Plugins : hs[p] # own.of
    /\ \A p, q \in 1 .. Plugins : hs[p] # 0 /\ p # q => hs[p] # hs[q]

(* Every open handle or owner has exactly one holder.                       *)
HoldersInv ==
    /\ built \in Seq({0, 1})
    /\ HandlesApart(handles, appOwner)
    /\ appOwner.of \in Open /\ Core!Loaded \subseteq Open
    /\ \A r \in Core!Requests : Core!Held(r) \subseteq Open \ ({appOwner.of} \cup Core!Loaded)
    /\ \A r, s \in Core!Requests : r # s => Core!Held(r) \cap Core!Held(s) = {}
    /\ \A h \in Open : h = appOwner.of \/ h \in Core!Loaded \/ \E r \in Core!Requests : h \in Core!Held(r)

OwnersInv == StagesInv /\ HoldersInv

LEMMA RequestUpdated ==
    ASSUME request \in Seq(CoreRequestType), NEW r \in Core!Requests, NEW q \in CoreRequestType,
           request' = [request EXCEPT ![r] = q]
    PROVE  /\ request' \in Seq(CoreRequestType) /\ Core!Requests' = Core!Requests /\ request'[r] = q
           /\ \A s \in Core!Requests : s # r => request'[s] = request[s]
<1> HIDE DEF CoreRequestType
<1>1. QED
  BY DEF Core!Requests

(* A request goes on to q, which its stage allows.                          *)
LEMMA StageTaken ==
    ASSUME StagesInv, NEW r \in Core!Requests, NEW q \in CoreRequestType, request' = [request EXCEPT ![r] = q],
           StageOf(r, q, reloadMu', appOwner'), subs' \in Seq(Nat \X Core!Owners),
           appOwner' \in OwnerType, appOwner' = appOwner \/ reloadMu = r,
           reloadMu' = reloadMu \/ reloadMu = r \/ reloadMu = 0
    PROVE  StagesInv'
<1> HIDE DEF CoreRequestType
<1>1. /\ request' \in Seq(CoreRequestType) /\ Core!Requests' = Core!Requests /\ request'[r] = q
      /\ \A s \in Core!Requests : s # r => request'[s] = request[s]
  BY RequestUpdated DEF StagesInv
<1>2. ASSUME NEW s \in Core!Requests, s # r PROVE StageOf(s, request'[s], reloadMu', appOwner')
  <2>1. StageOf(s, request[s], reloadMu, appOwner) /\ s # 0
    BY DEF StagesInv, Core!Requests
  <2>2. CASE request[s].at \in Reloading
    <3>1. reloadMu = s /\ s # r
      BY <1>2, <2>1, <2>2 DEF StageOf
    <3>2. reloadMu' = reloadMu /\ appOwner' = appOwner
      BY <2>1, <3>1
    <3>3. QED
      BY <1>1, <1>2, <2>1, <3>2
  <2>3. CASE request[s].at \notin Reloading
    BY <1>1, <1>2, <2>1, <2>3 DEF StageOf, Reloading
  <2>4. QED
    BY <2>2, <2>3
<1>3. QED
  BY <1>1, <1>2 DEF StagesInv

(* What a request, the owner and the handle map exchange among themselves,  *)
(* and what is built into or closed out of their hands, stays theirs.       *)
LEMMA HoldersTaken ==
    ASSUME HoldersInv, request \in Seq(CoreRequestType), NEW r \in Core!Requests, NEW q \in CoreRequestType,
           request' = [request EXCEPT ![r] = q],
           NEW fresh, NEW gone, built' \in Seq({0, 1}), HandlesApart(handles', appOwner'),
           Open' = (Open \cup fresh) \ gone, fresh \cap Open = {}, gone \subseteq Core!Held(r),
           HeldOf(q) \cup {appOwner'.of} \cup Core!Loaded' = (Core!Held(r) \cup {appOwner.of} \cup Core!Loaded
           \cup fresh) \ gone,
           HeldOf(q) \cap ({appOwner'.of} \cup Core!Loaded') = {}
    PROVE  HoldersInv'
<1> HIDE DEF CoreRequestType
<1>1. /\ request' \in Seq(CoreRequestType) /\ Core!Requests' = Core!Requests /\ request'[r] = q
      /\ \A s \in Core!Requests : s # r => request'[s] = request[s]
  BY RequestUpdated
<1>2. Core!Held(r)' = HeldOf(q) /\ \A s \in Core!Requests : s # r => Core!Held(s)' = Core!Held(s)
  BY <1>1 DEF Core!Held, HeldOf
<1> HIDE DEF Core!Held, HeldOf, Open, Core!Loaded
<1>3. appOwner'.of \in Open' /\ Core!Loaded' \subseteq Open' /\ Core!Held(r)' \subseteq Open'
  BY <1>2 DEF HoldersInv
<1>4. \A s \in Core!Requests : s # r => /\ Core!Held(s) \subseteq Open /\ Core!Held(s) \cap Core!Held(r) = {}
                                         /\ Core!Held(s) \cap ({appOwner.of} \cup Core!Loaded) = {}
  BY DEF HoldersInv
<1>5. \A s \in Core!Requests : s # r => /\ Core!Held(s)' \subseteq Open' /\ Core!Held(s)' \cap Core!Held(r)' = {}
                                         /\ Core!Held(s)' \cap ({appOwner'.of} \cup Core!Loaded') = {}
  BY <1>2, <1>4
<1>6. \A s \in Core!Requests : Core!Held(s)' \subseteq Open' \ ({appOwner'.of} \cup Core!Loaded')
  BY <1>2, <1>3, <1>5
<1>7. \A s, u \in Core!Requests : s # u => Core!Held(s)' \cap Core!Held(u)' = {}
  <2>1. ASSUME NEW s \in Core!Requests, NEW u \in Core!Requests, s # u PROVE Core!Held(s)' \cap Core!Held(u)' = {}
    <3>1. CASE s = r
      BY <1>5, <2>1, <3>1
    <3>2. CASE u = r
      BY <1>5, <2>1, <3>2
    <3>3. CASE s # r /\ u # r
      BY <1>2, <2>1, <3>3 DEF HoldersInv
    <3>4. QED
      BY <3>1, <3>2, <3>3
  <2>2. QED
    BY <2>1
<1>8. ASSUME NEW h \in Open'
             PROVE h = appOwner'.of \/ h \in Core!Loaded' \/ \E s \in Core!Requests : h \in Core!Held(s)'
  <2>1. CASE h \in fresh \/ h = appOwner.of \/ h \in Core!Loaded \/ h \in Core!Held(r)
    BY <1>2, <1>8, <2>1
  <2>2. CASE \E s \in Core!Requests : s # r /\ h \in Core!Held(s)
    BY <1>2, <2>2
  <2>3. QED
    BY <1>8, <2>1, <2>2 DEF HoldersInv
<1>9. QED
  BY <1>1, <1>3, <1>6, <1>7, <1>8 DEF HoldersInv

(* A step that moves no handle.                                             *)
LEMMA QuietStep ==
    ASSUME OwnersInv, NEW r \in Core!Requests, NEW q \in CoreRequestType, request' = [request EXCEPT ![r] = q],
           q.got = request[r].got, q.old = request[r].old,
           StageOf(r, q, reloadMu', appOwner), UNCHANGED <<built, handles, appOwner>>,
           subs' \in Seq(Nat \X Core!Owners),
           reloadMu' = reloadMu \/ reloadMu = r \/ reloadMu = 0
    PROVE  OwnersInv'
<1> HIDE DEF CoreRequestType
<1>1. StagesInv'
  BY StageTaken DEF OwnersInv, StagesInv
<1>2. HeldOf(q) = Core!Held(r)
  BY DEF Core!Held, HeldOf
<1>3. Open' = Open /\ Core!Loaded' = Core!Loaded
  BY DEF Open, Core!Loaded
<1>4. Core!Held(r) \cap ({appOwner.of} \cup Core!Loaded) = {} /\ HandlesApart(handles, appOwner)
      /\ built \in Seq({0, 1})
  BY DEF OwnersInv, HoldersInv
<1> DEFINE none == {}
<1>5. none \cap Open = {} /\ none \subseteq Core!Held(r) /\ (Open \cup none) \ none = Open
  OBVIOUS
<1>6. HeldOf(q) \cup {appOwner'.of} \cup Core!Loaded' = (Core!Held(r) \cup {appOwner.of} \cup Core!Loaded
      \cup none) \ none
  BY <1>2, <1>3
<1> HIDE DEF none
<1>7. Open' = (Open \cup none) \ none /\ HandlesApart(handles', appOwner') /\ built' \in Seq({0, 1})
      /\ HeldOf(q) \cap ({appOwner'.of} \cup Core!Loaded') = {}
  BY <1>2, <1>3, <1>4, <1>5
<1>8. HoldersInv /\ request \in Seq(CoreRequestType)
  BY DEF OwnersInv, StagesInv
<1>9. HoldersInv'
  BY <1>5, <1>6, <1>7, <1>8, HoldersTaken
<1>10. QED
  BY <1>1, <1>9 DEF OwnersInv

(* What is built, or closed.                                                *)
LEMMA BuiltOne ==
    ASSUME built \in Seq({0, 1}), built' = Append(built, 0)
    PROVE  /\ built' \in Seq({0, 1}) /\ Len(built) + 1 \in Nat
           /\ Open' = Open \cup {Len(built) + 1} /\ Len(built) + 1 \notin Open
<1>1. built' \in Seq({0, 1}) /\ Len(built) \in Nat /\ DOMAIN built' = DOMAIN built \cup {Len(built) + 1}
      /\ Len(built) + 1 \notin DOMAIN built
      /\ \A h \in DOMAIN built : built'[h] = built[h]
      /\ built'[Len(built) + 1] = 0
  OBVIOUS
<1>2. QED
  BY <1>1 DEF Open

LEMMA ClosedOne ==
    ASSUME built \in Seq({0, 1}), NEW h \in Open, Core!Closed(h)
    PROVE  built' \in Seq({0, 1}) /\ Open' = Open \ {h}
<1>1. h \in DOMAIN built /\ built[h] = 0 /\ built' = [built EXCEPT ![h] = 1]
  BY DEF Open, Core!Closed
<1>2. built' \in Seq({0, 1}) /\ DOMAIN built' = DOMAIN built /\ built'[h] = 1
      /\ \A x \in DOMAIN built : x # h => built'[x] = built[x]
  BY <1>1
<1>3. QED
  BY <1>1, <1>2 DEF Open

LEMMA OpenNat == ASSUME HoldersInv PROVE Open \subseteq Nat \ {0}
BY DEF HoldersInv, Open

(* A plugin or an owner is built into the hands of its request.             *)
LEMMA BuildStep ==
    ASSUME OwnersInv, NEW r \in Core!Requests, NEW q \in CoreRequestType, request' = [request EXCEPT ![r] = q],
           built' = Append(built, 0), request[r].old = {}, q.old = {},
           q.got = Append(request[r].got, Len(built) + 1),
           request[r].at # "commit", q.at = IF request[r].at = "load" THEN "load" ELSE "commit",
           request[r].at \in {"load", "build"}, q.prev = request[r].prev,
           UNCHANGED <<handles, Core!reload, subs>>
    PROVE  OwnersInv'
<1> DEFINE new == Len(built) + 1
           got == request[r].got
<1>1. /\ request[r] \in CoreRequestType /\ got \in Seq(Nat) /\ StageOf(r, request[r], reloadMu, appOwner)
      /\ request \in Seq(CoreRequestType) /\ StagesInv /\ HoldersInv
  <2>1. StagesInv /\ HoldersInv /\ request \in Seq(CoreRequestType) /\ StageOf(r, request[r], reloadMu, appOwner)
    BY DEF OwnersInv, StagesInv
  <2>2. request[r] \in CoreRequestType
    <3> HIDE DEF CoreRequestType
    <3>1. QED
      BY <2>1 DEF Core!Requests
  <2>3. QED
    BY <2>1, <2>2 DEF CoreRequestType
<1>2. built' \in Seq({0, 1}) /\ new \in Nat /\ Open' = Open \cup {new} /\ new \notin Open
  BY BuiltOne DEF OwnersInv, HoldersInv
<1>3. Core!Held(r) \subseteq Open \ ({appOwner.of} \cup Core!Loaded) /\ appOwner.of \in Open
      /\ Core!Loaded \subseteq Open
  BY DEF OwnersInv, HoldersInv
<1> HIDE DEF CoreRequestType, new
<1>4. /\ q.got = Append(got, new) /\ DOMAIN got = 1 .. Len(got) /\ DOMAIN q.got = 1 .. Len(got) + 1
         /\ Len(got) \in Nat
      /\ \A i \in DOMAIN got : q.got[i] = got[i]
      /\ q.got[Len(got) + 1] = new /\ Len(q.got) = Len(got) + 1
  <2>1. q.got = Append(got, new)
    BY DEF new
  <2> HIDE DEF got
  <2>2. /\ Len(got) \in Nat /\ Len(Append(got, new)) = Len(got) + 1
        /\ DOMAIN got = 1 .. Len(got) /\ DOMAIN Append(got, new) = 1 .. Len(got) + 1
        /\ \A i \in 1 .. Len(got) : Append(got, new)[i] = got[i]
        /\ Append(got, new)[Len(got) + 1] = new
    BY <1>1, <1>2, AppendOf
  <2>3. QED
    BY <2>1, <2>2, Zenon
<1>5. \A i \in DOMAIN got : got[i] \in Open
  BY <1>3 DEF Core!Held
<1>6. HeldOf(q) = Core!Held(r) \cup {new}
  BY <1>4 DEF Core!Held, HeldOf
<1>7. ASSUME NEW i \in DOMAIN q.got, NEW j \in DOMAIN q.got, i # j PROVE q.got[i] # q.got[j]
  <2>1. i \in DOMAIN got \/ i = Len(got) + 1
    BY <1>4
  <2>2. j \in DOMAIN got \/ j = Len(got) + 1
    BY <1>4
  <2>3. QED
    BY <1>1, <1>2, <1>4, <1>5, <1>7, <2>1, <2>2 DEF StageOf
<1>8. StageOf(r, q, reloadMu', appOwner')
  <2>1. request[r].at = "build" => got = <<>> /\ reloadMu = r /\ request[r].prev = appOwner
    BY <1>1 DEF StageOf, Reloading
  <2>2. got = <<>> => Len(got) = 0
    OBVIOUS
  <2>3. q.at = "commit" => Len(q.got) = 1 /\ reloadMu = r /\ q.prev = appOwner
    BY <1>4, <2>1, <2>2
  <2>4. QED
    BY <1>7, <2>3 DEF StageOf, Reloading, Core!reload
<1>9. StagesInv'
  BY <1>1, <1>8, StageTaken DEF Core!reload, StagesInv
<1> DEFINE fresh == {new}
           none == {}
<1>10. /\ Open' = (Open \cup fresh) \ none /\ fresh \cap Open = {} /\ none \subseteq Core!Held(r)
       /\ appOwner' = appOwner /\ handles' = handles /\ Core!Loaded' = Core!Loaded
       /\ HandlesApart(handles', appOwner')
  BY <1>1, <1>2 DEF Core!reload, Core!Loaded, HoldersInv
<1>11. HeldOf(q) \cup {appOwner'.of} \cup Core!Loaded' = (Core!Held(r) \cup {appOwner.of} \cup Core!Loaded
       \cup fresh) \ none
  BY <1>6, <1>10
<1>12. HeldOf(q) \cap ({appOwner'.of} \cup Core!Loaded') = {}
  BY <1>2, <1>3, <1>6, <1>10
<1> HIDE DEF fresh, none
<1>13. HoldersInv'
  BY <1>1, <1>2, <1>10, <1>11, <1>12, HoldersTaken
<1>14. QED
  BY <1>9, <1>13 DEF OwnersInv

(* A request closes one of those it holds.                                  *)
LEMMA CloseStep ==
    ASSUME OwnersInv, NEW r \in Core!Requests, NEW q \in CoreRequestType, request' = [request EXCEPT ![r] = q],
           NEW h \in Core!Held(r), Core!Closed(h), HeldOf(q) = Core!Held(r) \ {h},
           StageOf(r, q, reloadMu, appOwner), UNCHANGED <<handles, Core!reload, subs>>
    PROVE  OwnersInv'
<1> HIDE DEF CoreRequestType
<1>1. StagesInv /\ HoldersInv /\ request \in Seq(CoreRequestType) /\ built \in Seq({0, 1})
  BY DEF OwnersInv, StagesInv, HoldersInv
<1>2. Core!Held(r) \subseteq Open \ ({appOwner.of} \cup Core!Loaded)
  BY <1>1 DEF HoldersInv
<1>3. built' \in Seq({0, 1}) /\ Open' = Open \ {h}
  BY <1>1, <1>2, ClosedOne
<1>4. StagesInv'
  BY <1>1, StageTaken DEF Core!reload, StagesInv
<1> DEFINE gone == {h}
           none == {}
<1>5. /\ appOwner' = appOwner /\ handles' = handles /\ Core!Loaded' = Core!Loaded
         /\ HandlesApart(handles', appOwner')
      /\ Open' = (Open \cup none) \ gone /\ none \cap Open = {} /\ gone \subseteq Core!Held(r)
  BY <1>1, <1>3 DEF Core!reload, Core!Loaded, HoldersInv
<1>6. HeldOf(q) \cup {appOwner'.of} \cup Core!Loaded' = (Core!Held(r) \cup {appOwner.of} \cup Core!Loaded
      \cup none) \ gone
  BY <1>2, <1>5
<1>7. HeldOf(q) \cap ({appOwner'.of} \cup Core!Loaded') = {}
  BY <1>2, <1>5
<1> HIDE DEF gone, none
<1>8. HoldersInv'
  BY <1>1, <1>3, <1>5, <1>6, <1>7, HoldersTaken
<1>9. QED
  BY <1>4, <1>8 DEF OwnersInv

LEMMA RequestFacts ==
    ASSUME OwnersInv, NEW r \in Core!Requests
    PROVE  /\ StagesInv /\ HoldersInv /\ request \in Seq(CoreRequestType) /\ request[r] \in CoreRequestType
           /\ r \in Nat \ {0} /\ StageOf(r, request[r], reloadMu, appOwner) /\ subs \in Seq(Nat \X Core!Owners)
           /\ request[r].got \in Seq(Nat) /\ request[r].old \in SUBSET Nat
              /\ request[r].copy \in Seq(Nat \X Core!Owners)
           /\ appOwner \in OwnerType
<1>1. StagesInv /\ HoldersInv /\ request \in Seq(CoreRequestType) /\ StageOf(r, request[r], reloadMu, appOwner)
      /\ appOwner \in OwnerType /\ subs \in Seq(Nat \X Core!Owners)
  BY DEF OwnersInv, StagesInv
<1>2. request[r] \in CoreRequestType /\ r \in Nat \ {0}
  <2> HIDE DEF CoreRequestType
  <2>1. QED
    BY <1>1 DEF Core!Requests
<1>3. QED
  BY <1>1, <1>2 DEF CoreRequestType

LEMMA NextNumber == ASSUME OwnersInv PROVE Len(built) + 1 \in Nat
BY DEF OwnersInv, HoldersInv

LEMMA GoStep ==
    ASSUME OwnersInv, NEW r \in Core!Requests, NEW stage \in {"done", "snapshot", "unlock", "rollback"},
           Core!Go(r, stage),
           request[r].old = {}, request[r].got = <<>> \/ stage = "rollback",
           stage \in {"snapshot", "unlock"} => reloadMu' = r,
           UNCHANGED <<built, handles, appOwner>>, subs' \in Seq(Nat \X Core!Owners),
           reloadMu' = reloadMu \/ reloadMu = r \/ reloadMu = 0
    PROVE  OwnersInv'
<1> DEFINE q == [request[r] EXCEPT !.at = stage]
<1>1. /\ q \in CoreRequestType /\ q.got = request[r].got /\ q.old = {} /\ q.at = stage
      /\ StageOf(r, request[r], reloadMu, appOwner)
  BY RequestFacts DEF CoreRequestType, CoreStages, Reloading
<1>2. request' = [request EXCEPT ![r] = q]
  BY DEF Core!Go
<1> HIDE DEF q
<1>3. StageOf(r, q, reloadMu', appOwner)
  BY <1>1 DEF StageOf, Reloading
<1>4. QED
  BY <1>1, <1>2, <1>3, QuietStep

LEMMA LoadPluginStep ==
    ASSUME OwnersInv, NEW r \in Core!Requests, Core!LoadPlugin(r)
    PROVE  OwnersInv'
<1>1. request[r].at = "load" /\ UNCHANGED <<handles, Core!reload, subs>>
  BY DEF Core!LoadPlugin, Core!At
<1>2. request[r].old = {} /\ request[r] \in CoreRequestType /\ Len(built) + 1 \in Nat /\ request[r].got \in Seq(Nat)
  BY <1>1, RequestFacts, NextNumber DEF StageOf
<1>3. CASE built' = Append(built, 0) /\ request' = [request EXCEPT ![r].got = Append(@, Len(built) + 1)]
  <2> DEFINE new == Len(built) + 1
             got == Append(request[r].got, new)
             q == [request[r] EXCEPT !.got = got]
  <2>0. new \in Nat
    BY <1>2
  <2> HIDE DEF new
  <2>1. got \in Seq(Nat)
    BY <1>2, <2>0
  <2>2. request' = [request EXCEPT ![r] = q]
    BY <1>3 DEF new
  <2> HIDE DEF got
  <2>3. q \in CoreRequestType /\ q.got = got /\ q.old = request[r].old /\ q.at = request[r].at
        /\ q.prev = request[r].prev
    BY <1>2, <2>1 DEF CoreRequestType
  <2>4. q.got = Append(request[r].got, Len(built) + 1)
    BY <2>3 DEF got, new
  <2> HIDE DEF q
  <2>5. QED
    BY <1>1, <1>2, <1>3, <2>2, <2>3, <2>4, BuildStep
<1>4. CASE Core!Go(r, "rollback") /\ UNCHANGED built
  BY <1>1, <1>2, <1>4, GoStep, RequestFacts DEF Core!reload
<1>5. QED
  BY <1>3, <1>4 DEF Core!LoadPlugin

LEMMA FrontOf ==
    ASSUME NEW q \in Seq(Nat), q # <<>>, \A i, j \in DOMAIN q : i # j => q[i] # q[j],
           NEW f, f = SubSeq(q, 1, Len(q) - 1)
    PROVE  /\ f \in Seq(Nat) /\ Len(q) \in DOMAIN q
           /\ {f[i] : i \in DOMAIN f} = {q[i] : i \in DOMAIN q} \ {q[Len(q)]}
           /\ \A i, j \in DOMAIN f : i # j => f[i] # f[j]
<1>1. Len(q) \in Nat \ {0} /\ DOMAIN q = 1 .. Len(q)
  OBVIOUS
<1>2. f \in Seq(Nat) /\ DOMAIN f = 1 .. Len(q) - 1 /\ \A i \in DOMAIN f : f[i] = q[i]
  BY <1>1
<1>3. DOMAIN q = DOMAIN f \cup {Len(q)} /\ Len(q) \notin DOMAIN f
  BY <1>1, <1>2
<1> DEFINE last == Len(q)
<1>4. DOMAIN q = DOMAIN f \cup {last} /\ last \notin DOMAIN f
  BY <1>3
<1> HIDE DEF last
<1>5. {f[i] : i \in DOMAIN f} = {q[i] : i \in DOMAIN q} \ {q[last]}
  <2>1. \A i \in DOMAIN f : f[i] = q[i] /\ q[i] # q[last] /\ i \in DOMAIN q
    BY <1>2, <1>4
  <2>2. \A i \in DOMAIN q : i = last \/ i \in DOMAIN f
    BY <1>4
  <2> HIDE DEF last
  <2>3. ASSUME NEW x \in {f[i] : i \in DOMAIN f} PROVE x \in {q[i] : i \in DOMAIN q} \ {q[last]}
    BY <2>1
  <2>4. ASSUME NEW x \in {q[i] : i \in DOMAIN q} \ {q[last]} PROVE x \in {f[i] : i \in DOMAIN f}
    <3>1. PICK i \in DOMAIN q : x = q[i]
      BY <2>4
    <3>2. i \in DOMAIN f
      BY <2>2, <3>1
    <3>3. QED
      BY <2>1, <3>1, <3>2
  <2>5. QED
    BY <2>3, <2>4
<1>6. \A i, j \in DOMAIN f : i # j => f[i] # f[j]
  BY <1>2, <1>4
<1>7. QED
  BY <1>2, <1>4, <1>5, <1>6 DEF last

LEMMA RollbackStep ==
    ASSUME OwnersInv, NEW r \in Core!Requests, Core!Rollback(r)
    PROVE  OwnersInv'
<1> DEFINE got == request[r].got
<1>1. request[r].at = "rollback" /\ UNCHANGED <<handles, Core!reload, subs>>
  BY DEF Core!Rollback, Core!At
<1>2. /\ request[r].old = {} /\ request[r] \in CoreRequestType /\ got \in Seq(Nat)
      /\ \A i, j \in DOMAIN got : i # j => got[i] # got[j]
  BY <1>1, RequestFacts DEF StageOf
<1>3. CASE got = <<>>
  <2>1. Core!Go(r, "done") /\ UNCHANGED built
    BY <1>3 DEF Core!Rollback
  <2>2. QED
    BY <1>1, <1>2, <1>3, <2>1, GoStep, RequestFacts DEF Core!reload
<1>4. CASE got # <<>>
  <2> DEFINE front == SubSeq(got, 1, Len(got) - 1)
             q == [request[r] EXCEPT !.got = front]
             h == got[Len(got)]
  <2>1. Core!Closed(h) /\ request' = [request EXCEPT ![r] = q]
    BY <1>4 DEF Core!Rollback
  <2>2. /\ front \in Seq(Nat) /\ Len(got) \in DOMAIN got
        /\ {front[i] : i \in DOMAIN front} = {got[i] : i \in DOMAIN got} \ {h}
        /\ \A i, j \in DOMAIN front : i # j => front[i] # front[j]
    <3> HIDE DEF got
    <3>1. QED
      BY <1>2, <1>4, FrontOf
  <2> HIDE DEF front
  <2>3. q \in CoreRequestType /\ q.got = front /\ q.old = request[r].old /\ q.at = "rollback"
        /\ q.prev = request[r].prev
    BY <1>1, <1>2, <2>2 DEF CoreRequestType
  <2> HIDE DEF q
  <2>4. h \in Core!Held(r) /\ HeldOf(q) = Core!Held(r) \ {h}
    BY <1>2, <2>2, <2>3 DEF Core!Held, HeldOf
  <2>5. StageOf(r, q, reloadMu, appOwner)
    BY <1>2, <2>2, <2>3 DEF StageOf, Reloading
  <2>6. QED
    BY <1>1, <2>1, <2>3, <2>4, <2>5, CloseStep
<1>5. QED
  BY <1>3, <1>4

(* The handle map is replaced: what it held goes to the request, what the   *)
(* request loaded goes into the map.                                        *)
LEMMA SwapStep ==
    ASSUME OwnersInv, NEW r \in Core!Requests, NEW q \in CoreRequestType, request' = [request EXCEPT ![r] = q],
           request[r].old = {}, q.got = <<>>, q.old = Core!Loaded, q.at = "close", UNCHANGED <<built, Core!reload,
           subs>>,
           handles' \in [1 .. Plugins -> Nat], Core!Loaded' = Core!Held(r),
           \A p, o \in 1 .. Plugins : handles'[p] # 0 /\ p # o => handles'[p] # handles'[o],
           \A p \in 1 .. Plugins : handles'[p] # appOwner.of
    PROVE  OwnersInv'
<1> HIDE DEF CoreRequestType
<1>1. /\ StagesInv /\ HoldersInv /\ request \in Seq(CoreRequestType) /\ built \in Seq({0, 1})
      /\ Core!Held(r) \subseteq Open \ ({appOwner.of} \cup Core!Loaded) /\ HandlesApart(handles, appOwner)
  BY RequestFacts DEF HoldersInv
<1>2. HandlesApart(handles', appOwner') /\ appOwner' = appOwner /\ built' = built /\ Open' = Open
  BY DEF HandlesApart, Core!reload, Open
<1>3. StageOf(r, q, reloadMu', appOwner')
  BY DEF StageOf, Reloading
<1>4. StagesInv'
  BY <1>1, <1>3, StageTaken, RequestFacts DEF Core!reload
<1>5. HeldOf(q) = Core!Loaded
  BY DEF HeldOf
<1>6. Core!Loaded \cap {appOwner.of} = {}
  BY <1>1 DEF Core!Loaded, HandlesApart
<1> DEFINE none == {}
<1>7. /\ Open' = (Open \cup none) \ none /\ none \cap Open = {} /\ none \subseteq Core!Held(r)
      /\ HeldOf(q) \cup {appOwner'.of} \cup Core!Loaded' = (Core!Held(r) \cup {appOwner.of} \cup Core!Loaded
         \cup none) \ none
      /\ HeldOf(q) \cap ({appOwner'.of} \cup Core!Loaded') = {}
  BY <1>1, <1>2, <1>5, <1>6
<1>8. built' \in Seq({0, 1})
  BY <1>1, <1>2
<1> HIDE DEF none
<1>9. HoldersInv'
  BY <1>1, <1>2, <1>7, <1>8, HoldersTaken
<1>10. QED
  BY <1>4, <1>9 DEF OwnersInv

LEMMA LoadedNat ==
    ASSUME OwnersInv
    PROVE  Core!Loaded \in SUBSET Nat
BY DEF OwnersInv, HoldersInv, HandlesApart, Core!Loaded

LEMMA InstallStep ==
    ASSUME OwnersInv, NEW r \in Core!Requests, Core!InstallHandles(r)
    PROVE  OwnersInv'
<1> DEFINE got == request[r].got
           nothing == <<>>
           q == [request[r] EXCEPT !.at = "close", !.got = nothing, !.old = Core!Loaded]
<1>1. /\ request[r].at = "load" /\ Len(got) = Plugins /\ handles' = got /\ UNCHANGED <<built, Core!reload, subs>>
      /\ request' = [request EXCEPT ![r] = q]
  BY DEF Core!InstallHandles, Core!At
<1>2. /\ request[r].old = {} /\ request[r] \in CoreRequestType /\ got \in Seq(Nat)
      /\ \A i, j \in DOMAIN got : i # j => got[i] # got[j]
  BY <1>1, RequestFacts DEF StageOf
<1>0. nothing \in Seq(Nat)
  OBVIOUS
<1>a. nothing = <<>>
  OBVIOUS
<1> HIDE DEF nothing
<1>b. q \in CoreRequestType /\ q.got = nothing /\ q.old = Core!Loaded /\ q.at = "close"
  BY <1>0, <1>2, LoadedNat DEF CoreRequestType, CoreStages
<1>3. q \in CoreRequestType /\ q.got = <<>> /\ q.old = Core!Loaded /\ q.at = "close"
  BY <1>a, <1>b
<1> HIDE DEF q
<1>4. DOMAIN got = 1 .. Plugins /\ handles' \in [1 .. Plugins -> Nat]
  <2> HIDE DEF got
  <2>1. QED
    BY <1>1, <1>2, CoreAssumption
<1>5. Core!Held(r) = {got[i] : i \in 1 .. Plugins}
  BY <1>2, <1>4 DEF Core!Held
<1>6. Core!Held(r) \subseteq Open /\ appOwner.of \notin Core!Held(r) /\ Open \subseteq Nat \ {0}
  BY OpenNat DEF OwnersInv, HoldersInv
<1>7. Core!Loaded' = Core!Held(r)
  BY <1>1, <1>5, <1>6 DEF Core!Loaded
<1>8. /\ \A p, o \in 1 .. Plugins : handles'[p] # 0 /\ p # o => handles'[p] # handles'[o]
      /\ \A p \in 1 .. Plugins : handles'[p] # appOwner.of
  BY <1>1, <1>2, <1>4, <1>5, <1>6
<1>9. QED
  BY <1>1, <1>2, <1>3, <1>4, <1>7, <1>8, SwapStep

LEMMA TakeStep ==
    ASSUME OwnersInv, NEW r \in Core!Requests, Core!TakeHandles(r)
    PROVE  OwnersInv'
<1> DEFINE q == [request[r] EXCEPT !.at = "close", !.old = Core!Loaded]
<1>1. /\ request[r].at = "take" /\ handles' = [p \in 1 .. Plugins |-> 0] /\ UNCHANGED <<built, Core!reload, subs>>
      /\ request' = [request EXCEPT ![r] = q]
  BY DEF Core!TakeHandles, Core!At
<1>2. request[r].old = {} /\ request[r] \in CoreRequestType /\ request[r].got = <<>>
  BY <1>1, RequestFacts DEF StageOf
<1>3. q \in CoreRequestType /\ q.got = <<>> /\ q.old = Core!Loaded /\ q.at = "close"
  BY <1>2, LoadedNat DEF CoreRequestType, CoreStages
<1> HIDE DEF q
<1>4. Core!Held(r) = {}
  BY <1>2 DEF Core!Held
<1>5. appOwner.of # 0
  BY OpenNat DEF OwnersInv, HoldersInv
<1>6. /\ Core!Loaded' = Core!Held(r) /\ handles' \in [1 .. Plugins -> Nat]
      /\ \A p, o \in 1 .. Plugins : handles'[p] # 0 /\ p # o => handles'[p] # handles'[o]
      /\ \A p \in 1 .. Plugins : handles'[p] # appOwner.of
  BY <1>1, <1>4, <1>5 DEF Core!Loaded
<1>7. QED
  BY <1>1, <1>2, <1>3, <1>6, SwapStep

LEMMA CloseOldStep ==
    ASSUME OwnersInv, NEW r \in Core!Requests, Core!CloseOld(r)
    PROVE  OwnersInv'
<1>1. request[r].at = "close" /\ UNCHANGED <<handles, Core!reload, subs>>
  BY DEF Core!CloseOld, Core!At
<1>2. request[r].got = <<>> /\ request[r] \in CoreRequestType /\ request[r].old \in SUBSET Nat
  BY <1>1, RequestFacts DEF StageOf
<1>3. CASE request[r].old = {} /\ Core!Go(r, "done") /\ UNCHANGED built
  BY <1>1, <1>2, <1>3, GoStep, RequestFacts DEF Core!reload
<1>4. ASSUME NEW h \in request[r].old, Core!Closed(h), request' = [request EXCEPT ![r].old = @ \ {h}]
      PROVE  OwnersInv'
  <2> DEFINE q == [request[r] EXCEPT !.old = @ \ {h}]
  <2>1. q \in CoreRequestType /\ q.got = <<>> /\ q.old = request[r].old \ {h} /\ q.at = "close"
    BY <1>1, <1>2 DEF CoreRequestType
  <2>2. request' = [request EXCEPT ![r] = q]
    BY <1>4
  <2> HIDE DEF q
  <2>3. h \in Core!Held(r) /\ HeldOf(q) = Core!Held(r) \ {h}
    BY <1>2, <1>4, <2>1 DEF Core!Held, HeldOf
  <2>4. StageOf(r, q, reloadMu, appOwner)
    BY <2>1 DEF StageOf, Reloading
  <2>5. QED
    BY <1>1, <1>4, <2>1, <2>2, <2>3, <2>4, CloseStep
<1>5. QED
  BY <1>3, <1>4 DEF Core!CloseOld

LEMMA ReloadBuildStep ==
    ASSUME OwnersInv, NEW r \in Core!Requests, Core!ReloadBuild(r)
    PROVE  OwnersInv'
<1>1. request[r].at = "build" /\ UNCHANGED <<handles, Core!reload, subs>>
  BY DEF Core!ReloadBuild, Core!At
<1>2. /\ request[r].old = {} /\ request[r].got = <<>> /\ request[r] \in CoreRequestType /\ Len(built) + 1 \in Nat
      /\ reloadMu = r
  BY <1>1, RequestFacts, NextNumber DEF StageOf, Reloading
<1>3. CASE built' = Append(built, 0)
           /\ request' = [request EXCEPT ![r].at = "commit", ![r].got = <<Len(built) + 1>>]
  <2> DEFINE new == Len(built) + 1
             got == <<new>>
             q == [request[r] EXCEPT !.at = "commit", !.got = got]
  <2>0. new \in Nat
    BY <1>2
  <2> HIDE DEF new
  <2>1. got \in Seq(Nat)
    BY <2>0
  <2>2. request' = [request EXCEPT ![r] = q]
    BY <1>3 DEF new
  <2>3. got = Append(<<>>, new)
    OBVIOUS
  <2> HIDE DEF got
  <2>4. q \in CoreRequestType /\ q.got = got /\ q.old = request[r].old /\ q.at = "commit"
        /\ q.prev = request[r].prev
    BY <1>2, <2>1 DEF CoreRequestType, CoreStages, Reloading
  <2>5. q.got = Append(request[r].got, Len(built) + 1)
    BY <1>2, <2>3, <2>4 DEF new
  <2> HIDE DEF q
  <2>6. QED
    BY <1>1, <1>2, <1>3, <2>2, <2>4, <2>5, BuildStep
<1>4. CASE Core!Go(r, "unlock") /\ UNCHANGED built
  BY <1>1, <1>2, <1>4, GoStep, RequestFacts DEF Core!reload
<1>5. QED
  BY <1>3, <1>4 DEF Core!ReloadBuild

LEMMA ReloadSnapshotStep ==
    ASSUME OwnersInv, NEW r \in Core!Requests, Core!ReloadSnapshot(r)
    PROVE  OwnersInv'
<1> DEFINE q == [request[r] EXCEPT !.at = "build", !.prev = appOwner]
<1>1. request[r].at = "snapshot" /\ UNCHANGED <<built, handles, Core!reload, subs>>
      /\ request' = [request EXCEPT ![r] = q]
  BY DEF Core!ReloadSnapshot, Core!At
<1>2. /\ request[r].old = {} /\ request[r].got = <<>> /\ request[r] \in CoreRequestType /\ reloadMu = r
         /\ appOwner \in OwnerType
      /\ subs \in Seq(Nat \X Core!Owners)
  BY <1>1, RequestFacts DEF StageOf, Reloading
<1>3. q \in CoreRequestType /\ q.got = <<>> /\ q.old = {} /\ q.at = "build" /\ q.prev = appOwner
  BY <1>2 DEF CoreRequestType, CoreStages, Reloading
<1> HIDE DEF q
<1>4. StageOf(r, q, reloadMu', appOwner)
  BY <1>1, <1>2, <1>3 DEF StageOf, Reloading, Core!reload
<1>5. QED
  BY <1>1, <1>2, <1>3, <1>4, QuietStep DEF Core!reload

LEMMA ReloadCommitStep ==
    ASSUME OwnersInv, NEW r \in Core!Requests, Core!ReloadCommit(r)
    PROVE  OwnersInv'
<1> DEFINE old == {request[r].prev.of}
           nothing == <<>>
           q == [request[r] EXCEPT !.at = "teardown", !.got = nothing, !.old = old]
           new == request[r].got[1]
<1>1. /\ request[r].at = "commit" /\ UNCHANGED <<built, handles, reloadMu, subs>>
         /\ request' = [request EXCEPT ![r] = q]
      /\ appOwner' = [of |-> new, config |-> IF request[r].op = "reloadCurrent" THEN request[r].prev.config ELSE r]
  BY DEF Core!ReloadCommit, Core!At
<1>2. /\ request[r].old = {} /\ Len(request[r].got) = 1 /\ request[r] \in CoreRequestType /\ reloadMu = r
         /\ appOwner \in OwnerType
      /\ subs \in Seq(Nat \X Core!Owners) /\ request[r].prev = appOwner /\ request[r].got \in Seq(Nat) /\ r \in Nat
      /\ StagesInv /\ HoldersInv /\ request \in Seq(CoreRequestType)
  BY <1>1, RequestFacts DEF StageOf, Reloading
<1>3. new \in Nat /\ DOMAIN request[r].got = {1} /\ old = {appOwner.of} /\ appOwner.of \in Nat
  BY <1>2 DEF OwnerType
<1> HIDE DEF old, new
<1>0. nothing \in Seq(Nat)
  OBVIOUS
<1>a. nothing = <<>>
  OBVIOUS
<1> HIDE DEF nothing
<1>b. /\ q \in CoreRequestType /\ q.got = nothing /\ q.old = old /\ q.at = "teardown" /\ q.prev = request[r].prev
  BY <1>0, <1>2, <1>3 DEF CoreRequestType, CoreStages, Reloading
<1>4. /\ q \in CoreRequestType /\ q.got = <<>> /\ q.old = old /\ q.at = "teardown" /\ q.prev = appOwner
  BY <1>2, <1>a, <1>b
<1>5. appOwner' \in OwnerType /\ appOwner'.of = new
  BY <1>1, <1>2, <1>3 DEF OwnerType
<1> HIDE DEF q
<1>6. StageOf(r, q, reloadMu', appOwner')
  BY <1>1, <1>2, <1>3, <1>4 DEF StageOf, Reloading
<1>7. StagesInv'
  <2> HIDE DEF CoreRequestType
  <2>1. QED
    BY <1>1, <1>2, <1>4, <1>5, <1>6, StageTaken
<1>8. Core!Held(r) = {new} /\ HeldOf(q) = {appOwner.of}
  BY <1>2, <1>3, <1>4 DEF Core!Held, HeldOf, new
<1>9. /\ Core!Held(r) \subseteq Open \ ({appOwner.of} \cup Core!Loaded) /\ HandlesApart(handles, appOwner)
      /\ built \in Seq({0, 1})
  BY <1>2 DEF HoldersInv
<1>10. Open' = Open /\ Core!Loaded' = Core!Loaded /\ built' = built /\ handles' = handles
  BY <1>1 DEF Open, Core!Loaded
<1>11. new \notin Core!Loaded /\ new # appOwner.of /\ appOwner.of \notin Core!Loaded /\ new \in Open
       /\ Open \subseteq Nat \ {0}
  BY <1>2, <1>8, <1>9, OpenNat DEF HandlesApart, Core!Loaded
<1>12. HandlesApart(handles', appOwner')
  BY <1>5, <1>9, <1>10, <1>11 DEF HandlesApart, Core!Loaded
<1> DEFINE none == {}
<1>13. /\ Open' = (Open \cup none) \ none /\ none \cap Open = {} /\ none \subseteq Core!Held(r)
       /\ HeldOf(q) \cup {appOwner'.of} \cup Core!Loaded' = (Core!Held(r) \cup {appOwner.of} \cup Core!Loaded
          \cup none) \ none
       /\ HeldOf(q) \cap ({appOwner'.of} \cup Core!Loaded') = {}
       /\ built' \in Seq({0, 1})
  BY <1>5, <1>8, <1>9, <1>10, <1>11
<1> HIDE DEF none
<1>14. HoldersInv'
  <2> HIDE DEF CoreRequestType
  <2>1. QED
    BY <1>1, <1>2, <1>4, <1>12, <1>13, HoldersTaken
<1>15. QED
  BY <1>7, <1>14 DEF OwnersInv

LEMMA ReloadTeardownStep ==
    ASSUME OwnersInv, NEW r \in Core!Requests, Core!ReloadTeardown(r)
    PROVE  OwnersInv'
<1> DEFINE q == [request[r] EXCEPT !.at = "unlock", !.old = {}]
           h == request[r].prev.of
<1>1. /\ request[r].at = "teardown" /\ UNCHANGED <<handles, Core!reload, subs>>
         /\ request' = [request EXCEPT ![r] = q]
      /\ Core!Closed(h)
  BY DEF Core!ReloadTeardown, Core!At
<1>2. request[r].old = {h} /\ request[r].got = <<>> /\ request[r] \in CoreRequestType /\ reloadMu = r
  BY <1>1, RequestFacts DEF StageOf, Reloading
<1>3. q \in CoreRequestType /\ q.got = <<>> /\ q.old = {} /\ q.at = "unlock"
  BY <1>2 DEF CoreRequestType, CoreStages, Reloading
<1> HIDE DEF q, h
<1>4. StageOf(r, q, reloadMu, appOwner)
  BY <1>2, <1>3 DEF StageOf, Reloading
<1>5. h \in Core!Held(r) /\ HeldOf(q) = Core!Held(r) \ {h}
  BY <1>2, <1>3 DEF Core!Held, HeldOf
<1>6. QED
  BY <1>1, <1>3, <1>4, <1>5, CloseStep

LEMMA WithoutTyped ==
    ASSUME NEW Item, NEW q \in Seq(Item), NEW c
    PROVE  Core!Without(q, c) \in Seq(Item)
<1> DEFINE T == Seq(Item)
           step == [n \in Nat |-> [t \in T |-> IF n \in 1 .. Len(q) THEN (IF q[n] \in c THEN t
           ELSE Append(t, q[n])) ELSE t]]
           kept == CHOOSE F : F = [n \in 0 .. Len(q) |-> IF n = 0 THEN <<>>
                                                         ELSE IF q[n] \in c THEN F[n - 1]
                                                         ELSE Append(F[n - 1], q[n])]
<1>1. Len(q) \in Nat /\ \A n \in 1 .. Len(q) : q[n] \in Item
  OBVIOUS
<1>2. step \in [Nat -> [T -> T]]
  <2>1. \A n \in Nat, t \in T : n \in 1 .. Len(q) => Append(t, q[n]) \in T
    BY <1>1
  <2> HIDE DEF T
  <2>2. QED
    BY <2>1
<1>3. PICK F : IsLoop(F, <<>>, step, Len(q)) /\ \A n \in 0 .. Len(q) : F[n] \in T
  <2>1. <<>> \in T
    OBVIOUS
  <2> HIDE DEF T, step
  <2>2. QED
    BY <1>1, <1>2, <2>1, LoopRuns
<1> DEFINE Round(G, n) == IF n = 0 THEN <<>>
                          ELSE IF q[n] \in c THEN G[n - 1] ELSE Append(G[n - 1], q[n])
<1>4. F = [n \in 0 .. Len(q) |-> Round(F, n)]
  <2>1. F[0] = <<>>
    BY <1>3, Zenon DEF IsLoop
  <2>2. ASSUME NEW n \in 0 .. Len(q), n # 0 PROVE F[n] = Round(F, n)
    <3>1. n \in 1 .. Len(q) /\ n - 1 \in 0 .. Len(q) /\ n \in Nat
      BY <1>1, <2>2
    <3>2. F[n] = step[n][F[n - 1]] /\ F[n - 1] \in T
      BY <1>3, <3>1, Zenon DEF IsLoop
    <3> HIDE DEF T
    <3>3. QED
      BY <2>2, <3>1, <3>2
  <2>3. F = [n \in 0 .. Len(q) |-> F[n]]
    BY <1>3, Zenon DEF IsLoop
  <2>4. \A n \in 0 .. Len(q) : F[n] = Round(F, n)
    BY <2>1, <2>2
  <2> HIDE DEF Round
  <2>5. [n \in 0 .. Len(q) |-> F[n]] = [n \in 0 .. Len(q) |-> Round(F, n)]
    BY <2>4, Zenon
  <2>6. QED
    BY <2>3, <2>5, Zenon
<1>5. kept = [n \in 0 .. Len(q) |-> Round(kept, n)]
  BY <1>4, Zenon
<1>6. Core!Without(q, c) = kept[Len(q)]
  BY DEF Core!Without
<1> HIDE DEF kept, step
<1> DEFINE A == {n \in Nat : n <= Len(q) => kept[n] \in T}
<1>7. A = Nat
  <2>1. 0 \in A
    <3>1. kept[0] = <<>>
      BY <1>1, <1>5
    <3>2. kept[0] \in T
      BY <3>1
    <3> HIDE DEF T
    <3>3. QED
      BY <3>2
  <2>2. ASSUME NEW n \in A PROVE n + 1 \in A
    <3>1. n \in Nat
      OBVIOUS
    <3>2. CASE n + 1 <= Len(q)
      <4>1. n + 1 \in 1 .. Len(q) /\ n + 1 \in 0 .. Len(q) /\ n + 1 # 0 /\ (n + 1) - 1 = n /\ kept[n] \in T
        BY <1>1, <3>1, <3>2
      <4>2. kept[n + 1] = Round(kept, n + 1)
        <5> HIDE DEF Round
        <5>1. QED
          BY <1>5, <4>1
      <4>3. kept[n + 1] = kept[n] \/ kept[n + 1] = Append(kept[n], q[n + 1])
        BY <4>1, <4>2
      <4>4. kept[n + 1] \in T
        <5>1. q[n + 1] \in Item
          BY <1>1, <4>1
        <5>2. Append(kept[n], q[n + 1]) \in T
          BY <4>1, <5>1, AppendOf
        <5>3. QED
          BY <4>1, <4>3, <5>2, Zenon
      <4> HIDE DEF T
      <4>5. QED
        BY <3>1, <4>4
    <3>3. CASE ~(n + 1 <= Len(q))
      BY <3>1, <3>3
    <3>4. QED
      BY <3>2, <3>3
  <2> HIDE DEF A
  <2>3. A \in SUBSET Nat
    BY DEF A
  <2>4. QED
    BY <2>1, <2>2, <2>3, SetInduction
<1>8. QED
  BY <1>1, <1>6, <1>7

(* The calls of the timers and of the bus hold no handle.                   *)
LEMMA BusStep ==
    ASSUME OwnersInv, NEW r \in Core!Requests, request[r].at \in CoreOps \cup {"deliver"},
           request[r].at \notin {"load", "rollback", "commit", "close", "teardown"},
           Core!Go(r, "done"), UNCHANGED <<built, handles, Core!reload>>, subs' \in Seq(Nat \X Core!Owners)
    PROVE  OwnersInv'
<1>1. request[r].old = {} /\ request[r].got = <<>>
  BY RequestFacts DEF StageOf
<1>2. QED
  BY <1>1, GoStep DEF Core!reload

LEMMA PublishStep ==
    ASSUME OwnersInv, NEW r \in Core!Requests, Core!Publish(r) \/ Core!Deliver(r)
    PROVE  OwnersInv'
<1>1. /\ request[r].at \in {"publish", "deliver"} /\ UNCHANGED <<built, handles, Core!reload, subs>>
      /\ \E c \in {subs, Tail(request[r].copy), <<>>}, a \in {"deliver", "done"} :
            /\ request' = [request EXCEPT ![r] = [request[r] EXCEPT !.at = a, !.copy = c]]
            /\ c = Tail(request[r].copy) => request[r].copy # <<>> \/ c = subs \/ c = <<>>
  <2>1. CASE Core!Publish(r)
    BY <2>1 DEF Core!Publish, Core!At
  <2>2. CASE Core!Deliver(r)
    <3>1. request[r].at = "deliver" /\ UNCHANGED <<built, handles, Core!reload, subs>>
      BY <2>2 DEF Core!Deliver, Core!At
    <3>2. CASE request[r].copy # <<>> /\ request' = [request EXCEPT ![r].copy = Tail(@)]
      <4> DEFINE c == Tail(request[r].copy)
      <4>1. request[r] \in CoreRequestType
        BY RequestFacts
      <4>2. [request[r] EXCEPT !.at = "deliver", !.copy = c] = [request[r] EXCEPT !.copy = c]
        BY <3>1, <4>1 DEF CoreRequestType
      <4>3. request' = [request EXCEPT ![r] = [request[r] EXCEPT !.at = "deliver", !.copy = c]]
        BY <3>2, <4>2
      <4> HIDE DEF c
      <4>4. QED
        BY <3>1, <3>2, <4>3 DEF c
    <3>3. CASE request' = [request EXCEPT ![r].at = "done", ![r].copy = <<>>]
      BY <3>1, <3>3
    <3>4. QED
      BY <2>2, <3>2, <3>3 DEF Core!Deliver
  <2>3. QED
    BY <2>1, <2>2
<1>2. PICK c \in {subs, Tail(request[r].copy), <<>>}, a \in {"deliver", "done"} :
         /\ request' = [request EXCEPT ![r] = [request[r] EXCEPT !.at = a, !.copy = c]]
         /\ c = Tail(request[r].copy) => request[r].copy # <<>> \/ c = subs \/ c = <<>>
  BY <1>1
<1> DEFINE q == [request[r] EXCEPT !.at = a, !.copy = c]
           Subs == Seq(Nat \X Core!Owners)
<1>3. request[r] \in CoreRequestType /\ request[r].copy \in Subs /\ subs \in Subs
  BY RequestFacts
<1>4. c \in Subs
  <2>1. CASE c = subs
    BY <1>3, <2>1
  <2>2. CASE c = <<>>
    BY <2>2
  <2>3. CASE c = Tail(request[r].copy) /\ request[r].copy # <<>>
    BY <1>3, <2>3, TailOf
  <2>4. QED
    BY <1>2, <2>1, <2>2, <2>3
<1>5. request[r].old = {} /\ request[r].got = <<>>
  BY <1>1, RequestFacts DEF StageOf
<1>6. q \in CoreRequestType /\ q.got = request[r].got /\ q.old = request[r].old /\ q.at = a
  <2> HIDE DEF Subs
  <2>1. q \in [op : CoreOps, at : CoreOps
        \cup CoreStages, got : Seq(Nat), old : SUBSET Nat, prev : OwnerType, copy : Subs]
        /\ q.got = request[r].got /\ q.old = request[r].old /\ q.at = a
    <3>1. request[r] \in [op : CoreOps, at : CoreOps
          \cup CoreStages, got : Seq(Nat), old : SUBSET Nat, prev : OwnerType, copy : Subs]
      BY <1>3 DEF CoreRequestType, Subs
    <3>2. a \in CoreOps \cup CoreStages
      BY DEF CoreStages
    <3>3. QED
      BY <1>4, <3>1, <3>2
  <2>2. QED
    BY <2>1 DEF CoreRequestType, Subs
<1> HIDE DEF q
<1>7. StageOf(r, q, reloadMu', appOwner)
  BY <1>5, <1>6 DEF StageOf, Reloading
<1>8. request' = [request EXCEPT ![r] = q]
  BY <1>2 DEF q
<1>9. QED
  BY <1>1, <1>3, <1>6, <1>7, <1>8, QuietStep DEF Core!reload

LEMMA SameStep ==
    ASSUME OwnersInv, request' = request, built' = built, handles' = handles, Core!reload' = Core!reload,
           subs' = subs
    PROVE  OwnersInv'
<1>1. StagesInv'
  BY DEF OwnersInv, StagesInv, Core!Requests, Core!reload
<1>2. /\ Open' = Open /\ Core!Loaded' = Core!Loaded /\ Core!Requests' = Core!Requests /\ appOwner' = appOwner
         /\ handles' = handles
      /\ built' = built /\ \A r \in Core!Requests : Core!Held(r)' = Core!Held(r)
  BY DEF Core!Requests, Core!Held, Open, Core!Loaded, Core!reload
<1> HIDE DEF Open, Core!Loaded, Core!Requests, Core!Held
<1>3. HoldersInv'
  BY <1>2 DEF OwnersInv, HoldersInv
<1>4. QED
  BY <1>1, <1>3 DEF OwnersInv

LEMMA ArriveStep ==
    ASSUME OwnersInv, NEW op \in CoreOps, Core!Arrive(op)
    PROVE  OwnersInv'
<1> DEFINE at == CASE op = "load" -> "load" [] op = "unload" -> "take"
                   [] op \in {"reload", "reloadCurrent"} -> "lock" [] OTHER -> op
           q == [op |-> op, got |-> <<>>, old |-> {}, prev |-> Core!NoOwner, copy |-> <<>>, at |-> at]
<1>n. PICK n : n = Len(request) + 1
  OBVIOUS
<1>1. request' = Append(request, q) /\ UNCHANGED <<built, handles, Core!reload, subs>>
  BY DEF Core!Arrive
<1>2. /\ at \in CoreOps \cup CoreStages
      /\ at \notin Reloading \cup {"rollback", "close"}
  BY CoreAssumption DEF CoreStages, Reloading
<1> HIDE DEF at
<1>3. q \in CoreRequestType /\ q.got = <<>> /\ q.old = {} /\ q.at = at
  BY <1>2 DEF CoreRequestType, Core!NoOwner, OwnerType
<1> HIDE DEF q
<1>4. StagesInv /\ HoldersInv /\ request \in Seq(CoreRequestType)
  BY DEF OwnersInv, StagesInv
<1>5. /\ request' \in Seq(CoreRequestType) /\ Core!Requests' = Core!Requests \cup {n} /\ request'[n] = q
         /\ n \notin Core!Requests
      /\ \A r \in Core!Requests : request'[r] = request[r]
  <2> HIDE DEF CoreRequestType
  <2>1. /\ Append(request, q) \in Seq(CoreRequestType) /\ Len(request) \in Nat
        /\ DOMAIN request = 1 .. Len(request) /\ DOMAIN Append(request, q) = 1 .. Len(request) + 1
        /\ \A i \in 1 .. Len(request) : Append(request, q)[i] = request[i]
        /\ Append(request, q)[Len(request) + 1] = q
    BY <1>3, <1>4, AppendOf
  <2>2. QED
    BY <1>1, <1>n, <2>1 DEF Core!Requests
<1> HIDE DEF CoreRequestType
<1>6. StageOf(n, q, reloadMu, appOwner)
  BY <1>2, <1>3 DEF StageOf, Reloading
<1>a. /\ reloadMu' = reloadMu /\ appOwner' = appOwner /\ subs' = subs /\ appOwner \in OwnerType
      /\ subs \in Seq(Nat \X Core!Owners) /\ \A r \in Core!Requests : StageOf(r, request[r], reloadMu, appOwner)
  BY <1>1, <1>4 DEF StagesInv, Core!reload
<1>b. \A r \in Core!Requests' : StageOf(r, request'[r], reloadMu', appOwner')
  BY <1>5, <1>6, <1>a
<1>7. StagesInv'
  BY <1>5, <1>a, <1>b DEF StagesInv
<1>8. Core!Held(n)' = {} /\ \A r \in Core!Requests : Core!Held(r)' = Core!Held(r)
  BY <1>3, <1>5 DEF Core!Held
<1>9. Open' = Open /\ Core!Loaded' = Core!Loaded /\ appOwner' = appOwner /\ handles' = handles /\ built' = built
  BY <1>1 DEF Open, Core!Loaded, Core!reload
<1> HIDE DEF Core!Held, Open, Core!Loaded
<1> DEFINE new == Core!Requests \cup {n}
<1>c. Core!Requests' = new /\ (\A r \in Core!Requests : r \in new) /\ \A r \in new : r \in Core!Requests \/ r = n
  BY <1>5
<1> HIDE DEF new
<1>10. /\ \A r \in new : Core!Held(r)' \subseteq Open \ ({appOwner.of} \cup Core!Loaded)
       /\ \A h \in Open : h = appOwner.of \/ h \in Core!Loaded \/ \E r \in new : h \in Core!Held(r)'
  BY <1>4, <1>8, <1>c DEF HoldersInv
<1>d. ASSUME NEW r \in new, NEW s \in new, r # s PROVE Core!Held(r)' \cap Core!Held(s)' = {}
  <2>1. CASE r = n \/ s = n
    BY <1>8, <2>1
  <2>2. CASE r \in Core!Requests /\ s \in Core!Requests
    BY <1>4, <1>8, <1>d, <2>2 DEF HoldersInv
  <2>3. QED
    BY <1>c, <2>1, <2>2
<1>11. HoldersInv'
  <2>1. /\ built' \in Seq({0, 1}) /\ HandlesApart(handles', appOwner') /\ appOwner'.of \in Open'
           /\ Core!Loaded' \subseteq Open'
    BY <1>4, <1>9 DEF HoldersInv
  <2>2. QED
    BY <1>9, <1>c, <1>10, <1>d, <2>1 DEF HoldersInv
<1>12. QED
  BY <1>7, <1>11 DEF OwnersInv

LEMMA OwnersInductive ==
    ASSUME OwnersInv, [Core!Next]_Core!vars
    PROVE  OwnersInv'
<1>1. ASSUME NEW op \in CoreOps, Core!Arrive(op) PROVE OwnersInv'
  BY <1>1, ArriveStep
<1>2. ASSUME NEW r \in Core!Requests, Core!LoadPlugin(r) \/ Core!Rollback(r) \/ Core!InstallHandles(r)
             \/ Core!TakeHandles(r) \/ Core!CloseOld(r)
      PROVE  OwnersInv'
  BY <1>2, LoadPluginStep, RollbackStep, InstallStep, TakeStep, CloseOldStep
<1>3. ASSUME NEW r \in Core!Requests, Core!ReloadLock(r) PROVE OwnersInv'
  <2>1. /\ request[r].at = "lock" /\ Core!Go(r, "snapshot") /\ reloadMu = 0 /\ reloadMu' = r
        /\ UNCHANGED <<built, handles, appOwner, subs>>
    BY <1>3 DEF Core!ReloadLock, Core!At
  <2>2. request[r].old = {} /\ request[r].got = <<>> /\ subs \in Seq(Nat \X Core!Owners)
    BY <2>1, RequestFacts DEF StageOf
  <2>3. QED
    BY <2>1, <2>2, GoStep
<1>4. ASSUME NEW r \in Core!Requests, Core!ReloadSnapshot(r) \/ Core!ReloadBuild(r) \/ Core!ReloadCommit(r)
             \/ Core!ReloadTeardown(r)
      PROVE  OwnersInv'
  BY <1>4, ReloadSnapshotStep, ReloadBuildStep, ReloadCommitStep, ReloadTeardownStep
<1>5. ASSUME NEW r \in Core!Requests, Core!ReloadUnlock(r) PROVE OwnersInv'
  <2>1. /\ request[r].at = "unlock" /\ Core!Go(r, "done") /\ reloadMu' = 0 /\ UNCHANGED <<built, handles, appOwner,
           subs>>
    BY <1>5 DEF Core!ReloadUnlock, Core!At
  <2>2. request[r].old = {} /\ request[r].got = <<>> /\ subs \in Seq(Nat \X Core!Owners) /\ reloadMu = r
    BY <2>1, RequestFacts DEF StageOf, Reloading
  <2>3. QED
    BY <2>1, <2>2, GoStep
<1>6. ASSUME NEW r \in Core!Requests,
             \/ \E o \in Core!Owners : Core!After(r, o) \/ Core!CancelOwner(r, o) \/ Core!Subscribe(r, o)
                \/ Core!Unsubscribe(r, o)
             \/ \E t \in DOMAIN timer : Core!Cancel(r, t)
             \/ \E expired \in SUBSET DOMAIN timer : Core!Tick(r, expired)
             \/ \E i \in Core!Requests : Core!RemoveSub(r, i)
      PROVE  OwnersInv'
  <2>1. /\ request[r].at \in {"after", "cancelOwner", "subscribe", "unsubscribe", "cancel", "tick", "remove"}
        /\ Core!Go(r, "done") /\ UNCHANGED <<built, handles, Core!reload>>
    BY <1>6 DEF Core!After, Core!CancelOwner, Core!Subscribe, Core!Unsubscribe, Core!Cancel, Core!Tick,
       Core!RemoveSub, Core!At
  <2>2. subs' \in Seq(Nat \X Core!Owners)
    <3>1. subs \in Seq(Nat \X Core!Owners) /\ r \in Nat
      BY RequestFacts
    <3>2. ASSUME NEW o \in Core!Owners, Core!Subscribe(r, o) PROVE subs' \in Seq(Nat \X Core!Owners)
      <4>1. subs' = Append(subs, <<r, o>>) /\ <<r, o>> \in Nat \X Core!Owners
        BY <3>1, <3>2 DEF Core!Subscribe
      <4>2. QED
        BY <3>1, <4>1, AppendOf
    <3>3. ASSUME NEW o \in Core!Owners, Core!Unsubscribe(r, o) PROVE subs' \in Seq(Nat \X Core!Owners)
      BY <3>1, <3>3, WithoutTyped DEF Core!Unsubscribe
    <3>4. ASSUME NEW i \in Core!Requests, Core!RemoveSub(r, i) PROVE subs' \in Seq(Nat \X Core!Owners)
      BY <3>1, <3>4, WithoutTyped DEF Core!RemoveSub
    <3>5. QED
      BY <1>6, <3>1, <3>2, <3>3, <3>4 DEF Core!After, Core!CancelOwner, Core!Cancel, Core!Tick
  <2>3. request[r].at \in CoreOps \cup {"deliver"}
    BY <2>1, RequestFacts DEF CoreRequestType, CoreStages, Reloading
  <2>4. QED
    BY <2>1, <2>2, <2>3, BusStep
<1>7. ASSUME NEW r \in Core!Requests, Core!Publish(r) \/ Core!Deliver(r) PROVE OwnersInv'
  BY <1>7, PublishStep
<1>8. ASSUME NEW t \in DOMAIN timer, Core!Due(t) \/ Core!EndWait(t) \/ Core!Fire(t) PROVE OwnersInv'
  <2>1. request' = request /\ built' = built /\ handles' = handles /\ Core!reload' = Core!reload /\ subs' = subs
    BY <1>8 DEF Core!Due, Core!EndWait, Core!Fire
  <2>2. QED
    BY <2>1, SameStep
<1>9. CASE UNCHANGED Core!vars
  BY <1>9, SameStep DEF Core!vars, Core!reload
<1>10. QED
  BY <1>1, <1>2, <1>3, <1>4, <1>5, <1>6, <1>7, <1>8, <1>9 DEF Core!Next

LEMMA OwnersInitially == ASSUME Core!Init PROVE OwnersInv
<1>1. /\ request = <<>> /\ Core!Requests = {} /\ subs \in Seq(Nat \X Core!Owners) /\ appOwner \in OwnerType
         /\ appOwner.of = 1
      /\ request \in Seq(CoreRequestType)
  <2> HIDE DEF CoreRequestType
  <2>1. QED
    BY DEF Core!Init, Core!Requests, OwnerType
<1>2. built \in Seq({0, 1}) /\ Open = {1}
  BY DEF Core!Init, Open
<1>3. Core!Loaded = {} /\ HandlesApart(handles, appOwner)
  BY <1>1 DEF Core!Init, Core!Loaded, HandlesApart
<1>4. QED
  BY <1>1, <1>2, <1>3 DEF OwnersInv, StagesInv, HoldersInv

(* Timers.                                                                  *)
TimerType ==
    [owner : Core!Owners, pending : BOOLEAN, chan : {"open", "closed"}, at : {"wait", "due", "ended", "fired"},
     cancelled : BOOLEAN]

(* A timer is pending, due, cancelled or fired, and cancelled only before   *)
(* it has fired.                                                            *)
TimersInv ==
    /\ timer \in Seq(TimerType)
    /\ \A t \in DOMAIN timer : /\ timer[t].cancelled => ~timer[t].pending /\ timer[t].at # "fired"
                               /\ timer[t].at = "fired" => ~timer[t].pending

LEMMA TimerTaken ==
    ASSUME TimersInv, NEW t \in DOMAIN timer, NEW x \in TimerType, timer' = [timer EXCEPT ![t] = x],
           x.cancelled => ~x.pending /\ x.at # "fired", x.at = "fired" => ~x.pending
    PROVE  TimersInv'
<1> HIDE DEF TimerType
<1>1. timer \in Seq(TimerType)
  BY DEF TimersInv
<1>2. /\ timer' \in Seq(TimerType) /\ DOMAIN timer' = DOMAIN timer /\ timer'[t] = x
      /\ \A s \in DOMAIN timer : s # t => timer'[s] = timer[s]
  BY <1>1
<1>3. QED
  BY <1>2 DEF TimersInv

LEMMA TimersInductive ==
    ASSUME TimersInv, [Core!Next]_Core!vars
    PROVE  TimersInv'
<1>1. /\ timer \in Seq(TimerType) /\ Len(timer) \in Nat /\ DOMAIN timer = 1 .. Len(timer)
      /\ \A t \in DOMAIN timer : timer[t] \in TimerType
  <2> HIDE DEF TimerType
  <2>1. QED
    BY DEF TimersInv
<1>2. ASSUME NEW r \in Core!Requests, NEW o \in Core!Owners, Core!After(r, o) PROVE TimersInv'
  <2> DEFINE x == [owner |-> o, pending |-> TRUE, chan |-> "open", at |-> "wait", cancelled |-> FALSE]
  <2>1. timer' = Append(timer, x)
    BY <1>2 DEF Core!After
  <2>2. x \in TimerType /\ ~x.cancelled /\ x.at = "wait"
    BY DEF TimerType
  <2> HIDE DEF x, TimerType
  <2>3. /\ Append(timer, x) \in Seq(TimerType) /\ DOMAIN Append(timer, x) = 1 .. Len(timer) + 1
        /\ \A i \in 1 .. Len(timer) : Append(timer, x)[i] = timer[i]
        /\ Append(timer, x)[Len(timer) + 1] = x
    BY <1>1, <2>2, AppendOf
  <2>4. ASSUME NEW t \in DOMAIN timer'
        PROVE  /\ timer'[t].cancelled => ~timer'[t].pending /\ timer'[t].at # "fired"
               /\ timer'[t].at = "fired" => ~timer'[t].pending
    <3>1. CASE t = Len(timer) + 1
      BY <2>1, <2>2, <2>3, <3>1
    <3>2. CASE t \in DOMAIN timer
      BY <1>1, <2>1, <2>3, <3>2 DEF TimersInv
    <3>3. QED
      BY <1>1, <2>1, <2>3, <3>1, <3>2
  <2>5. QED
    BY <2>1, <2>3, <2>4 DEF TimersInv
<1>3. ASSUME NEW t \in DOMAIN timer, Core!Due(t) \/ Core!EndWait(t) PROVE TimersInv'
  <2>1. PICK a \in {"due", "ended"} : timer' = [timer EXCEPT ![t].at = a] /\ timer[t].at = "wait"
    BY <1>3 DEF Core!Due, Core!EndWait
  <2> DEFINE x == [timer[t] EXCEPT !.at = a]
  <2>2. /\ x \in TimerType /\ x.at = a /\ x.cancelled = timer[t].cancelled /\ x.pending = timer[t].pending
    BY <1>1 DEF TimerType
  <2>3. timer' = [timer EXCEPT ![t] = x] /\ (timer[t].cancelled => ~timer[t].pending)
    BY <2>1 DEF TimersInv
  <2> HIDE DEF x
  <2>4. QED
    BY <2>2, <2>3, TimerTaken
<1>4. ASSUME NEW t \in DOMAIN timer, Core!Fire(t) PROVE TimersInv'
  <2> DEFINE a == IF timer[t].pending THEN "fired" ELSE "ended"
             x == [timer[t] EXCEPT !.at = a, !.pending = FALSE]
  <2>1. timer' = [timer EXCEPT ![t] = x]
    BY <1>4 DEF Core!Fire
  <2>2. x \in TimerType /\ x.at = a /\ x.cancelled = timer[t].cancelled /\ ~x.pending
    BY <1>1 DEF TimerType
  <2>3. timer[t].cancelled => a = "ended"
    BY DEF TimersInv
  <2> HIDE DEF x, a
  <2>4. x.cancelled => ~x.pending /\ x.at # "fired"
    BY <2>2, <2>3
  <2>5. QED
    BY <2>1, <2>2, <2>4, TimerTaken
<1>5. ASSUME NEW set, Core!Cancelled(set) PROVE TimersInv'
  <2> DEFINE off(t) == [timer[t] EXCEPT !.pending = FALSE, !.chan = "closed", !.cancelled = TRUE]
  <2>1. \A t \in DOMAIN timer : timer[t].pending => timer[t].at # "fired"
    BY DEF TimersInv
  <2>2. ASSUME NEW t \in DOMAIN timer
        PROVE  off(t) \in TimerType /\ off(t).at = timer[t].at /\ ~off(t).pending
    BY <1>1 DEF TimerType
  <2>3. timer' = [t \in 1 .. Len(timer) |-> IF t \in set /\ timer[t].pending THEN off(t) ELSE timer[t]]
    BY <1>1, <1>5 DEF Core!Cancelled
  <2> HIDE DEF off, TimerType
  <2>4. timer' \in [1 .. Len(timer) -> TimerType]
    BY <1>1, <2>2, <2>3
  <2>5. timer' \in Seq(TimerType) /\ DOMAIN timer' = 1 .. Len(timer)
    BY <1>1, <2>4
  <2>6. \A t \in DOMAIN timer' : /\ timer'[t].cancelled => ~timer'[t].pending /\ timer'[t].at # "fired"
                                 /\ timer'[t].at = "fired" => ~timer'[t].pending
    BY <1>1, <2>1, <2>2, <2>3, <2>5 DEF TimersInv
  <2>7. QED
    BY <2>5, <2>6 DEF TimersInv
<1>6. ASSUME NEW r \in Core!Requests,
             \/ \E o \in Core!Owners : Core!CancelOwner(r, o)
             \/ \E t \in DOMAIN timer : Core!Cancel(r, t)
             \/ \E expired \in SUBSET DOMAIN timer : Core!Tick(r, expired)
      PROVE  TimersInv'
  BY <1>5, <1>6 DEF Core!CancelOwner, Core!Cancel, Core!Tick
<1>7. ASSUME NEW op \in CoreOps, Core!Arrive(op) PROVE timer' = timer
  BY <1>7 DEF Core!Arrive
<1>8. ASSUME NEW r \in Core!Requests,
             \/ Core!LoadPlugin(r) \/ Core!Rollback(r) \/ Core!InstallHandles(r) \/ Core!TakeHandles(r)
                \/ Core!CloseOld(r)
             \/ Core!ReloadLock(r) \/ Core!ReloadSnapshot(r) \/ Core!ReloadBuild(r) \/ Core!ReloadCommit(r)
             \/ Core!ReloadTeardown(r) \/ Core!ReloadUnlock(r)
             \/ Core!Publish(r) \/ Core!Deliver(r)
      PROVE  timer' = timer
  BY <1>8 DEF Core!LoadPlugin, Core!Rollback, Core!InstallHandles, Core!TakeHandles, Core!CloseOld,
     Core!ReloadLock, Core!ReloadSnapshot,
      Core!ReloadBuild, Core!ReloadCommit, Core!ReloadTeardown, Core!ReloadUnlock, Core!Publish, Core!Deliver
<1>9. ASSUME NEW r \in Core!Requests,
             \/ \E o \in Core!Owners : Core!Subscribe(r, o) \/ Core!Unsubscribe(r, o)
             \/ \E i \in Core!Requests : Core!RemoveSub(r, i)
      PROVE  timer' = timer
  BY <1>9 DEF Core!Subscribe, Core!Unsubscribe, Core!RemoveSub
<1>10. timer' = timer => TimersInv'
  BY DEF TimersInv
<1>11. UNCHANGED Core!vars => timer' = timer
  BY DEF Core!vars
<1>12. QED
  BY <1>2, <1>3, <1>4, <1>6, <1>7, <1>8, <1>9, <1>10, <1>11 DEF Core!Next

(* Handles and owners are closed once and never leaked or used closed       *)
(* (Registry.LoadContext, Unload, ReloadManager), and a timer cancelled     *)
(* before its callback began never fires, for any number of calls.          *)
THEOREM CoreSettles == Core!Spec => []CoreSettled
<1>1. Core!Init => OwnersInv /\ TimersInv
  <2>1. Core!Init => TimersInv
    BY DEF Core!Init, TimersInv
  <2>2. QED
    BY <2>1, OwnersInitially
<1>2. OwnersInv /\ TimersInv /\ [Core!Next]_Core!vars => (OwnersInv /\ TimersInv)'
  BY OwnersInductive, TimersInductive
<1>3. OwnersInv => Core!OwnersSettled
  <2> SUFFICES ASSUME OwnersInv PROVE Core!OwnersSettled
    OBVIOUS
  <2>1. HoldersInv
    BY DEF OwnersInv
  <2>2. \A h \in DOMAIN built : built[h] \in {0, 1}
    BY <2>1 DEF HoldersInv
  <2>3. built[appOwner.of] = 0
    BY <2>1 DEF HoldersInv, Open
  <2>4. \A p \in 1 .. Plugins : handles[p] # 0 => handles[p] \in Open
    BY <2>1 DEF HoldersInv, Core!Loaded
  <2>5. \A h \in Open : h \in Core!Reachable
    BY <2>1 DEF HoldersInv, Core!Loaded, Core!Reachable
  <2>6. QED
    BY <2>2, <2>3, <2>4, <2>5 DEF Core!OwnersSettled, Open
<1>4. TimersInv => Core!CancelledNeverFires
  BY DEF TimersInv, Core!CancelledNeverFires
<1>5. QED
  BY <1>1, <1>2, <1>3, <1>4, PTL DEF Core!Spec, CoreSettled

-----------------------------------------------------------------------------
(* Processes: jobs, shells, terminals.                                      *)

Statuses == {"running", "completed", "killed", "failed"}
JobType == [status : Statuses, proc : {"new", "running", "unstarted", "zero", "nonzero", "signalled"},
            done : BOOLEAN, killed : BOOLEAN]

(* Who kills a job records it before the process is signalled, so its       *)
(* waiter sees it.                                                          *)
JobsInv ==
    /\ job \in Seq(JobType)
    /\ \A j \in DOMAIN job :
         /\ job[j].done => Procs!Terminal(job[j].status) /\ job[j].proc \notin {"new", "running"}
         /\ j \in signalling /\ job[j].proc \in {"new", "running"} => job[j].status = "killed"
         /\ job[j].killed => job[j].proc = "signalled" /\ job[j].status = "killed"
         /\ job[j].status = "completed" => job[j].done /\ job[j].proc \in {"zero", "nonzero"}
    /\ signalling \subseteq DOMAIN job

Item == [call : Nat, mark : BOOLEAN]
ShellType == [alive : BOOLEAN, in : Seq(Item), out : Seq(Item)]
CallType == [shell : Nat, at : {"run", "done", "cancelled", "failed"}, reading : BOOLEAN, got : SUBSET Nat]

(* A marker is the last thing a shell was written. *)
MarkLast(s) == /\ \A i \in DOMAIN s.out : s.out[i].mark => i = Len(s.out) /\ s.in = <<>>
               /\ \A i \in DOMAIN s.in : s.in[i].mark => i = Len(s.in)

(* What is written to or read from a shell that someone reads is that       *)
(* call's own; a shell that is free for the next call has nothing left to   *)
(* read.                                                                    *)
ShellsInv ==
    /\ shell \in Seq(ShellType) /\ entry \in 0 .. Len(shell)
    /\ bash \in Seq(CallType) /\ \A c \in DOMAIN bash : bash[c].shell \in DOMAIN shell /\ bash[c].got \subseteq {c}
    /\ \A g \in DOMAIN shell : MarkLast(shell[g])
    /\ \A c \in DOMAIN bash : bash[c].reading =>
         /\ \A i \in DOMAIN shell[bash[c].shell].out : shell[bash[c].shell].out[i].call = c
         /\ \A i \in DOMAIN shell[bash[c].shell].in : shell[bash[c].shell].in[i].call = c
    /\ entry # 0 /\ shell[entry].alive =>
         \/ shell[entry].in = <<>> /\ shell[entry].out = <<>>
         \/ \E c \in DOMAIN bash : bash[c].shell = entry /\ bash[c].reading
    /\ \A c \in DOMAIN bash : bash[c].reading /\ bash[c].shell = entry /\ shell[entry].alive => bash[c].at = "run"

Line == [call : Nat, mark : BOOLEAN, glued : BOOLEAN]
TermType == [alive : BOOLEAN, stdin : BOOLEAN, closed : BOOLEAN, listed : BOOLEAN, in : Seq(Line), out : Seq(Line),
             lines : Seq(Line), waiters : SUBSET Nat]
SendType == [at : {"text", "register", "mark", "wait", "done", "failed", "cancelled"}, before : Nat, woken : BOOLEAN,
             out : SUBSET Nat]
LastIs(q, c) == q # <<>> /\ q[Len(q)].mark /\ q[Len(q)].call = c

(* The marker of call c is on its way through the process, or glued to the  *)
(* last line.                                                               *)
Comes(t, c) == t.alive =>
    \/ LastIs(t.in, c)
    \/ t.in = <<>> /\ LastIs(t.out, c)
    \/ t.in = <<>> /\ t.out = <<>> /\ t.lines # <<>> /\ t.lines[Len(t.lines)].glued

(* Only the last call of the terminal is in progress; it is registered      *)
(* before its marker is written, and its marker comes.                      *)
TerminalsInv ==
    /\ term \in TermType
    /\ send \in Seq(SendType)
    /\ \A c \in DOMAIN send : c # Len(send) => send[c].at \in {"done", "failed", "cancelled"}
    /\ term.closed => ~term.stdin
    /\ \A c \in DOMAIN send : send[c].at \in {"mark", "wait"} /\ ~send[c].woken => c \in term.waiters
    /\ \A c \in DOMAIN send : send[c].at = "wait" /\ ~send[c].woken => ~term.closed /\ Comes(term, c)
ProcessesInv == JobsInv /\ ShellsInv /\ TerminalsInv

(* One job of the registry moves: it alone, or a new one.                   *)
JobTrue(e, marked) ==
    /\ e.done => Procs!Terminal(e.status) /\ e.proc \notin {"new", "running"}
    /\ marked /\ e.proc \in {"new", "running"} => e.status = "killed"
    /\ e.killed => e.proc = "signalled" /\ e.status = "killed"
    /\ e.status = "completed" => e.done /\ e.proc \in {"zero", "nonzero"}

LEMMA JobStep ==
    ASSUME JobsInv, NEW j \in Procs!Jobs,
           \/ Procs!StartProcess(j) \/ Procs!Reap(j) \/ Procs!Kill(j) \/ Procs!KillTree(j)
           \/ \E how \in {"zero", "nonzero", "signalled"} : Procs!ProcessEnds(j, how)
    PROVE  JobsInv' /\ UNCHANGED <<Procs!shells, Procs!terminals>>
<1>1. job \in Seq(JobType) /\ DOMAIN job = 1 .. Len(job) /\ Len(job) \in Nat /\ j \in DOMAIN job
      /\ job[j] \in JobType
      /\ \A i \in DOMAIN job : JobTrue(job[i], i \in signalling)
  BY DEF JobsInv, Procs!Jobs, JobTrue
<1>2. UNCHANGED <<Procs!shells, Procs!terminals>>
  BY DEF Procs!StartProcess, Procs!Reap, Procs!Kill, Procs!KillTree, Procs!ProcessEnds
<1>3. PICK e \in JobType :
        /\ job' = [job EXCEPT ![j] = e]
        /\ signalling' \subseteq signalling \cup {j}
        /\ JobTrue(e, j \in signalling')
  <2>1. CASE Procs!StartProcess(j)
    <3>1. signalling' = signalling
      BY <2>1 DEF Procs!StartProcess
    <3>2. CASE job' = [job EXCEPT ![j].proc = "running"]
      <4> DEFINE e == [job[j] EXCEPT !.proc = "running"]
      <4>1. job' = [job EXCEPT ![j] = e] /\ e \in JobType
        BY <1>1, <3>2 DEF JobType
      <4>2. QED
        BY <1>1, <2>1, <3>1, <4>1 DEF JobType, JobTrue, Procs!StartProcess, Statuses, Procs!Terminal
    <3>3. CASE job' = [job EXCEPT ![j].proc = "unstarted", ![j].status = "failed", ![j].done = TRUE]
      <4> DEFINE e == [job[j] EXCEPT !.proc = "unstarted", !.status = "failed", !.done = TRUE]
      <4>1. job' = [job EXCEPT ![j] = e] /\ e \in JobType
        BY <1>1, <3>3 DEF JobType, Statuses
      <4>2. QED
        BY <1>1, <2>1, <3>1, <4>1 DEF JobType, JobTrue, Procs!StartProcess, Statuses, Procs!Terminal
    <3>4. QED
      BY <2>1, <3>2, <3>3 DEF Procs!StartProcess
  <2>2. CASE Procs!Reap(j)
    <3> DEFINE st == IF job[j].proc = "zero" THEN "completed"
                     ELSE IF job[j].status = "killed" THEN "killed"
                     ELSE IF job[j].proc = "nonzero" THEN "completed"
                     ELSE "failed"
               e == [job[j] EXCEPT !.done = TRUE, !.status = st]
    <3>1. st \in Statuses
      BY DEF Statuses
    <3>2. /\ job[j].proc \in {"zero", "nonzero", "signalled"} /\ signalling' = signalling
          /\ job[j].killed => job[j].proc = "signalled" /\ job[j].status = "killed"
          /\ Procs!Terminal(st) /\ (st = "completed" => job[j].proc \in {"zero", "nonzero"}
             \/ job[j].status = "completed")
          /\ job[j].killed => st = "killed"
      BY <1>1, <2>2 DEF JobTrue, Procs!Reap, Procs!Terminal
    <3>3. job' = [job EXCEPT ![j] = e]
      BY <1>1, <2>2 DEF Procs!Reap
    <3>4. st = "completed" => job[j].proc \in {"zero", "nonzero"}
      BY <1>1, <3>2
    <3> HIDE DEF st
    <3>5. e \in JobType /\ e.done /\ e.status = st /\ e.proc = job[j].proc /\ e.killed = job[j].killed
      BY <1>1, <3>1 DEF JobType
    <3>6. QED
      BY <3>2, <3>3, <3>4, <3>5 DEF JobTrue
  <2>3. CASE Procs!Kill(j)
    <3> DEFINE e == [job[j] EXCEPT !.status = "killed"]
    <3>1. job' = [job EXCEPT ![j] = e] /\ e \in JobType /\ signalling' = signalling \cup {j}
      BY <1>1, <2>3 DEF JobType, Statuses, Procs!Kill
    <3>2. QED
      BY <1>1, <2>3, <3>1 DEF JobType, JobTrue, Procs!Kill, Statuses, Procs!Terminal
  <2>4. CASE Procs!KillTree(j)
    <3>1. CASE job[j].proc = "running"
      <4> DEFINE e == [job[j] EXCEPT !.proc = "signalled", !.killed = TRUE]
      <4>1. job' = [job EXCEPT ![j] = e] /\ e \in JobType /\ signalling' = signalling \ {j}
        BY <1>1, <2>4, <3>1 DEF JobType, Statuses, Procs!KillTree
      <4>2. QED
        BY <1>1, <2>4, <3>1, <4>1 DEF JobType, JobTrue, Procs!KillTree, Statuses, Procs!Terminal
    <3>2. CASE job[j].proc # "running"
      <4>1. job' = [job EXCEPT ![j] = job[j]] /\ signalling' = signalling \ {j}
        BY <1>1, <2>4, <3>2 DEF Procs!KillTree
      <4>2. QED
        BY <1>1, <4>1 DEF JobTrue
    <3>3. QED
      BY <3>1, <3>2
  <2>5. ASSUME NEW how \in {"zero", "nonzero", "signalled"}, Procs!ProcessEnds(j, how)
        PROVE  \E e \in JobType : /\ job' = [job EXCEPT ![j] = e]
                                  /\ signalling' \subseteq signalling \cup {j}
                                  /\ JobTrue(e, j \in signalling')
    <3> DEFINE e == [job[j] EXCEPT !.proc = how]
    <3>1. job' = [job EXCEPT ![j] = e] /\ e \in JobType /\ signalling' = signalling
      BY <1>1, <2>5 DEF JobType, Procs!ProcessEnds
    <3>2. QED
      BY <1>1, <2>5, <3>1 DEF JobType, JobTrue, Procs!ProcessEnds, Statuses, Procs!Terminal
  <2>6. QED
    BY <2>1, <2>2, <2>3, <2>4, <2>5
<1>4. /\ job' \in Seq(JobType) /\ DOMAIN job' = DOMAIN job
      /\ job'[j] = e /\ \A i \in DOMAIN job : i # j => job'[i] = job[i]
  BY <1>1, <1>3
<1>5. signalling' \subseteq DOMAIN job'
  BY <1>1, <1>3, <1>4 DEF JobsInv
<1>6. \A i \in DOMAIN job' : JobTrue(job'[i], i \in signalling')
  BY <1>1, <1>3, <1>4 DEF JobTrue
<1>7. QED
  BY <1>2, <1>4, <1>5, <1>6 DEF JobsInv, JobTrue

LEMMA StartStep ==
    ASSUME JobsInv, Procs!StartJob
    PROVE  JobsInv' /\ UNCHANGED <<Procs!shells, Procs!terminals>>
<1> DEFINE e == [status |-> "running", proc |-> "new", done |-> FALSE, killed |-> FALSE]
<1>1. job' = Append(job, e) /\ e \in JobType /\ signalling' = signalling /\ Len(job) \in Nat
      /\ DOMAIN job = 1 .. Len(job)
  BY DEF JobsInv, Procs!StartJob, JobType, Statuses
<1>2. /\ job' \in Seq(JobType) /\ DOMAIN job' = DOMAIN job \cup {Len(job) + 1}
      /\ job'[Len(job) + 1] = e /\ \A i \in DOMAIN job : job'[i] = job[i]
      /\ Len(job) + 1 \notin signalling
  BY <1>1 DEF JobsInv
<1>3. \A i \in DOMAIN job' : JobTrue(job'[i], i \in signalling')
  BY <1>1, <1>2 DEF JobTrue, JobsInv
<1>4. QED
  BY <1>1, <1>2, <1>3 DEF JobsInv, JobTrue, Procs!StartJob

LEMMA ShellsTyped ==
    ASSUME ShellsInv
    PROVE  /\ Len(shell) \in Nat /\ DOMAIN shell = 1 .. Len(shell) /\ entry \in Nat
           /\ \A g \in DOMAIN shell : shell[g] \in ShellType /\ shell[g].in \in Seq(Item)
              /\ shell[g].out \in Seq(Item)
                                     /\ shell[g].alive \in BOOLEAN /\ MarkLast(shell[g])
           /\ Len(bash) \in Nat /\ DOMAIN bash = 1 .. Len(bash)
           /\ \A c \in DOMAIN bash : bash[c] \in CallType /\ c \in Nat /\ bash[c].shell \in DOMAIN shell
<1>1. /\ Len(shell) \in Nat /\ DOMAIN shell = 1 .. Len(shell) /\ entry \in Nat
      /\ \A g \in DOMAIN shell : shell[g] \in ShellType /\ MarkLast(shell[g])
  BY DEF ShellsInv
<1>2. /\ Len(bash) \in Nat /\ DOMAIN bash = 1 .. Len(bash)
      /\ \A c \in DOMAIN bash : bash[c] \in CallType /\ c \in Nat /\ bash[c].shell \in DOMAIN shell
  BY DEF ShellsInv
<1>3. QED
  BY <1>1, <1>2 DEF ShellType

LEMMA ShellRunStep ==
    ASSUME ShellsInv, Procs!ShellRun
    PROVE  ShellsInv'
<1> DEFINE c == Len(bash) + 1
           fresh == entry = 0
           g == IF fresh THEN Len(shell) + 1 ELSE entry
           new == [alive |-> TRUE, in |-> <<>>, out |-> <<>>]
           base == IF fresh THEN Append(shell, new) ELSE shell
           text == [call |-> c, mark |-> FALSE]
           mark == [call |-> c, mark |-> TRUE]
<1>1. /\ ~Procs!Running(bash) /\ entry' = g
      /\ \/ /\ base[g].alive
            /\ shell' = [base EXCEPT ![g].in = @ \o <<text, mark>>]
            /\ bash' = Append(bash, [shell |-> g, at |-> "run", reading |-> TRUE, got |-> {}])
         \/ /\ ~base[g].alive /\ shell' = base
            /\ bash' = Append(bash, [shell |-> g, at |-> "failed", reading |-> FALSE, got |-> {}])
  BY DEF Procs!ShellRun
<1>2. /\ Len(shell) \in Nat /\ DOMAIN shell = 1 .. Len(shell) /\ entry \in 0 .. Len(shell)
      /\ Len(bash) \in Nat /\ DOMAIN bash = 1 .. Len(bash) /\ c \in Nat /\ shell \in Seq(ShellType)
      /\ \A k \in DOMAIN shell : shell[k] \in ShellType /\ MarkLast(shell[k])
      /\ \A d \in DOMAIN bash : bash[d] \in CallType /\ bash[d].shell \in DOMAIN shell
  BY ShellsTyped DEF ShellsInv
<1>3. new \in ShellType /\ MarkLast(new) /\ new.in = <<>> /\ new.out = <<>> /\ new.alive
  <2> DEFINE e == <<>>
  <2>1. e \in Seq(Item) /\ DOMAIN e = {}
    OBVIOUS
  <2>2. new = [alive |-> TRUE, in |-> e, out |-> e] /\ e = <<>>
    OBVIOUS
  <2> HIDE DEF e
  <2>3. QED
    BY <2>1, <2>2 DEF ShellType, MarkLast
<1> HIDE DEF new
<1>4. /\ base \in Seq(ShellType) /\ g \in DOMAIN base /\ g # 0 /\ Len(shell) <= Len(base) /\ Len(base) \in Nat
      /\ DOMAIN base = 1 .. Len(base)
      /\ \A k \in DOMAIN shell : base[k] = shell[k] /\ k \in DOMAIN base
      /\ \A k \in DOMAIN base : MarkLast(base[k])
  BY <1>2, <1>3
<1>5. base[g].alive => base[g].in = <<>> /\ base[g].out = <<>>
  <2>1. CASE fresh
    BY <1>2, <1>3, <2>1
  <2>2. CASE ~fresh /\ shell[entry].alive
    <3>1. \A d \in DOMAIN bash : ~(bash[d].shell = entry /\ bash[d].reading)
      BY <1>1, <2>2 DEF Procs!Running, ShellsInv
    <3>2. QED
      BY <2>2, <3>1 DEF ShellsInv
  <2>3. QED
    BY <2>1, <2>2
<1>6. \A d \in DOMAIN bash : bash[d].reading =>
         /\ \A i \in DOMAIN base[bash[d].shell].out : base[bash[d].shell].out[i].call = d
         /\ \A i \in DOMAIN base[bash[d].shell].in : base[bash[d].shell].in[i].call = d
         /\ base[g].alive => bash[d].shell # g
  <2> SUFFICES ASSUME NEW d \in DOMAIN bash, bash[d].reading
               PROVE  /\ \A i \in DOMAIN base[bash[d].shell].out : base[bash[d].shell].out[i].call = d
                      /\ \A i \in DOMAIN base[bash[d].shell].in : base[bash[d].shell].in[i].call = d
                      /\ base[g].alive => bash[d].shell # g
    OBVIOUS
  <2>1. base[bash[d].shell] = shell[bash[d].shell] /\ bash[d].shell \in 1 .. Len(shell)
    BY <1>2, <1>4
  <2>2. base[g].alive => bash[d].shell # g
    <3>1. CASE fresh
      BY <1>2, <2>1, <3>1
    <3>2. CASE ~fresh
      BY <1>1, <1>2, <3>2 DEF ShellsInv, Procs!Running
    <3>3. QED
      BY <3>1, <3>2
  <2>3. QED
    BY <2>1, <2>2 DEF ShellsInv
<1> HIDE DEF base, g
<1>7. CASE base[g].alive
  <2> DEFINE e == [base[g] EXCEPT !.in = @ \o <<text, mark>>]
             x == [shell |-> g, at |-> "run", reading |-> TRUE, got |-> {}]
  <2>1. shell' = [base EXCEPT ![g] = e] /\ bash' = Append(bash, x)
    BY <1>1, <1>7
  <2>2. e.in = <<text, mark>> /\ e.out = <<>> /\ e \in ShellType
    <3>1. <<text, mark>> \in Seq(Item) /\ <<>> \o <<text, mark>> = <<text, mark>>
      BY <1>2 DEF Item
    <3>2. base[g] \in ShellType
      BY <1>4
    <3> DEFINE two == <<text, mark>>
    <3>3. e = [base[g] EXCEPT !.in = two]
      BY <1>5, <1>7, <3>1
    <3> HIDE DEF two
    <3>4. two \in Seq(Item)
      BY <3>1 DEF two
    <3>5. e.in = two /\ e.out = <<>> /\ e \in ShellType
      BY <1>5, <1>7, <3>2, <3>3, <3>4 DEF ShellType
    <3>6. QED
      BY <3>5 DEF two
  <2>3. MarkLast(e) /\ \A i \in DOMAIN e.in : e.in[i].call = c
    <3> HIDE DEF e, c
    <3>1. /\ DOMAIN e.in = {1, 2} /\ Len(e.in) = 2 /\ e.in[1] = text /\ e.in[2] = mark /\ DOMAIN e.out = {}
      BY <2>2
    <3>2. QED
      BY <3>1 DEF MarkLast
  <2>4. x \in CallType /\ x.shell = g /\ x.reading /\ x.at = "run" /\ x.got = {}
    BY <1>4 DEF CallType
  <2> HIDE DEF e, x
  <2>5. /\ shell' \in Seq(ShellType) /\ DOMAIN shell' = DOMAIN base /\ Len(shell') = Len(base) /\ shell'[g] = e
        /\ \A k \in DOMAIN base : k # g => shell'[k] = base[k]
    BY <1>4, <2>1, <2>2
  <2>6. /\ bash' \in Seq(CallType) /\ DOMAIN bash' = DOMAIN bash \cup {c} /\ bash'[c] = x
        /\ \A d \in DOMAIN bash : bash'[d] = bash[d] /\ d # c
    BY <1>2, <2>1, <2>4 DEF ShellsInv
  <2>7. \A d \in DOMAIN bash' : bash'[d].shell \in DOMAIN shell' /\ bash'[d].got \subseteq {d}
    BY <1>2, <1>4, <2>4, <2>5, <2>6 DEF ShellsInv
  <2>8. \A k \in DOMAIN shell' : MarkLast(shell'[k])
    BY <1>4, <2>3, <2>5
  <2>9. \A d \in DOMAIN bash' : bash'[d].reading =>
         /\ \A i \in DOMAIN shell'[bash'[d].shell].out : shell'[bash'[d].shell].out[i].call = d
         /\ \A i \in DOMAIN shell'[bash'[d].shell].in : shell'[bash'[d].shell].in[i].call = d
    <3> SUFFICES ASSUME NEW d \in DOMAIN bash', bash'[d].reading
                 PROVE  /\ \A i \in DOMAIN shell'[bash'[d].shell].out : shell'[bash'[d].shell].out[i].call = d
                        /\ \A i \in DOMAIN shell'[bash'[d].shell].in : shell'[bash'[d].shell].in[i].call = d
      OBVIOUS
    <3>1. CASE d = c
      <4>1. shell'[bash'[d].shell] = e
        BY <2>4, <2>5, <2>6, <3>1
      <4>2. DOMAIN e.out = {}
        BY <2>2
      <4>3. QED
        BY <2>3, <3>1, <4>1, <4>2
    <3>2. CASE d \in DOMAIN bash
      <4>1. bash'[d] = bash[d] /\ bash[d].shell # g /\ bash[d].shell \in DOMAIN base
        BY <1>2, <1>4, <1>6, <1>7, <2>6, <3>2
      <4>2. shell'[bash'[d].shell] = base[bash[d].shell]
        BY <2>5, <4>1
      <4>3. QED
        BY <1>6, <3>2, <4>1, <4>2
    <3>3. QED
      BY <2>6, <3>1, <3>2
  <2>10. \E d \in DOMAIN bash' : bash'[d].shell = entry' /\ bash'[d].reading
    BY <1>1, <2>4, <2>6
  <2>11. \A d \in DOMAIN bash' : bash'[d].reading /\ bash'[d].shell = entry' => bash'[d].at = "run"
    BY <1>1, <1>6, <1>7, <2>4, <2>6
  <2>12. entry' \in 0 .. Len(shell')
    BY <1>1, <1>4, <2>5
  <2>13. QED
    BY <2>5, <2>6, <2>7, <2>8, <2>9, <2>10, <2>11, <2>12 DEF ShellsInv
<1>8. CASE ~base[g].alive
  <2> DEFINE x == [shell |-> g, at |-> "failed", reading |-> FALSE, got |-> {}]
  <2>1. shell' = base /\ bash' = Append(bash, x)
    BY <1>1, <1>8
  <2>4. x \in CallType /\ x.shell = g /\ ~x.reading /\ x.got = {}
    BY <1>4 DEF CallType
  <2> HIDE DEF x
  <2>6. /\ bash' \in Seq(CallType) /\ DOMAIN bash' = DOMAIN bash \cup {c} /\ bash'[c] = x
        /\ \A d \in DOMAIN bash : bash'[d] = bash[d] /\ d # c
    BY <1>2, <2>1, <2>4 DEF ShellsInv
  <2>7. \A d \in DOMAIN bash' : bash'[d].shell \in DOMAIN shell' /\ bash'[d].got \subseteq {d}
    BY <1>2, <1>4, <2>4, <2>1, <2>6 DEF ShellsInv
  <2>9. \A d \in DOMAIN bash' : bash'[d].reading =>
         /\ \A i \in DOMAIN shell'[bash'[d].shell].out : shell'[bash'[d].shell].out[i].call = d
         /\ \A i \in DOMAIN shell'[bash'[d].shell].in : shell'[bash'[d].shell].in[i].call = d
    <3> SUFFICES ASSUME NEW d \in DOMAIN bash', bash'[d].reading
                 PROVE  /\ \A i \in DOMAIN shell'[bash'[d].shell].out : shell'[bash'[d].shell].out[i].call = d
                        /\ \A i \in DOMAIN shell'[bash'[d].shell].in : shell'[bash'[d].shell].in[i].call = d
      OBVIOUS
    <3>1. d \in DOMAIN bash /\ bash'[d] = bash[d]
      BY <2>4, <2>6
    <3>2. shell'[bash'[d].shell] = base[bash[d].shell] /\ bash[d].reading
      BY <2>1, <3>1
    <3>3. QED
      BY <1>6, <3>1, <3>2
  <2>12. entry' \in 0 .. Len(shell') /\ ~shell'[entry'].alive
    BY <1>1, <1>4, <1>8, <2>1
  <2>13. QED
    BY <1>4, <2>1, <2>6, <2>7, <2>9, <2>12 DEF ShellsInv
<1>9. QED
  BY <1>7, <1>8

(* Steps of one shell process, which keep the calls.                        *)
LEMMA ShellChanges ==
    ASSUME ShellsInv, NEW g \in DOMAIN shell, NEW e \in ShellType, shell' = [shell EXCEPT ![g] = e],
           bash' = bash, entry' \in {entry, 0}, MarkLast(e),
           \A k \in Nat : (\A i \in DOMAIN shell[g].out : shell[g].out[i].call = k)
                          /\ (\A i \in DOMAIN shell[g].in : shell[g].in[i].call = k)
                          => /\ \A i \in DOMAIN e.out : e.out[i].call = k
                             /\ \A i \in DOMAIN e.in : e.in[i].call = k,
           e.alive => shell[g].alive,
           e.alive /\ shell[g].in = <<>> /\ shell[g].out = <<>> => e.in = <<>> /\ e.out = <<>>
    PROVE  ShellsInv'
<1>1. /\ Len(shell) \in Nat /\ DOMAIN shell = 1 .. Len(shell) /\ entry \in 0 .. Len(shell)
      /\ shell \in Seq(ShellType)
      /\ \A k \in DOMAIN shell : shell[k] \in ShellType /\ MarkLast(shell[k])
      /\ \A d \in DOMAIN bash : bash[d] \in CallType /\ bash[d].shell \in DOMAIN shell /\ d \in Nat
  BY ShellsTyped DEF ShellsInv
<1>2. /\ shell' \in Seq(ShellType) /\ DOMAIN shell' = DOMAIN shell /\ Len(shell') = Len(shell) /\ shell'[g] = e
      /\ \A k \in DOMAIN shell : k # g => shell'[k] = shell[k]
  BY <1>1
<1>3. \A k \in DOMAIN shell' : MarkLast(shell'[k])
  BY <1>1, <1>2
<1>4. \A d \in DOMAIN bash' : bash'[d].reading =>
         /\ \A i \in DOMAIN shell'[bash'[d].shell].out : shell'[bash'[d].shell].out[i].call = d
         /\ \A i \in DOMAIN shell'[bash'[d].shell].in : shell'[bash'[d].shell].in[i].call = d
  <2> SUFFICES ASSUME NEW d \in DOMAIN bash, bash[d].reading
               PROVE  /\ \A i \in DOMAIN shell'[bash[d].shell].out : shell'[bash[d].shell].out[i].call = d
                      /\ \A i \in DOMAIN shell'[bash[d].shell].in : shell'[bash[d].shell].in[i].call = d
    OBVIOUS
  <2>1. /\ \A i \in DOMAIN shell[bash[d].shell].out : shell[bash[d].shell].out[i].call = d
        /\ \A i \in DOMAIN shell[bash[d].shell].in : shell[bash[d].shell].in[i].call = d
    BY DEF ShellsInv
  <2>2. CASE bash[d].shell = g
    <3>1. shell'[bash[d].shell] = e /\ d \in Nat
      BY <1>1, <1>2, <2>2
    <3>2. QED
      BY <2>1, <2>2, <3>1
  <2>3. CASE bash[d].shell # g
    <3>1. shell'[bash[d].shell] = shell[bash[d].shell]
      BY <1>1, <1>2, <2>3
    <3>2. QED
      BY <2>1, <3>1
  <2>4. QED
    BY <2>2, <2>3
<1>5. entry' # 0 /\ shell'[entry'].alive =>
         \/ shell'[entry'].in = <<>> /\ shell'[entry'].out = <<>>
         \/ \E c \in DOMAIN bash' : bash'[c].shell = entry' /\ bash'[c].reading
  <2> SUFFICES ASSUME entry' # 0, shell'[entry'].alive
               PROVE  \/ shell'[entry'].in = <<>> /\ shell'[entry'].out = <<>>
                      \/ \E c \in DOMAIN bash : bash[c].shell = entry /\ bash[c].reading
    OBVIOUS
  <2>1. entry' = entry /\ entry \in DOMAIN shell
    BY <1>1
  <2>2. shell[entry].alive
    BY <1>2, <2>1
  <2>3. \/ shell[entry].in = <<>> /\ shell[entry].out = <<>>
        \/ \E c \in DOMAIN bash : bash[c].shell = entry /\ bash[c].reading
    BY <2>1, <2>2 DEF ShellsInv
  <2>4. shell[entry].in = <<>> /\ shell[entry].out = <<>> => shell'[entry].in = <<>> /\ shell'[entry].out = <<>>
    BY <1>2, <2>1
  <2>5. QED
    BY <2>1, <2>3, <2>4
<1>6. \A c \in DOMAIN bash' : bash'[c].reading /\ bash'[c].shell = entry' /\ shell'[entry'].alive
      => bash'[c].at = "run"
  <2> SUFFICES ASSUME NEW c \in DOMAIN bash, bash[c].reading, bash[c].shell = entry', shell'[entry'].alive
               PROVE  bash[c].at = "run"
    OBVIOUS
  <2>1. entry' = entry /\ entry \in DOMAIN shell
    BY <1>1
  <2>2. shell[entry].alive
    BY <1>2, <2>1
  <2>3. QED
    BY <2>1, <2>2 DEF ShellsInv
<1>7. QED
  BY <1>1, <1>2, <1>3, <1>4, <1>5, <1>6 DEF ShellsInv

LEMMA ShellStepKept ==
    ASSUME ShellsInv, NEW g \in DOMAIN shell, Procs!ShellStep(g)
    PROVE  ShellsInv'
<1>1. shell[g] \in ShellType /\ shell[g].in \in Seq(Item) /\ shell[g].out \in Seq(Item) /\ MarkLast(shell[g])
  BY ShellsTyped
<1>2. shell[g].alive /\ shell[g].in # <<>> /\ bash' = bash /\ entry' = entry
  BY DEF Procs!ShellStep
<1> DEFINE in == shell[g].in
           out == shell[g].out
<1>3. CASE shell' = [shell EXCEPT ![g].in = Tail(@), ![g].out = Append(@, Head(shell[g].in))]
  <2> DEFINE in2 == Tail(in)
             out2 == Append(out, Head(in))
             e == [shell[g] EXCEPT !.in = in2, !.out = out2]
  <2>1. /\ in2 \in Seq(Item) /\ Len(in) \in Nat \ {0} /\ Len(in2) = Len(in) - 1
        /\ DOMAIN in = 1 .. Len(in) /\ DOMAIN in2 = 1 .. Len(in) - 1
        /\ \A i \in 1 .. Len(in) - 1 : in2[i] = in[i + 1] /\ i + 1 \in 1 .. Len(in)
        /\ Head(in) = in[1] /\ Head(in) \in Item /\ 1 \in DOMAIN in
    BY <1>1, <1>2, TailOf
  <2>2. /\ out2 \in Seq(Item) /\ Len(out) \in Nat /\ Len(out2) = Len(out) + 1
        /\ DOMAIN out = 1 .. Len(out) /\ DOMAIN out2 = 1 .. Len(out) + 1
        /\ \A i \in 1 .. Len(out) : out2[i] = out[i]
        /\ out2[Len(out) + 1] = in[1]
    BY <1>1, <2>1, AppendOf
  <2>3. shell' = [shell EXCEPT ![g] = e]
    BY <1>3
  <2>4. Len(in) = 1 => in2 = <<>>
    BY <2>1
  <2> HIDE DEF in2, out2
  <2>5. e \in ShellType /\ e.in = in2 /\ e.out = out2 /\ e.alive
    BY <1>1, <1>2, <2>1, <2>2 DEF ShellType
  <2>6. \A i \in DOMAIN out : ~out[i].mark
    BY <1>1, <1>2 DEF MarkLast
  <2>7. \A i \in DOMAIN in : in[i].mark => i = Len(in)
    BY <1>1 DEF MarkLast
  <2> HIDE DEF e
  <2>8. MarkLast(e)
    <3>1. ASSUME NEW i \in DOMAIN out2, out2[i].mark PROVE i = Len(out2) /\ in2 = <<>>
      <4>1. i = Len(out) + 1
        BY <2>2, <2>6, <3>1
      <4>2. in[1].mark
        BY <2>2, <3>1, <4>1
      <4>3. QED
        BY <2>1, <2>2, <2>4, <2>7, <4>1, <4>2
    <3>2. ASSUME NEW i \in DOMAIN in2, in2[i].mark PROVE i = Len(in2)
      BY <2>1, <2>7, <3>2
    <3>3. QED
      BY <2>5, <3>1, <3>2 DEF MarkLast
  <2>9. ASSUME NEW k \in Nat, \A i \in DOMAIN out : out[i].call = k, \A i \in DOMAIN in : in[i].call = k
        PROVE  (\A i \in DOMAIN out2 : out2[i].call = k) /\ (\A i \in DOMAIN in2 : in2[i].call = k)
    <3>1. ASSUME NEW i \in DOMAIN out2 PROVE out2[i].call = k
      <4>1. i \in 1 .. Len(out) \/ i = Len(out) + 1
        BY <2>2
      <4>2. in[1].call = k
        BY <2>1, <2>9
      <4>3. i \in 1 .. Len(out) => out2[i].call = k
        BY <2>2, <2>9
      <4>4. QED
        BY <2>2, <4>1, <4>2, <4>3
    <3>2. ASSUME NEW i \in DOMAIN in2 PROVE in2[i].call = k
      BY <2>1, <2>9
    <3>3. QED
      BY <3>1, <3>2
  <2>10. \A k \in Nat : (\A i \in DOMAIN shell[g].out : shell[g].out[i].call = k)
                          /\ (\A i \in DOMAIN shell[g].in : shell[g].in[i].call = k)
                          => /\ \A i \in DOMAIN e.out : e.out[i].call = k
                             /\ \A i \in DOMAIN e.in : e.in[i].call = k
    BY <2>5, <2>9
  <2>11. QED
    BY <1>2, <2>3, <2>5, <2>8, <2>10, ShellChanges
<1>4. CASE shell' = [shell EXCEPT ![g].alive = FALSE]
  <2> DEFINE e == [shell[g] EXCEPT !.alive = FALSE]
  <2>1. shell' = [shell EXCEPT ![g] = e] /\ e \in ShellType /\ e.in = in /\ e.out = out /\ ~e.alive
    BY <1>1, <1>4 DEF ShellType
  <2> HIDE DEF e
  <2>2. MarkLast(e)
    BY <1>1, <2>1 DEF MarkLast
  <2>3. QED
    BY <1>2, <2>1, <2>2, ShellChanges
<1>5. QED
  BY <1>3, <1>4 DEF Procs!ShellStep

Calls(e, k) == /\ \A i \in DOMAIN e.out : e.out[i].call = k
               /\ \A i \in DOMAIN e.in : e.in[i].call = k
Drained(e) == e.in = <<>> /\ e.out = <<>>

(* Steps of one call, which read from the shells or end them.               *)
LEMMA CallChanges ==
    ASSUME ShellsInv, NEW c \in DOMAIN bash, NEW x \in CallType, bash' = [bash EXCEPT ![c] = x],
           x.shell = bash[c].shell, x.got \subseteq {c}, x.reading => bash[c].reading,
           shell' \in Seq(ShellType), Len(shell') = Len(shell),
           \A k \in DOMAIN shell : /\ MarkLast(shell'[k])
                                   /\ \A n \in DOMAIN bash : Calls(shell[k], n) => Calls(shell'[k], n)
                                   /\ shell'[k].alive => shell[k].alive
                                   /\ Drained(shell[k]) => Drained(shell'[k]),
           entry' = 0 \/ /\ entry' = entry
                         /\ x.reading => x.at = bash[c].at
                         /\ ~x.reading /\ shell'[x.shell].alive => Drained(shell'[x.shell]) \/ ~bash[c].reading
    PROVE  ShellsInv'
<1>1. /\ Len(shell) \in Nat /\ DOMAIN shell = 1 .. Len(shell) /\ entry \in 0 .. Len(shell)
         /\ DOMAIN shell' = DOMAIN shell
      /\ \A k \in DOMAIN shell : shell[k] \in ShellType /\ MarkLast(shell[k])
      /\ \A d \in DOMAIN bash : bash[d] \in CallType /\ bash[d].shell \in DOMAIN shell /\ d \in Nat
      /\ \A d \in DOMAIN bash : bash[d].reading => Calls(shell[bash[d].shell], d)
      /\ bash \in Seq(CallType)
  <2>1. \A d \in DOMAIN bash : bash[d].reading => Calls(shell[bash[d].shell], d)
    BY DEF ShellsInv, Calls
  <2>2. QED
    BY <2>1, ShellsTyped DEF ShellsInv
<1>2. /\ bash' \in Seq(CallType) /\ DOMAIN bash' = DOMAIN bash /\ bash'[c] = x
      /\ \A d \in DOMAIN bash : d # c => bash'[d] = bash[d]
  BY <1>1
<1>3. \A d \in DOMAIN bash' : /\ bash'[d].shell = bash[d].shell /\ bash'[d].got \subseteq {d}
                              /\ bash'[d].reading => bash[d].reading
  BY <1>2 DEF ShellsInv
<1>4. \A d \in DOMAIN bash' : bash'[d].reading => Calls(shell'[bash'[d].shell], d)
  <2> SUFFICES ASSUME NEW d \in DOMAIN bash, bash'[d].reading PROVE Calls(shell'[bash'[d].shell], d)
    BY <1>2
  <2>1. bash[d].reading /\ bash'[d].shell = bash[d].shell
    BY <1>2, <1>3
  <2>2. Calls(shell[bash[d].shell], d) /\ bash[d].shell \in DOMAIN shell
    BY <1>1, <2>1
  <2>3. Calls(shell'[bash[d].shell], d)
    BY <2>2
  <2>4. QED
    BY <2>1, <2>3
<1>5. entry' # 0 /\ shell'[entry'].alive =>
         Drained(shell'[entry']) \/ \E d \in DOMAIN bash' : bash'[d].shell = entry' /\ bash'[d].reading
  <2> SUFFICES ASSUME entry' # 0, shell'[entry'].alive
               PROVE  Drained(shell'[entry']) \/ \E d \in DOMAIN bash' : bash'[d].shell = entry' /\ bash'[d].reading
    OBVIOUS
  <2>1. entry' = entry /\ entry \in DOMAIN shell /\ shell[entry].alive
    <3>1. entry' = entry /\ entry \in DOMAIN shell
      BY <1>1
    <3>2. shell'[entry].alive
      BY <3>1
    <3>3. QED
      BY <3>1, <3>2
  <2>2. CASE Drained(shell[entry])
    <3>1. Drained(shell'[entry])
      BY <2>1, <2>2
    <3>2. QED
      BY <2>1, <3>1
  <2>3. CASE \E d \in DOMAIN bash : bash[d].shell = entry /\ bash[d].reading
    <3>1. PICK d \in DOMAIN bash : bash[d].shell = entry /\ bash[d].reading
      BY <2>3
    <3>2. CASE d = c /\ ~x.reading
      BY <2>1, <3>1, <3>2
    <3>3. CASE d # c \/ x.reading
      BY <1>2, <1>3, <2>1, <3>1, <3>3
    <3>4. QED
      BY <3>2, <3>3
  <2>4. QED
    BY <2>1, <2>2, <2>3 DEF ShellsInv, Drained
<1>6. \A d \in DOMAIN bash' : bash'[d].reading /\ bash'[d].shell = entry' /\ shell'[entry'].alive
      => bash'[d].at = "run"
  <2> SUFFICES ASSUME NEW d \in DOMAIN bash, bash'[d].reading, bash'[d].shell = entry', shell'[entry'].alive
               PROVE  bash'[d].at = "run"
    BY <1>2
  <2>1. entry' = entry /\ entry \in DOMAIN shell /\ shell[entry].alive /\ bash[d].reading /\ bash[d].shell = entry
    <3>1. bash[d].reading /\ bash[d].shell = entry' /\ bash[d].shell \in DOMAIN shell
      BY <1>1, <1>2, <1>3
    <3>2. entry' = entry
      BY <1>1, <3>1
    <3>3. shell[entry].alive
      BY <3>1, <3>2
    <3>4. QED
      BY <3>1, <3>2, <3>3
  <2>2. bash[d].at = "run"
    BY <2>1 DEF ShellsInv
  <2>3. QED
    BY <1>1, <1>2, <2>1, <2>2
<1>7. QED
  <2>1. \A k \in DOMAIN shell' : MarkLast(shell'[k])
    BY <1>1
  <2>2. entry' \in 0 .. Len(shell')
    BY <1>1
  <2>3. \A d \in DOMAIN bash' : bash'[d].shell \in DOMAIN shell' /\ bash'[d].got \subseteq {d}
    BY <1>1, <1>2, <1>3
  <2>4. QED
    BY <1>2, <1>4, <1>5, <1>6, <2>1, <2>2, <2>3 DEF ShellsInv, Calls, Drained

LEMMA ReadStep ==
    ASSUME ShellsInv, NEW c \in DOMAIN bash, Procs!ReadLine(c)
    PROVE  ShellsInv'
<1> DEFINE g == bash[c].shell
           out == shell[g].out
<1>1. /\ g \in DOMAIN shell /\ shell[g] \in ShellType /\ out \in Seq(Item) /\ MarkLast(shell[g])
      /\ bash[c] \in CallType /\ bash[c].got \subseteq {c} /\ c \in Nat
      /\ Len(shell) \in Nat /\ DOMAIN shell = 1 .. Len(shell) /\ shell \in Seq(ShellType)
      /\ \A k \in DOMAIN shell : MarkLast(shell[k])
  BY ShellsTyped DEF ShellsInv
<1>2. bash[c].reading /\ entry' = entry
  BY DEF Procs!ReadLine
<1>3. Calls(shell[g], c)
  BY <1>2 DEF ShellsInv, Calls
<1>4. CASE out # <<>>
  <2> DEFINE out2 == Tail(out)
             e == [shell[g] EXCEPT !.out = out2]
             x == IF Head(out).mark THEN [bash[c] EXCEPT !.reading = FALSE]
                  ELSE [bash[c] EXCEPT !.got = @ \cup {Head(out).call}]
  <2>1. shell' = [shell EXCEPT ![g] = e] /\ bash' = [bash EXCEPT ![c] = x]
    BY <1>4 DEF Procs!ReadLine
  <2>2. /\ out2 \in Seq(Item) /\ Len(out) \in Nat \ {0} /\ Len(out2) = Len(out) - 1
        /\ DOMAIN out = 1 .. Len(out) /\ DOMAIN out2 = 1 .. Len(out) - 1
        /\ \A i \in 1 .. Len(out) - 1 : out2[i] = out[i + 1] /\ i + 1 \in 1 .. Len(out)
        /\ Head(out) = out[1] /\ 1 \in DOMAIN out
    BY <1>1, <1>4, TailOf
  <2>3. Head(out).call = c
    BY <1>3, <2>2 DEF Calls
  <2>4. /\ x \in CallType /\ x.shell = g /\ x.got \subseteq {c} /\ x.at = bash[c].at
        /\ x.reading => bash[c].reading
        /\ ~x.reading => Head(out).mark
    BY <1>1, <1>2, <2>3 DEF CallType
  <2>6. Len(out) = 1 => out2 = <<>>
    BY <2>2
  <2>5. ~x.reading => out2 = <<>> /\ shell[g].in = <<>>
    <3> HIDE DEF out2, x
    <3>1. Head(out).mark => Len(out) = 1 /\ shell[g].in = <<>>
      BY <1>1, <2>2 DEF MarkLast
    <3>2. QED
      BY <2>4, <2>6, <3>1
  <2> HIDE DEF out2, x
  <2>7. e \in ShellType /\ e.out = out2 /\ e.in = shell[g].in /\ e.alive = shell[g].alive
    BY <1>1, <2>2 DEF ShellType
  <2> HIDE DEF e
  <2>8. MarkLast(e)
    <3>1. ASSUME NEW i \in DOMAIN out2, out2[i].mark PROVE i = Len(out2) /\ shell[g].in = <<>>
      <4>1. i + 1 \in DOMAIN out /\ out[i + 1].mark
        BY <2>2, <3>1
      <4>2. i + 1 = Len(out) /\ shell[g].in = <<>>
        BY <1>1, <4>1 DEF MarkLast
      <4>3. QED
        BY <2>2, <4>2
    <3>2. QED
      BY <1>1, <2>7, <3>1 DEF MarkLast
  <2>9. ASSUME NEW n \in DOMAIN bash, Calls(shell[g], n) PROVE Calls(e, n)
    <3>1. \A i \in DOMAIN out2 : out2[i].call = n
      BY <2>2, <2>9 DEF Calls
    <3>2. QED
      BY <2>7, <2>9, <3>1 DEF Calls
  <2>10. ~Drained(shell[g])
    BY <1>4 DEF Drained
  <2>11. /\ shell' \in Seq(ShellType) /\ Len(shell') = Len(shell) /\ shell'[g] = e
         /\ \A k \in DOMAIN shell : k # g => shell'[k] = shell[k]
    BY <1>1, <2>1, <2>7
  <2>12. \A k \in DOMAIN shell : /\ MarkLast(shell'[k])
                                 /\ \A n \in DOMAIN bash : Calls(shell[k], n) => Calls(shell'[k], n)
                                 /\ shell'[k].alive => shell[k].alive
                                 /\ Drained(shell[k]) => Drained(shell'[k])
    <3> SUFFICES ASSUME NEW k \in DOMAIN shell
                 PROVE  /\ MarkLast(shell'[k])
                        /\ \A n \in DOMAIN bash : Calls(shell[k], n) => Calls(shell'[k], n)
                        /\ shell'[k].alive => shell[k].alive
                        /\ Drained(shell[k]) => Drained(shell'[k])
      OBVIOUS
    <3>1. CASE k = g
      BY <2>7, <2>8, <2>9, <2>10, <2>11, <3>1
    <3>2. CASE k # g
      BY <1>1, <2>11, <3>2
    <3>3. QED
      BY <3>1, <3>2
  <2>13. ~x.reading => Drained(shell'[x.shell])
    BY <2>4, <2>5, <2>7, <2>11 DEF Drained
  <2>14. QED
    BY <1>2, <2>1, <2>4, <2>11, <2>12, <2>13, CallChanges
<1>5. CASE out = <<>>
  <2> DEFINE x == [bash[c] EXCEPT !.reading = FALSE]
  <2>1. ~shell[g].alive /\ shell' = shell /\ bash' = [bash EXCEPT ![c] = x]
    BY <1>5 DEF Procs!ReadLine
  <2>2. x \in CallType /\ x.shell = g /\ x.got \subseteq {c} /\ ~x.reading
    BY <1>1 DEF CallType
  <2> HIDE DEF x
  <2>3. QED
    BY <1>1, <1>2, <2>1, <2>2, CallChanges
<1>6. QED
  BY <1>4, <1>5

LEMMA ReturnStep ==
    ASSUME ShellsInv, NEW c \in DOMAIN bash, Procs!ShellReturn(c) \/ Procs!ShellCancel(c)
    PROVE  ShellsInv'
<1>1. /\ bash[c] \in CallType /\ bash[c].got \subseteq {c}
      /\ Len(shell) \in Nat /\ DOMAIN shell = 1 .. Len(shell) /\ shell \in Seq(ShellType)
         /\ entry \in 0 .. Len(shell)
      /\ \A k \in DOMAIN shell : shell[k] \in ShellType /\ MarkLast(shell[k])
  BY ShellsTyped DEF ShellsInv
<1>2. PICK x \in CallType : /\ bash' = [bash EXCEPT ![c] = x] /\ x.shell = bash[c].shell /\ x.got \subseteq {c}
                            /\ x.reading = bash[c].reading /\ (Procs!ShellReturn(c) => ~x.reading)
  <2>1. CASE Procs!ShellReturn(c)
    <3> DEFINE x == [bash[c] EXCEPT !.at = "done"]
    <3>1. x \in CallType /\ bash' = [bash EXCEPT ![c] = x]
      BY <1>1, <2>1 DEF CallType, Procs!ShellReturn
    <3>2. QED
      BY <1>1, <2>1, <3>1 DEF Procs!ShellReturn, CallType
  <2>2. CASE Procs!ShellCancel(c)
    <3> DEFINE x == [bash[c] EXCEPT !.at = "cancelled"]
    <3>1. x \in CallType /\ bash' = [bash EXCEPT ![c] = x] /\ ~Procs!ShellReturn(c)
      BY <1>1, <2>2 DEF CallType, Procs!ShellCancel, Procs!ShellReturn
    <3>2. QED
      BY <1>1, <2>2, <3>1 DEF CallType
  <2>3. QED
    BY <2>1, <2>2
<1>3. CASE Procs!ShellReturn(c)
  <2>1. shell' = shell /\ entry' = entry /\ ~bash[c].reading
    BY <1>3 DEF Procs!ShellReturn
  <2>2. QED
    BY <1>1, <1>2, <1>3, <2>1, CallChanges
<1>4. CASE Procs!ShellCancel(c)
  <2>1. entry' = 0 /\ shell' = IF entry = 0 THEN shell ELSE [shell EXCEPT ![entry].alive = FALSE]
    BY <1>4 DEF Procs!ShellCancel
  <2>2. /\ shell' \in Seq(ShellType) /\ Len(shell') = Len(shell)
        /\ \A k \in DOMAIN shell : /\ shell'[k].in = shell[k].in /\ shell'[k].out = shell[k].out
                                   /\ shell'[k].alive => shell[k].alive
    <3>1. CASE entry = 0
      BY <1>1, <2>1, <3>1
    <3>2. CASE entry # 0
      <4> DEFINE e == [shell[entry] EXCEPT !.alive = FALSE]
      <4>1. shell' = [shell EXCEPT ![entry] = e] /\ entry \in DOMAIN shell
        BY <1>1, <2>1, <3>2
      <4>2. e \in ShellType /\ e.in = shell[entry].in /\ e.out = shell[entry].out /\ ~e.alive
        BY <1>1, <4>1 DEF ShellType
      <4> HIDE DEF e
      <4>3. /\ shell' \in Seq(ShellType) /\ Len(shell') = Len(shell) /\ shell'[entry] = e
            /\ \A k \in DOMAIN shell : k # entry => shell'[k] = shell[k]
        BY <1>1, <4>1, <4>2
      <4>4. QED
        BY <1>1, <4>2, <4>3
    <3>3. QED
      BY <3>1, <3>2
  <2>3. \A k \in DOMAIN shell : /\ MarkLast(shell'[k])
                                /\ \A n \in DOMAIN bash : Calls(shell[k], n) => Calls(shell'[k], n)
                                /\ shell'[k].alive => shell[k].alive
                                /\ Drained(shell[k]) => Drained(shell'[k])
    <3> SUFFICES ASSUME NEW k \in DOMAIN shell
                 PROVE  /\ MarkLast(shell'[k])
                        /\ \A n \in DOMAIN bash : Calls(shell[k], n) => Calls(shell'[k], n)
                        /\ shell'[k].alive => shell[k].alive
                        /\ Drained(shell[k]) => Drained(shell'[k])
      OBVIOUS
    <3>1. shell'[k].in = shell[k].in /\ shell'[k].out = shell[k].out /\ (shell'[k].alive => shell[k].alive)
      BY <2>2, Zenon
    <3>2. MarkLast(shell'[k])
      BY <1>1, <3>1 DEF MarkLast
    <3>3. QED
      BY <3>1, <3>2 DEF Calls, Drained
  <2>4. QED
    BY <1>2, <2>1, <2>2, <2>3, CallChanges
<1>5. QED
  BY <1>3, <1>4

LEMMA ResetStep ==
    ASSUME ShellsInv, Procs!ShellReset
    PROVE  ShellsInv'
<1> DEFINE e == [shell[entry] EXCEPT !.alive = FALSE]
<1>1. entry \in DOMAIN shell /\ shell[entry] \in ShellType /\ MarkLast(shell[entry])
  BY ShellsTyped DEF ShellsInv, Procs!ShellReset
<1>2. shell' = [shell EXCEPT ![entry] = e] /\ bash' = bash /\ entry' = 0
  BY DEF Procs!ShellReset
<1>3. e \in ShellType /\ e.in = shell[entry].in /\ e.out = shell[entry].out /\ ~e.alive
  BY <1>1 DEF ShellType
<1> HIDE DEF e
<1>4. MarkLast(e)
  BY <1>1, <1>3 DEF MarkLast
<1>5. QED
  BY <1>1, <1>2, <1>3, <1>4, ShellChanges

LEMMA UnmarkedTyped ==
    ASSUME NEW q \in Seq(Line), NEW c
    PROVE  Procs!Unmarked(q, c) \in Seq(Line)
<1> DEFINE T == Seq(Line)
           gone(n) == q[n].mark /\ q[n].call = c
           step == [n \in Nat |-> [t \in T |-> IF n \in 1 .. Len(q) THEN (IF gone(n) THEN t
           ELSE Append(t, q[n])) ELSE t]]
           kept == CHOOSE F : F = [n \in 0 .. Len(q) |-> IF n = 0 THEN <<>>
                                                         ELSE IF q[n].mark /\ q[n].call = c THEN F[n - 1]
                                                         ELSE Append(F[n - 1], q[n])]
<1>1. Len(q) \in Nat /\ \A n \in 1 .. Len(q) : q[n] \in Line
  OBVIOUS
<1>2. step \in [Nat -> [T -> T]]
  <2>1. \A n \in Nat, t \in T : n \in 1 .. Len(q) => Append(t, q[n]) \in T
    BY <1>1
  <2> HIDE DEF T, gone
  <2>2. QED
    BY <2>1
<1>3. PICK F : IsLoop(F, <<>>, step, Len(q)) /\ \A n \in 0 .. Len(q) : F[n] \in T
  <2>1. <<>> \in T
    OBVIOUS
  <2> HIDE DEF T, step
  <2>2. QED
    BY <1>1, <1>2, <2>1, LoopRuns
<1> DEFINE Round(G, n) == IF n = 0 THEN <<>>
                          ELSE IF q[n].mark /\ q[n].call = c THEN G[n - 1] ELSE Append(G[n - 1], q[n])
<1>4. F = [n \in 0 .. Len(q) |-> Round(F, n)]
  <2>1. F[0] = <<>>
    BY <1>3, Zenon DEF IsLoop
  <2>2. ASSUME NEW n \in 0 .. Len(q), n # 0 PROVE F[n] = Round(F, n)
    <3>1. n \in 1 .. Len(q) /\ n - 1 \in 0 .. Len(q) /\ n \in Nat
      BY <1>1, <2>2
    <3>2. F[n] = step[n][F[n - 1]] /\ F[n - 1] \in T
      BY <1>3, <3>1, Zenon DEF IsLoop
    <3> HIDE DEF T
    <3>3. QED
      BY <2>2, <3>1, <3>2
  <2>3. F = [n \in 0 .. Len(q) |-> F[n]]
    BY <1>3, Zenon DEF IsLoop
  <2>4. \A n \in 0 .. Len(q) : F[n] = Round(F, n)
    BY <2>1, <2>2
  <2> HIDE DEF Round
  <2>5. [n \in 0 .. Len(q) |-> F[n]] = [n \in 0 .. Len(q) |-> Round(F, n)]
    BY <2>4, Zenon
  <2>6. QED
    BY <2>3, <2>5, Zenon
<1>5. kept = [n \in 0 .. Len(q) |-> Round(kept, n)]
  BY <1>4, Zenon
<1>6. Procs!Unmarked(q, c) = kept[Len(q)]
  BY DEF Procs!Unmarked
<1> HIDE DEF kept, step
<1> DEFINE A == {n \in Nat : n <= Len(q) => kept[n] \in T}
<1>7. A = Nat
  <2>1. 0 \in A
    <3>1. kept[0] = <<>>
      BY <1>1, <1>5
    <3>2. kept[0] \in T
      BY <3>1
    <3> HIDE DEF T
    <3>3. QED
      BY <3>2
  <2>2. ASSUME NEW n \in A PROVE n + 1 \in A
    <3>1. n \in Nat
      OBVIOUS
    <3>2. CASE n + 1 <= Len(q)
      <4>1. n + 1 \in 1 .. Len(q) /\ n + 1 \in 0 .. Len(q) /\ n + 1 # 0 /\ (n + 1) - 1 = n /\ kept[n] \in T
        BY <1>1, <3>1, <3>2
      <4>2. kept[n + 1] = Round(kept, n + 1)
        <5> HIDE DEF Round
        <5>1. QED
          BY <1>5, <4>1
      <4>3. kept[n + 1] = kept[n] \/ kept[n + 1] = Append(kept[n], q[n + 1])
        BY <4>1, <4>2
      <4>4. kept[n + 1] \in T
        <5>1. q[n + 1] \in Line
          BY <1>1, <4>1
        <5> HIDE DEF Line
        <5>2. Append(kept[n], q[n + 1]) \in T
          BY <4>1, <5>1, AppendOf
        <5>3. QED
          BY <4>1, <4>3, <5>2, Zenon
      <4> HIDE DEF T
      <4>5. QED
        BY <3>1, <4>4
    <3>3. CASE ~(n + 1 <= Len(q))
      BY <3>1, <3>3
    <3>4. QED
      BY <3>2, <3>3
  <2> HIDE DEF A
  <2>3. A \in SUBSET Nat
    BY DEF A
  <2>4. QED
    BY <2>1, <2>2, <2>3, SetInduction
<1>8. QED
  BY <1>1, <1>6, <1>7

(* One call of terminal_send moves: the last, the others have returned.     *)
LEMMA SendChanges ==
    ASSUME TerminalsInv, NEW c \in DOMAIN send, NEW x \in SendType, send' = [send EXCEPT ![c] = x],
           send[c].at \notin {"done", "failed", "cancelled"},
           term' \in TermType, term'.closed => ~term'.stdin,
           x.at \in {"mark", "wait"} /\ ~x.woken => c \in term'.waiters,
           x.at = "wait" /\ ~x.woken => ~term'.closed /\ Comes(term', c)
    PROVE  TerminalsInv'
<1>1. /\ send \in Seq(SendType) /\ Len(send) \in Nat /\ DOMAIN send = 1 .. Len(send) /\ c = Len(send)
      /\ \A d \in DOMAIN send : d # c => send[d].at \in {"done", "failed", "cancelled"}
  BY DEF TerminalsInv
<1>2. /\ send' \in Seq(SendType) /\ DOMAIN send' = DOMAIN send /\ Len(send') = Len(send) /\ send'[c] = x
      /\ \A d \in DOMAIN send : d # c => send'[d] = send[d]
  BY <1>1
<1>3. \A d \in DOMAIN send' : d # c => send'[d].at \in {"done", "failed", "cancelled"}
  BY <1>1, <1>2
<1>4. QED
  BY <1>1, <1>2, <1>3 DEF TerminalsInv

(* The terminal alone moves.                                                *)
LEMMA TermChanges ==
    ASSUME TerminalsInv, send' = send, term' \in TermType, term'.closed => ~term'.stdin,
           \A c \in term.waiters : /\ c \in term'.waiters
                                   /\ ~term.closed /\ Comes(term, c) => ~term'.closed /\ Comes(term', c)
    PROVE  TerminalsInv'
BY DEF TerminalsInv

LEMMA TermTyped ==
    ASSUME TerminalsInv
    PROVE  /\ term \in TermType /\ term.in \in Seq(Line) /\ term.out \in Seq(Line) /\ term.lines \in Seq(Line)
           /\ term.alive \in BOOLEAN /\ term.stdin \in BOOLEAN /\ term.closed \in BOOLEAN /\ term.listed \in BOOLEAN
           /\ term.waiters \in SUBSET Nat
           /\ term.closed => ~term.stdin
           /\ send \in Seq(SendType) /\ Len(send) \in Nat /\ DOMAIN send = 1 .. Len(send)
           /\ \A c \in DOMAIN send : send[c] \in SendType /\ c \in Nat
<1>1. term \in TermType /\ send \in Seq(SendType) /\ (term.closed => ~term.stdin)
  BY DEF TerminalsInv
<1>2. /\ term.in \in Seq(Line) /\ term.out \in Seq(Line) /\ term.lines \in Seq(Line)
      /\ term.alive \in BOOLEAN /\ term.stdin \in BOOLEAN /\ term.closed \in BOOLEAN /\ term.listed \in BOOLEAN
      /\ term.waiters \in SUBSET Nat
  BY <1>1 DEF TermType
<1>3. Len(send) \in Nat /\ DOMAIN send = 1 .. Len(send) /\ \A c \in DOMAIN send : send[c] \in SendType /\ c \in Nat
  BY <1>1
<1>4. QED
  BY <1>1, <1>2, <1>3

LEMMA OpenStep ==
    ASSUME TerminalsInv, Procs!OpenTerminal \/ Procs!TerminalExit \/ Procs!TerminalWaited \/ Procs!CloseTerminal
    PROVE  TerminalsInv'
<1>1. /\ term \in TermType /\ term.in \in Seq(Line) /\ (term.closed => ~term.stdin)
  BY TermTyped
<1> DEFINE e == <<>>
<1>2. e \in Seq(Line)
  OBVIOUS
<1>3. CASE Procs!OpenTerminal
  <2>1. term = Procs!NoTerm /\ term' = [term EXCEPT !.alive = TRUE, !.stdin = TRUE, !.listed = TRUE] /\ send' = send
    BY <1>3 DEF Procs!OpenTerminal
  <2>2. ~term.closed /\ term.waiters = {}
    BY <2>1 DEF Procs!NoTerm
  <2>3. term' \in TermType /\ ~term'.closed
    BY <1>1, <2>1, <2>2 DEF TermType
  <2>4. QED
    BY <2>1, <2>2, <2>3, TermChanges
<1>4. CASE Procs!TerminalExit
  <2>1. term' = [term EXCEPT !.alive = FALSE] /\ send' = send
    BY <1>4 DEF Procs!TerminalExit
  <2>2. term' \in TermType /\ ~term'.alive /\ term'.closed = term.closed /\ term'.stdin = term.stdin
        /\ term'.waiters = term.waiters
    BY <1>1, <2>1 DEF TermType
  <2>3. QED
    BY <1>1, <2>1, <2>2, TermChanges DEF Comes
<1>5. CASE Procs!TerminalWaited
  <2>1. ~term.alive /\ term' = [term EXCEPT !.stdin = FALSE, !.in = e] /\ send' = send
    BY <1>5 DEF Procs!TerminalWaited
  <2> HIDE DEF e
  <2>2. term' \in TermType /\ ~term'.alive /\ term'.closed = term.closed /\ ~term'.stdin
        /\ term'.waiters = term.waiters
    BY <1>1, <1>2, <2>1 DEF TermType
  <2>3. QED
    BY <2>1, <2>2, TermChanges DEF Comes
<1>6. CASE Procs!CloseTerminal
  <2>1. ~term.closed
        /\ term' = [term EXCEPT !.alive = FALSE, !.stdin = FALSE, !.in = e, !.listed = FALSE] /\ send' = send
    BY <1>6 DEF Procs!CloseTerminal
  <2> HIDE DEF e
  <2>2. term' \in TermType /\ ~term'.alive /\ term'.closed = term.closed /\ ~term'.stdin
        /\ term'.waiters = term.waiters
    BY <1>1, <1>2, <2>1 DEF TermType
  <2>3. QED
    BY <2>1, <2>2, TermChanges DEF Comes
<1>7. QED
  BY <1>3, <1>4, <1>5, <1>6

LEMMA EchoStep ==
    ASSUME TerminalsInv, Procs!TerminalStep
    PROVE  TerminalsInv'
<1> DEFINE in == term.in
           out == term.out
           in2 == Tail(in)
           out2 == Append(out, Head(in))
<1>1. /\ term \in TermType /\ in \in Seq(Line) /\ out \in Seq(Line) /\ (term.closed => ~term.stdin)
  BY TermTyped
<1>2. term.alive /\ in # <<>> /\ send' = send /\ term' = [term EXCEPT !.in = in2, !.out = out2]
  BY DEF Procs!TerminalStep
<1>3. /\ in2 \in Seq(Line) /\ Len(in) \in Nat \ {0} /\ Len(in2) = Len(in) - 1
      /\ \A i \in 1 .. Len(in) - 1 : in2[i] = in[i + 1] /\ i + 1 \in 1 .. Len(in)
      /\ Head(in) = in[1] /\ in[1] \in Line
  BY <1>1, <1>2, TailOf
<1>4. out2 \in Seq(Line) /\ Len(out2) = Len(out) + 1 /\ out2[Len(out) + 1] = in[1] /\ out2 # <<>>
  BY <1>1, <1>3, AppendOf
<1> HIDE DEF in2, out2
<1>5. Len(in2) = 0 => in2 = <<>>
  BY <1>3
<1>6. in2 = <<>> => Len(in2) = 0
  OBVIOUS
<1>7. /\ term' \in TermType /\ term'.in = in2 /\ term'.out = out2 /\ term'.closed = term.closed
      /\ term'.stdin = term.stdin /\ term'.waiters = term.waiters
  BY <1>1, <1>2, <1>3, <1>4 DEF TermType
<1>8. ASSUME NEW c, Comes(term, c) PROVE Comes(term', c)
  <2>1. LastIs(in, c)
    BY <1>2, <1>8 DEF Comes
  <2>2. CASE Len(in) = 1
    <3>1. in2 = <<>> /\ out2[Len(out2)] = in[Len(in)]
      BY <1>3, <1>4, <1>5, <2>2
    <3>2. QED
      BY <1>4, <1>7, <2>1, <3>1 DEF Comes, LastIs
  <2>3. CASE Len(in) # 1
    <3>1. in2[Len(in2)] = in[Len(in)] /\ in2 # <<>>
      BY <1>3, <1>6, <2>3
    <3>2. QED
      BY <1>7, <2>1, <3>1 DEF Comes, LastIs
  <2>4. QED
    BY <2>2, <2>3
<1>9. QED
  BY <1>1, <1>2, <1>7, <1>8, TermChanges

LEMMA SendStart ==
    ASSUME TerminalsInv, Procs!TerminalSend
    PROVE  TerminalsInv'
<1> DEFINE x == [at |-> "text", before |-> 0, woken |-> FALSE, out |-> {}]
<1>1. /\ term' = term /\ send' = Append(send, x) /\ x \in SendType
      /\ \A c \in DOMAIN send : send[c].at \in {"done", "failed", "cancelled"}
  BY DEF Procs!TerminalSend, Procs!Running, TerminalsInv, SendType
<1>2. x.at = "text"
  OBVIOUS
<1> HIDE DEF x
<1>3. /\ send' \in Seq(SendType) /\ Len(send) \in Nat /\ Len(send') = Len(send) + 1
         /\ DOMAIN send' = 1 .. Len(send) + 1
      /\ DOMAIN send = 1 .. Len(send)
      /\ \A c \in DOMAIN send : send'[c] = send[c] /\ send'[Len(send) + 1] = x
  BY <1>1, TermTyped, AppendOf
<1>4. \A c \in DOMAIN send' : send'[c].at \in {"done", "failed", "cancelled"}
      \/ (c = Len(send') /\ send'[c].at = "text")
  <2>1. send'[Len(send) + 1] = x
    BY <1>1, TermTyped, AppendOf
  <2>2. QED
    BY <1>1, <1>2, <1>3, <2>1
<1>5. \A c \in DOMAIN send' : send'[c].at \notin {"mark", "wait"}
  BY <1>4
<1>6. QED
  BY <1>1, <1>3, <1>4, <1>5 DEF TerminalsInv

(* A write reaches the shell or fails.                                      *)
LEMMA WriteStep ==
    ASSUME TerminalsInv, NEW c \in DOMAIN send, Procs!SendText(c) \/ Procs!RegisterMarker(c) \/ Procs!WriteMarker(c)
    PROVE  TerminalsInv'
<1>1. /\ term \in TermType /\ term.in \in Seq(Line) /\ term.lines \in Seq(Line) /\ (term.closed => ~term.stdin)
      /\ send[c] \in SendType /\ c \in Nat /\ term.waiters \in SUBSET Nat /\ term.closed \in BOOLEAN
  BY TermTyped
<1>2. send[c].at \in {"mark", "wait"} /\ ~send[c].woken => c \in term.waiters
  BY DEF TerminalsInv
<1>3. CASE Procs!RegisterMarker(c)
  <2> DEFINE b == Len(term.lines)
             x == [send[c] EXCEPT !.at = "mark", !.before = b]
  <2>0. b \in Nat
    BY <1>1
  <2>1. /\ send[c].at = "register" /\ send' = [send EXCEPT ![c] = x]
        /\ term' = [term EXCEPT !.waiters = @ \cup {c}] /\ b \in Nat
    <3>1. /\ send[c].at = "register" /\ term' = [term EXCEPT !.waiters = @ \cup {c}]
          /\ send' = [send EXCEPT ![c].at = "mark", ![c].before = b]
      BY <1>3 DEF Procs!RegisterMarker
    <3> HIDE DEF b
    <3>2. send' = [send EXCEPT ![c] = x]
      BY <1>1, <3>1, TermTyped
    <3>3. QED
      BY <2>0, <3>1, <3>2
  <2> HIDE DEF b
  <2>2. x \in SendType /\ x.at = "mark"
    BY <1>1, <2>1 DEF SendType
  <2>3. term' \in TermType /\ term'.closed = term.closed /\ term'.stdin = term.stdin /\ c \in term'.waiters
    BY <1>1, <2>1 DEF TermType
  <2> HIDE DEF x
  <2>4. QED
    BY <1>1, <2>1, <2>2, <2>3, SendChanges
<1>4. ASSUME NEW item \in Line, NEW then \in {"register", "wait"}, Procs!Write(c, item, then),
             then = "register" => send[c].at = "text",
             then = "wait" => send[c].at = "mark" /\ item.mark /\ item.call = c
      PROVE  TerminalsInv'
  <2>1. CASE term.stdin
    <3> DEFINE in2 == Append(term.in, item)
               x == [send[c] EXCEPT !.at = then]
    <3>1. term' = [term EXCEPT !.in = in2] /\ send' = [send EXCEPT ![c] = x]
      BY <1>4, <2>1 DEF Procs!Write
    <3>2. in2 \in Seq(Line) /\ Len(in2) = Len(term.in) + 1 /\ in2[Len(term.in) + 1] = item /\ in2 # <<>>
      BY <1>1, AppendOf
    <3>3. x \in SendType /\ x.at = then /\ x.woken = send[c].woken
      BY <1>1 DEF SendType
    <3>4. then = "wait" => LastIs(in2, c)
      BY <1>4, <3>2 DEF LastIs
    <3> HIDE DEF in2, x
    <3>5. /\ term' \in TermType /\ term'.in = in2 /\ term'.closed = term.closed /\ term'.stdin = term.stdin
          /\ term'.waiters = term.waiters
      BY <1>1, <3>1, <3>2 DEF TermType
    <3>6. QED
      BY <1>1, <1>2, <1>4, <2>1, <3>1, <3>3, <3>4, <3>5, SendChanges DEF Comes
  <2>2. CASE ~term.stdin
    <3> DEFINE x == [send[c] EXCEPT !.at = "failed"]
    <3>1. term' = [term EXCEPT !.waiters = @ \ {c}] /\ send' = [send EXCEPT ![c] = x]
      BY <1>4, <2>2 DEF Procs!Write
    <3>2. x \in SendType /\ x.at = "failed"
      BY <1>1 DEF SendType
    <3>3. term' \in TermType /\ term'.closed = term.closed /\ term'.stdin = term.stdin
      BY <1>1, <3>1 DEF TermType
    <3> HIDE DEF x
    <3>4. QED
      BY <1>1, <1>4, <2>2, <3>1, <3>2, <3>3, SendChanges
  <2>3. QED
    BY <2>1, <2>2
<1>5. CASE Procs!SendText(c)
  <2>1. PICK loose \in BOOLEAN : Procs!Write(c, [call |-> c, mark |-> FALSE, glued |-> loose], "register")
    BY <1>5 DEF Procs!SendText
  <2>2. [call |-> c, mark |-> FALSE, glued |-> loose] \in Line /\ send[c].at = "text"
    BY <1>1, <1>5 DEF Line, Procs!SendText
  <2>3. QED
    BY <1>4, <2>1, <2>2
<1>6. CASE Procs!WriteMarker(c)
  <2> DEFINE item == [call |-> c, mark |-> TRUE, glued |-> FALSE]
  <2>1. item \in Line /\ item.mark /\ item.call = c /\ send[c].at = "mark" /\ Procs!Write(c, item, "wait")
    BY <1>1, <1>6 DEF Line, Procs!WriteMarker
  <2> HIDE DEF item
  <2>2. QED
    BY <1>4, <2>1
<1>7. QED
  BY <1>3, <1>5, <1>6

(* readLoop takes a line, or an unterminated one with what follows it.      *)
LEMMA ReadLoopStep ==
    ASSUME TerminalsInv, Procs!TerminalRead
    PROVE  TerminalsInv'
<1> DEFINE in == term.in
           out == term.out
           l == Head(out)
           taken == IF l.glued THEN 2 ELSE 1
           out2 == SubSeq(out, taken + 1, Len(out))
           lines2 == Procs!Retain(term.lines, l)
           waiters2 == IF l.mark THEN term.waiters \ {l.call} ELSE term.waiters
<1>1. /\ term \in TermType /\ in \in Seq(Line) /\ out \in Seq(Line) /\ (term.closed => ~term.stdin)
      /\ term.lines \in Seq(Line) /\ term.waiters \in SUBSET Nat
      /\ send \in Seq(SendType) /\ Len(send) \in Nat /\ DOMAIN send = 1 .. Len(send)
      /\ \A c \in DOMAIN send : send[c] \in SendType /\ c \in Nat
  BY TermTyped
<1>2. /\ out # <<>> /\ ~term.closed /\ Len(out) >= taken
      /\ term' = [term EXCEPT !.out = out2, !.lines = lines2, !.waiters = waiters2]
      /\ send' = IF l.mark /\ l.call \in term.waiters THEN [send EXCEPT ![l.call].woken = TRUE] ELSE send
  BY DEF Procs!TerminalRead
<1>3. Len(out) \in Nat \ {0} /\ l = out[1] /\ l \in Line /\ taken \in {1, 2}
  BY <1>1, <1>2, TailOf
<1>4. /\ out2 \in Seq(Line) /\ Len(out2) = Len(out) - taken
      /\ \A i \in 1 .. Len(out) - taken : out2[i] = out[i + taken]
  <2> HIDE DEF taken
  <2>1. QED
    BY <1>1, <1>2, <1>3
<1>5. lines2 \in Seq(Line) /\ lines2 # <<>> /\ lines2[Len(lines2)] = l
  <2> HIDE DEF l
  <2>1. CASE Len(term.lines) < MaxLines
    <3>1. lines2 = Append(term.lines, l)
      BY <2>1 DEF Procs!Retain
    <3> HIDE DEF lines2
    <3>2. QED
      BY <1>1, <1>3, <3>1, AppendOf
  <2>2. CASE ~(Len(term.lines) < MaxLines)
    <3>1. term.lines # <<>>
      BY <1>1, <2>2, LinesAssumption
    <3>2. Tail(term.lines) \in Seq(Line)
      BY <1>1, <3>1, TailOf
    <3>3. lines2 = Append(Tail(term.lines), l)
      BY <2>2 DEF Procs!Retain
    <3> HIDE DEF lines2
    <3>4. QED
      BY <1>3, <3>2, <3>3, AppendOf
  <2>3. QED
    BY <2>1, <2>2
<1>6. waiters2 \in SUBSET Nat
  BY <1>1
<1> HIDE DEF out2, lines2, waiters2
<1>7. /\ term' \in TermType /\ term'.in = in /\ term'.out = out2 /\ term'.lines = lines2 /\ ~term'.closed
      /\ term'.alive = term.alive /\ term'.waiters = waiters2
  BY <1>1, <1>2, <1>4, <1>5, <1>6 DEF TermType
<1>8. /\ send' \in Seq(SendType) /\ DOMAIN send' = DOMAIN send /\ Len(send') = Len(send)
      /\ \A c \in DOMAIN send : /\ send'[c].at = send[c].at
                                /\ send[c].woken => send'[c].woken
                                /\ l.mark /\ c = l.call /\ c \in term.waiters => send'[c].woken
  <2> HIDE DEF l
  <2>1. CASE l.mark /\ l.call \in term.waiters /\ l.call \in DOMAIN send
    <3> DEFINE x == [send[l.call] EXCEPT !.woken = TRUE]
    <3>1. send' = [send EXCEPT ![l.call] = x] /\ x \in SendType /\ x.at = send[l.call].at /\ x.woken
      BY <1>1, <1>2, <2>1 DEF SendType
    <3> HIDE DEF x
    <3>2. QED
      BY <1>1, <2>1, <3>1
  <2>2. CASE ~(l.mark /\ l.call \in term.waiters /\ l.call \in DOMAIN send)
    <3>1. send' = send
      BY <1>1, <1>2, <2>2
    <3>2. QED
      BY <1>1, <2>2, <3>1
  <2>3. QED
    BY <2>1, <2>2
<1>9. ASSUME NEW c \in DOMAIN send, send'[c].at \in {"mark", "wait"}, ~send'[c].woken
      PROVE  c \in term.waiters /\ ~(l.mark /\ c = l.call) /\ c \in term'.waiters
  <2>1. c \in term.waiters
    BY <1>8, <1>9 DEF TerminalsInv
  <2>2. ~(l.mark /\ c = l.call)
    BY <1>8, <1>9, <2>1
  <2>3. QED
    BY <1>7, <2>1, <2>2 DEF waiters2
<1>10. ASSUME NEW c \in DOMAIN send, send'[c].at = "wait", ~send'[c].woken
       PROVE  Comes(term', c)
  <2>1. Comes(term, c) /\ ~(l.mark /\ c = l.call)
    BY <1>8, <1>9, <1>10 DEF TerminalsInv
  <2>2. CASE in # <<>>
    BY <1>7, <2>1, <2>2 DEF Comes, LastIs
  <2>3. CASE in = <<>> /\ term.alive
    <3>1. out[Len(out)].mark /\ out[Len(out)].call = c
      BY <1>2, <2>1, <2>3 DEF Comes, LastIs
    <3>2. Len(out) # 1
      BY <1>3, <2>1, <3>1
    <3>3. CASE Len(out) > taken
      <4> HIDE DEF taken
      <4>1. Len(out2) \in 1 .. Len(out) - taken /\ Len(out2) + taken = Len(out) /\ Len(out2) # 0
        BY <1>3, <1>4, <3>3
      <4>2. out2[Len(out2)] = out[Len(out)]
        BY <1>4, <4>1
      <4>3. out2 = <<>> => Len(out2) = 0
        OBVIOUS
      <4>4. QED
        BY <1>7, <2>3, <3>1, <4>1, <4>2, <4>3 DEF Comes, LastIs
    <3>4. CASE ~(Len(out) > taken)
      <4>1. l.glued /\ Len(out2) = 0
        <5>1. Len(out) = taken
          <6> HIDE DEF taken
          <6>1. QED
            BY <1>2, <1>3, <3>4
        <5>2. l.glued
          BY <3>2, <5>1
        <5> HIDE DEF taken
        <5>3. QED
          BY <1>3, <1>4, <5>1, <5>2
      <4>2. out2 = <<>>
        BY <1>4, <4>1
      <4>3. QED
        BY <1>5, <1>7, <2>3, <4>1, <4>2 DEF Comes
    <3>5. QED
      BY <3>3, <3>4
  <2>4. CASE ~term.alive
    BY <1>7, <2>4 DEF Comes
  <2>5. QED
    BY <2>2, <2>3, <2>4
<1>11. \A c \in DOMAIN send' : c # Len(send') => send'[c].at \in {"done", "failed", "cancelled"}
  BY <1>8 DEF TerminalsInv
<1>12. QED
  BY <1>7, <1>8, <1>9, <1>10, <1>11 DEF TerminalsInv

LEMMA EOFStep ==
    ASSUME TerminalsInv, Procs!TerminalEOF
    PROVE  TerminalsInv'
<1>1. /\ term \in TermType /\ ~term.stdin /\ term' = [term EXCEPT !.closed = TRUE, !.waiters = {}]
      /\ send' = [c \in DOMAIN send |-> IF c \in term.waiters THEN [send[c] EXCEPT !.woken = TRUE] ELSE send[c]]
  BY TermTyped DEF Procs!TerminalEOF, Procs!AtEOF
<1>2. /\ Len(send) \in Nat /\ DOMAIN send = 1 .. Len(send) /\ \A c \in DOMAIN send : send[c] \in SendType
  BY TermTyped
<1>3. term' \in TermType /\ ~term'.stdin
  BY <1>1 DEF TermType
<1>4. \A c \in DOMAIN send : /\ send'[c] \in SendType /\ send'[c].at = send[c].at
                             /\ send[c].woken => send'[c].woken
                             /\ c \in term.waiters => send'[c].woken
  BY <1>1, <1>2 DEF SendType
<1>5. DOMAIN send' = DOMAIN send /\ send' \in [1 .. Len(send) -> SendType]
  BY <1>1, <1>2, <1>4
<1>6. send' \in Seq(SendType) /\ Len(send') = Len(send)
  BY <1>2, <1>5
<1>7. \A c \in DOMAIN send' : send'[c].at \in {"mark", "wait"} => send'[c].woken
  BY <1>4, <1>5 DEF TerminalsInv
<1>8. \A c \in DOMAIN send' : c # Len(send') => send'[c].at \in {"done", "failed", "cancelled"}
  BY <1>4, <1>5, <1>6 DEF TerminalsInv
<1>9. QED
  BY <1>3, <1>6, <1>7, <1>8 DEF TerminalsInv

LEMMA SendEnd ==
    ASSUME TerminalsInv, NEW c \in DOMAIN send, Procs!SendReturns(c)
    PROVE  TerminalsInv'
<1> DEFINE lines2 == Procs!Unmarked(term.lines, c)
<1>1. /\ term \in TermType /\ term.lines \in Seq(Line) /\ (term.closed => ~term.stdin) /\ send[c] \in SendType
  BY TermTyped
<1>2. lines2 \in Seq(Line)
  BY <1>1, UnmarkedTyped
<1>3. send[c].at = "wait" /\ term' = [term EXCEPT !.waiters = @ \ {c}, !.lines = lines2]
  BY DEF Procs!SendReturns
<1> HIDE DEF lines2
<1>4. term' \in TermType /\ term'.closed = term.closed /\ term'.stdin = term.stdin
  BY <1>1, <1>2, <1>3 DEF TermType
<1>5. PICK x \in SendType : send' = [send EXCEPT ![c] = x] /\ x.at \in {"done", "cancelled"}
  <2> DEFINE told == {term.lines[i].call : i \in send[c].before + 1 .. Len(term.lines)}
  <2>1. told \in SUBSET Nat
    <3>1. send[c].before \in Nat /\ Len(term.lines) \in Nat
          /\ \A i \in 1 .. Len(term.lines) : term.lines[i] \in Line
      BY <1>1 DEF SendType
    <3>2. \A i \in send[c].before + 1 .. Len(term.lines) : term.lines[i].call \in Nat
      BY <3>1 DEF Line
    <3>3. QED
      BY <3>2
  <2>2. \/ send' = [send EXCEPT ![c].at = "done", ![c].out = told]
        \/ send' = [send EXCEPT ![c].at = "cancelled"]
    BY DEF Procs!SendReturns
  <2> HIDE DEF told
  <2>3. CASE send' = [send EXCEPT ![c].at = "done", ![c].out = told]
    <3> DEFINE x == [send[c] EXCEPT !.at = "done", !.out = told]
    <3>1. send' = [send EXCEPT ![c] = x]
      BY <2>3, TermTyped
    <3>2. x \in SendType /\ x.at = "done"
      BY <1>1, <2>1 DEF SendType
    <3>3. QED
      BY <3>1, <3>2
  <2>4. CASE send' = [send EXCEPT ![c].at = "cancelled"]
    <3> DEFINE x == [send[c] EXCEPT !.at = "cancelled"]
    <3>1. send' = [send EXCEPT ![c] = x]
      BY <2>4, TermTyped
    <3>2. x \in SendType /\ x.at = "cancelled"
      BY <1>1 DEF SendType
    <3>3. QED
      BY <3>1, <3>2
  <2>5. QED
    BY <2>2, <2>3, <2>4
<1>6. QED
  BY <1>1, <1>3, <1>4, <1>5, SendChanges

-----------------------------------------------------------------------------
LEMMA ProcessesInit == Procs!Init => ProcessesInv
<1> SUFFICES ASSUME Procs!Init PROVE ProcessesInv
  OBVIOUS
<1>1. JobsInv
  BY DEF Procs!Init, JobsInv
<1>2. ShellsInv
  BY DEF Procs!Init, ShellsInv
<1>3. TerminalsInv
  <2> DEFINE e == <<>>
  <2>1. e \in Seq(Line)
    OBVIOUS
  <2>2. Procs!NoTerm = [alive |-> FALSE, stdin |-> FALSE, closed |-> FALSE, listed |-> FALSE, in |-> e, out |-> e,
                        lines |-> e, waiters |-> {}]
    BY DEF Procs!NoTerm
  <2> HIDE DEF e
  <2>3. Procs!NoTerm \in TermType /\ ~Procs!NoTerm.closed
    BY <2>1, <2>2 DEF TermType
  <2>4. send \in Seq(SendType) /\ DOMAIN send = {} /\ term = Procs!NoTerm
    BY DEF Procs!Init
  <2>5. QED
    BY <2>3, <2>4 DEF TerminalsInv
<1>4. QED
  BY <1>1, <1>2, <1>3 DEF ProcessesInv

LEMMA ProcessesStep == ProcessesInv /\ [Procs!Next]_Procs!vars => ProcessesInv'
<1> SUFFICES ASSUME ProcessesInv, [Procs!Next]_Procs!vars PROVE ProcessesInv'
  OBVIOUS
<1>1. JobsInv /\ ShellsInv /\ TerminalsInv
  BY DEF ProcessesInv
<1>2. ASSUME UNCHANGED <<job, signalling>> PROVE JobsInv'
  BY <1>1, <1>2 DEF JobsInv
<1>3. ASSUME UNCHANGED Procs!shells PROVE ShellsInv'
  BY <1>1, <1>3 DEF ShellsInv, Procs!shells
<1>4. ASSUME UNCHANGED Procs!terminals PROVE TerminalsInv'
  BY <1>1, <1>4 DEF TerminalsInv, Procs!terminals
<1>5. CASE Procs!StartJob \/ \E j \in Procs!Jobs : \/ Procs!StartProcess(j) \/ Procs!Reap(j) \/ Procs!Kill(j)
                                                      \/ Procs!KillTree(j)
                                                   \/ \E how \in {"zero", "nonzero", "signalled"} : Procs!ProcessEnds(j, how)
  <2>1. JobsInv' /\ UNCHANGED <<Procs!shells, Procs!terminals>>
    BY <1>1, <1>5, StartStep, JobStep
  <2>2. UNCHANGED Procs!shells /\ UNCHANGED Procs!terminals
    BY <2>1
  <2>3. QED
    BY <1>3, <1>4, <2>1, <2>2 DEF ProcessesInv
<1>6. CASE Procs!ShellRun \/ Procs!ShellReset \/ (\E g \in DOMAIN shell : Procs!ShellStep(g))
           \/ \E c \in DOMAIN bash : Procs!ReadLine(c) \/ Procs!ShellReturn(c) \/ Procs!ShellCancel(c)
  <2>1. ShellsInv'
    BY <1>1, <1>6, ShellRunStep, ResetStep, ShellStepKept, ReadStep, ReturnStep
  <2>2. UNCHANGED <<job, signalling>> /\ UNCHANGED Procs!terminals
    BY <1>6 DEF Procs!ShellRun, Procs!ShellReset, Procs!ShellStep, Procs!ReadLine, Procs!ShellReturn,
       Procs!ShellCancel
  <2>3. QED
    BY <1>2, <1>4, <2>1, <2>2 DEF ProcessesInv
<1>7. CASE Procs!OpenTerminal \/ Procs!TerminalSend \/ Procs!TerminalStep \/ Procs!TerminalExit
           \/ Procs!TerminalWaited
           \/ Procs!TerminalRead \/ Procs!TerminalEOF \/ Procs!CloseTerminal
           \/ \E c \in DOMAIN send : Procs!SendText(c) \/ Procs!RegisterMarker(c) \/ Procs!WriteMarker(c)
              \/ Procs!SendReturns(c)
  <2>1. TerminalsInv'
    BY <1>1, <1>7, OpenStep, SendStart, EchoStep, ReadLoopStep, EOFStep, WriteStep, SendEnd
  <2>2. UNCHANGED <<job, signalling>> /\ UNCHANGED Procs!shells
    BY <1>7 DEF Procs!OpenTerminal, Procs!TerminalSend, Procs!TerminalStep, Procs!TerminalExit,
       Procs!TerminalWaited, Procs!TerminalRead, Procs!TerminalEOF,
                Procs!CloseTerminal, Procs!SendText, Procs!RegisterMarker, Procs!WriteMarker, Procs!SendReturns
  <2>3. QED
    BY <1>2, <1>3, <2>1, <2>2 DEF ProcessesInv
<1>8. CASE UNCHANGED Procs!vars
  <2>1. UNCHANGED <<job, signalling>> /\ UNCHANGED Procs!shells /\ UNCHANGED Procs!terminals
    BY <1>8 DEF Procs!vars, Procs!shells, Procs!terminals
  <2>2. QED
    BY <1>2, <1>3, <1>4, <2>1 DEF ProcessesInv
<1>9. QED
  BY <1>5, <1>6, <1>7, <1>8 DEF Procs!Next

(* A job is reported as its process ended, a call of the persistent shell   *)
(* reads its own output only, and a terminal call that waits is still to be *)
(* woken (jobs.go, pshell.go, terminal.go), for any number of calls.        *)
THEOREM ProcessesAreReported == Procs!Spec => []ProcessesReported
<1>1. ProcessesInv => Procs!JobOutcome /\ Procs!OwnOutput /\ Procs!MarkerWillCome
  <2> SUFFICES ASSUME ProcessesInv PROVE Procs!JobOutcome /\ Procs!OwnOutput /\ Procs!MarkerWillCome
    OBVIOUS
  <2>1. Procs!JobOutcome
    BY DEF ProcessesInv, JobsInv, Procs!JobOutcome, Procs!Jobs
  <2>2. Procs!OwnOutput
    BY DEF ProcessesInv, ShellsInv, Procs!OwnOutput
  <2>3. Procs!MarkerWillCome
    <3> SUFFICES ASSUME NEW c \in DOMAIN send, send[c].at = "wait", ~send[c].woken, term.alive
                 PROVE  /\ ~term.closed
                        /\ \/ \E i \in DOMAIN term.in : term.in[i].mark /\ term.in[i].call = c
                           \/ \E i \in DOMAIN term.out : term.out[i].mark /\ term.out[i].call = c
                           \/ \E i \in DOMAIN term.lines : term.lines[i].glued
      BY DEF Procs!MarkerWillCome, ProcessesInv, TerminalsInv
    <3>1. ~term.closed /\ Comes(term, c)
      BY DEF ProcessesInv, TerminalsInv
    <3>2. \A q \in Seq(Line) : q # <<>> => Len(q) \in DOMAIN q
      OBVIOUS
    <3>3. term.in \in Seq(Line) /\ term.out \in Seq(Line) /\ term.lines \in Seq(Line)
      BY TermTyped DEF ProcessesInv
    <3>4. QED
      BY <3>1, <3>2, <3>3 DEF Comes, LastIs
  <2>4. QED
    BY <2>1, <2>2, <2>3
<1>2. QED
  BY <1>1, ProcessesInit, ProcessesStep, PTL DEF Procs!Spec, ProcessesReported

-----------------------------------------------------------------------------
(* McpSupervisor: the swap of a tool list. *)

SwapStages == {"dial", "loop", "fetch", "swap", "register", "swapped", "down", "lost", "schedule", "giveup",
           "backoff", "failed", "started", "look", "watch", "wait", "exit", "resync"}

SwapThread == [at : SwapStages, gen : Nat, owed : Nat, defs : SUBSET Mcp!Names, new : BOOLEAN]

ThreadsInv ==
    /\ thr \in [Mcp!Threads -> SwapThread] /\ mu \in Mcp!Threads \cup {"free"}
    /\ conn \in Nat /\ dials \in Nat /\ offer \in Lists
    /\ owner \in [Mcp!Names -> {"none", "mine", "other"}] /\ disposers \subseteq Mcp!Names

(* The stages at which a thread holds s.mu across steps.                    *)
Swapping == {"register", "swapped"}

(* s.mu is held by the one thread that swaps.                               *)
SwapLockInv == \A t \in Mcp!Threads : thr[t].at \in Swapping <=> mu = t

(* What is swapped in is a list the server offered, although it may offer   *)
(* another one by now.                                                      *)
FetchedInv == \A t \in Mcp!Threads : thr[t].at \in {"swap"} \cup Swapping => thr[t].defs \in Lists

(* A swap under way has registered names of its list only, and none at all  *)
(* after a conflict.                                                        *)
PartInv ==
    \A t \in Mcp!Threads : /\ thr[t].at = "register" => disposers \subseteq thr[t].defs
                           /\ thr[t].at = "swapped" => disposers = {}

SwapInv ==
    /\ ThreadsInv /\ SwapLockInv /\ FetchedInv /\ PartInv
    /\ Mcp!Mine = disposers
    /\ mu = "free" => disposers \in Lists \cup {{}}

(* The steps, by what they do to the swap. *)

(* One thread moves on, with the list it had or the one the server offers   *)
(* now, which it must fetch before it swaps.                                *)
Moves(t, from, to) ==
    \E new \in SwapThread :
        /\ thr' = [thr EXCEPT ![t] = new]
        /\ thr[t].at \in from /\ new.at \in to
        /\ new.defs \in {thr[t].defs, offer}
        /\ new.at = "swap" => new.defs = offer
        /\ new.at \in Swapping => new.defs = thr[t].defs

Elsewhere == SwapStages \ ({"swap"} \cup Swapping)

(* The threads outside a swap.                                              *)
SwapQuiet ==
    /\ UNCHANGED <<mu, Mcp!tools>> /\ offer' \in Lists
    /\ thr' = thr \/ \E t \in Mcp!Threads : Moves(t, Elsewhere, SwapStages \ Swapping)

(* GiveUp and Close take the tools away, but not during a swap.             *)
Withdraw ==
    /\ mu = "free" /\ mu' = mu /\ Mcp!Dispose(disposers) /\ disposers' = {} /\ offer' = offer
    /\ thr' = thr \/ \E t \in Mcp!Threads : Moves(t, Elsewhere, SwapStages \ Swapping)

(* The other server takes or gives up a name.                               *)
Elsewise ==
    \E n \in Mcp!Names : /\ owner[n] # "mine" /\ \E o \in {"none", "other"} : owner' = [owner EXCEPT ![n] = o]
                         /\ UNCHANGED <<mu, thr, disposers, offer>>

(* A frame that returns ends outside a swap.                                *)
LEMMA ReturnMoves ==
    ASSUME ThreadsInv, NEW t \in Mcp!Threads, NEW from, thr[t].at \in from, NEW levels \in Nat, Mcp!Returned(t, levels)
    PROVE  Moves(t, from, SwapStages \ Swapping)
<1> DEFINE rest == IF levels > 0 THEN levels - 1 ELSE 0
           at == IF levels = 1 /\ t = "start" /\ FailOnStartup THEN "failed"
                 ELSE IF levels > 0 THEN "schedule"
                 ELSE IF t = "start" THEN "started"
                 ELSE "loop"
           new == [thr[t] EXCEPT !.owed = rest, !.at = at]
<1>1. rest \in Nat /\ at \in {"failed", "schedule", "started", "loop"}
  OBVIOUS
<1>2. thr' = [thr EXCEPT ![t].owed = rest, ![t].at = at] /\ thr[t] \in SwapThread
  BY DEF Mcp!Returned, ThreadsInv
<1> HIDE DEF rest, at
<1>3. new \in SwapThread /\ new.at = at /\ new.defs = thr[t].defs
  BY <1>1, <1>2 DEF SwapThread, SwapStages
<1>4. thr' = [thr EXCEPT ![t] = new]
  BY <1>2 DEF ThreadsInv
<1> HIDE DEF new
<1>5. QED
  BY <1>1, <1>3, <1>4 DEF Moves, SwapStages, Swapping

(* So does a thread that only changes its place.                            *)
LEMMA ThreadGoes ==
    ASSUME ThreadsInv, NEW t \in Mcp!Threads, NEW from, thr[t].at \in from, NEW to, NEW at \in SwapStages,
           at \in to, at \notin {"swap"}, Mcp!Go(t, at)
    PROVE  Moves(t, from, to)
<1> DEFINE new == [thr[t] EXCEPT !.at = at]
<1>1. thr[t] \in SwapThread /\ thr' = [thr EXCEPT ![t] = new]
  BY DEF ThreadsInv, Mcp!Go
<1>2. new \in SwapThread /\ new.at = at /\ new.defs = thr[t].defs
  BY <1>1 DEF SwapThread
<1> HIDE DEF new
<1>3. QED
  BY <1>1, <1>2 DEF Moves

(* And one that fetches the list, or takes up another connection.           *)
LEMMA SetMoves ==
    ASSUME ThreadsInv, NEW t \in Mcp!Threads, NEW from, thr[t].at \in from, NEW at \in SwapStages \ Swapping,
           NEW gen \in Nat, NEW defs \in {thr[t].defs, offer}, at = "swap" => defs = offer, NEW new \in BOOLEAN,
           thr' = [thr EXCEPT ![t] = [thr[t] EXCEPT !.at = at, !.gen = gen, !.defs = defs, !.new = new]]
    PROVE  Moves(t, from, SwapStages \ Swapping)
<1> DEFINE next == [thr[t] EXCEPT !.at = at, !.gen = gen, !.defs = defs, !.new = new]
<1>1. thr[t] \in SwapThread /\ offer \subseteq Mcp!Names
  BY DEF ThreadsInv, Mcp!Names
<1>2. defs \in SUBSET Mcp!Names
  BY <1>1 DEF SwapThread
<1>3. next \in SwapThread /\ next.at = at /\ next.defs = defs
  BY <1>1, <1>2 DEF SwapThread
<1> HIDE DEF next
<1>4. thr' = [thr EXCEPT ![t] = next]
  BY DEF next
<1>5. QED
  BY <1>3, <1>4 DEF Moves

(* Every step is of one of these kinds. *)

Counted == conn' \in Nat /\ dials' \in Nat

(* Connecting, losing a connection, and scheduling the next attempt.        *)
LEMMA ConnectSteps ==
    ASSUME ThreadsInv, NEW t \in Mcp!Threads,
           \/ Mcp!DialFails(t) \/ Mcp!Dial(t) \/ Mcp!Fetch(t) \/ Mcp!FetchFails(t) \/ Mcp!GenerationDown(t)
           \/ Mcp!ScheduleReconnect(t) \/ Mcp!Backoff(t)
    PROVE  SwapQuiet /\ Counted
<1> thr[t] \in SwapThread /\ conn \in Nat /\ dials \in Nat /\ offer \in Lists
  BY DEF ThreadsInv
<1> thr[t].owed \in Nat /\ thr[t].gen \in Nat /\ thr[t].new \in BOOLEAN
  BY DEF SwapThread
<1>q. ASSUME Moves(t, Elsewhere, SwapStages \ Swapping), UNCHANGED <<mu, Mcp!tools, offer>> PROVE SwapQuiet
  BY <1>q DEF SwapQuiet
<1> USE DEF Mcp!At, Mcp!remote, SwapStages, Swapping
<1>1. CASE Mcp!DialFails(t)
  <2>1. thr[t].at \in Elsewhere /\ Mcp!Returned(t, thr[t].owed + 1)
    BY <1>1 DEF Mcp!DialFails, Mcp!ReturnError, Elsewhere
  <2>2. Moves(t, Elsewhere, SwapStages \ Swapping)
    BY <2>1, ReturnMoves
  <2>3. QED
    BY <1>1, <1>q, <2>2 DEF Mcp!DialFails, Counted
<1>2. CASE Mcp!Dial(t)
  <2>1. thr[t].at \in Elsewhere /\ dials + 1 \in Nat
    BY <1>2 DEF Mcp!Dial, Elsewhere
  <2>2. thr' =
                  [thr EXCEPT ![t] = [thr[t] EXCEPT !.at = "fetch", !.gen = dials + 1, !.defs = thr[t].defs,
                                                    !.new = thr[t].new]]
    BY <1>2 DEF Mcp!Dial, ThreadsInv, SwapThread
  <2>3. Moves(t, Elsewhere, SwapStages \ Swapping)
    BY <2>1, <2>2, SetMoves
  <2>4. QED
    BY <1>2, <1>q, <2>1, <2>3 DEF Mcp!Dial, Counted
<1>3. CASE Mcp!Fetch(t)
  <2>1. thr[t].at \in Elsewhere
    BY <1>3 DEF Mcp!Fetch, Elsewhere
  <2>2. thr' = [thr EXCEPT ![t] = [thr[t] EXCEPT !.at = "swap", !.gen = thr[t].gen, !.defs = offer, !.new = TRUE]]
    BY <1>3 DEF Mcp!Fetch, ThreadsInv, SwapThread
  <2>3. Moves(t, Elsewhere, SwapStages \ Swapping)
    BY <2>1, <2>2, SetMoves
  <2>4. QED
    BY <1>3, <1>q, <2>3 DEF Mcp!Fetch, Counted
<1>4. CASE Mcp!FetchFails(t)
  <2>1. thr[t].at \in Elsewhere /\ Mcp!Go(t, "down")
    BY <1>4 DEF Mcp!FetchFails, Elsewhere
  <2>2. Moves(t, Elsewhere, SwapStages \ Swapping)
    BY <2>1, ThreadGoes
  <2>3. QED
    BY <1>4, <1>q, <2>2 DEF Mcp!FetchFails, Counted
<1>5. CASE Mcp!GenerationDown(t)
  <2> DEFINE levels == thr[t].owed + (IF Mcp!At(t, "down") THEN 1 ELSE 0)
  <2>1. thr[t].at \in Elsewhere /\ levels \in Nat
    BY <1>5 DEF Mcp!GenerationDown, Elsewhere
  <2>2. CASE Mcp!Returned(t, levels) /\ UNCHANGED <<conn, connSet>>
    <3> HIDE DEF levels
    <3>1. Moves(t, Elsewhere, SwapStages \ Swapping)
      BY <2>1, <2>2, ReturnMoves
    <3>2. QED
      BY <1>5, <1>q, <2>2, <3>1 DEF Mcp!GenerationDown, Counted
  <2>3. CASE conn' = 0 /\ thr' = [thr EXCEPT ![t].at = "schedule", ![t].owed = levels]
    <3> DEFINE new == [thr[t] EXCEPT !.at = "schedule", !.owed = levels]
    <3> HIDE DEF levels
    <3>1. thr' = [thr EXCEPT ![t] = new]
      BY <2>3 DEF ThreadsInv
    <3>2. new \in SwapThread /\ new.at = "schedule" /\ new.defs = thr[t].defs
      BY <2>1 DEF SwapThread
    <3> HIDE DEF new
    <3>3. Moves(t, Elsewhere, SwapStages \ Swapping)
      BY <2>1, <3>1, <3>2 DEF Moves
    <3>4. QED
      BY <1>5, <1>q, <2>3, <3>3 DEF Mcp!GenerationDown, Counted
  <2>4. QED
    BY <1>5, <2>2, <2>3 DEF Mcp!GenerationDown
<1>6. CASE Mcp!ScheduleReconnect(t)
  <2>1. thr[t].at \in Elsewhere
    BY <1>6 DEF Mcp!ScheduleReconnect, Elsewhere
  <2>2. Mcp!Returned(t, thr[t].owed) \/ Mcp!Go(t, "giveup") \/ Mcp!Go(t, "backoff")
    BY <1>6 DEF Mcp!ScheduleReconnect, Mcp!Return
  <2>3. Moves(t, Elsewhere, SwapStages \ Swapping)
    BY <2>1, <2>2, ReturnMoves, ThreadGoes
  <2>4. QED
    BY <1>6, <1>q, <2>3 DEF Mcp!ScheduleReconnect, Counted
<1>7. CASE Mcp!Backoff(t)
  <2>1. thr[t].at \in Elsewhere
    BY <1>7 DEF Mcp!Backoff, Elsewhere
  <2>2. Mcp!Returned(t, thr[t].owed) \/ Mcp!Go(t, "dial")
    BY <1>7 DEF Mcp!Backoff, Mcp!Return
  <2>3. Moves(t, Elsewhere, SwapStages \ Swapping)
    BY <2>1, <2>2, ReturnMoves, ThreadGoes
  <2>4. QED
    BY <1>7, <1>q, <2>3 DEF Mcp!Backoff, Counted
<1>8. QED
  BY <1>1, <1>2, <1>3, <1>4, <1>5, <1>6, <1>7

(* The goroutine that watches the connection.                               *)
LEMMA RunSteps ==
    ASSUME ThreadsInv,
           Mcp!RunLook \/ Mcp!RunSnapshot \/ Mcp!RunWake \/ Mcp!RunLost \/ Mcp!RunStop \/ Mcp!HandleNotify
           \/ Mcp!SyncGeneration
    PROVE  SwapQuiet /\ Counted
<1> "run" \in Mcp!Threads
  BY DEF Mcp!Threads
<1> thr["run"] \in SwapThread /\ conn \in Nat /\ dials \in Nat /\ offer \in Lists
  BY DEF ThreadsInv
<1> thr["run"].gen \in Nat /\ thr["run"].new \in BOOLEAN
  BY DEF SwapThread
<1>q. ASSUME Moves("run", Elsewhere, SwapStages \ Swapping), UNCHANGED <<mu, Mcp!tools, offer, conn, dials>>
      PROVE  SwapQuiet /\ Counted
  BY <1>q DEF SwapQuiet, Counted
<1>g. ASSUME thr["run"].at \in Elsewhere, NEW at \in SwapStages \ (Swapping \cup {"swap"}), Mcp!Go("run", at)
      PROVE  Moves("run", Elsewhere, SwapStages \ Swapping)
  BY <1>g, ThreadGoes
<1> USE DEF Mcp!At, Mcp!remote, SwapStages, Swapping
<1>1. CASE Mcp!RunLook
  <2> DEFINE at == IF closed THEN "exit" ELSE IF conn = 0 THEN "look" ELSE "watch"
  <2>1. thr["run"].at \in Elsewhere /\ at \in SwapStages \ Swapping /\ at # "swap"
    BY <1>1 DEF Mcp!RunLook, Elsewhere
  <2>2. thr' =
                  [thr EXCEPT !["run"] = [thr["run"] EXCEPT !.at = at, !.gen = conn, !.defs = thr["run"].defs,
                                                            !.new = FALSE]]
    BY <1>1 DEF Mcp!RunLook, ThreadsInv, SwapThread
  <2> HIDE DEF at
  <2>3. Moves("run", Elsewhere, SwapStages \ Swapping)
    BY <2>1, <2>2, SetMoves
  <2>4. QED
    BY <1>1, <1>q, <2>3 DEF Mcp!RunLook
<1>2. CASE Mcp!RunSnapshot
  BY <1>2, <1>g, <1>q DEF Mcp!RunSnapshot, Elsewhere
<1>3. CASE Mcp!RunWake
  <2>1. thr["run"].at \in Elsewhere /\ (Mcp!Go("run", "exit") \/ Mcp!Go("run", "loop"))
    BY <1>3 DEF Mcp!RunWake, Elsewhere
  <2>2. QED
    BY <1>3, <2>1, <1>g, <1>q DEF Mcp!RunWake
<1>4. CASE Mcp!RunLost
  <2>1. thr["run"].at \in Elsewhere /\ (Mcp!Go("run", "lost") \/ Mcp!Go("run", "loop"))
    BY <1>4 DEF Mcp!RunLost, Elsewhere
  <2>2. QED
    BY <1>4, <2>1, <1>g, <1>q DEF Mcp!RunLost
<1>5. CASE Mcp!RunStop
  BY <1>5, <1>g, <1>q DEF Mcp!RunStop, Elsewhere
<1>6. CASE Mcp!HandleNotify
  <2> DEFINE at == IF conn = 0 THEN "loop" ELSE "resync"
  <2>1. thr["run"].at \in Elsewhere /\ at \in SwapStages \ Swapping /\ at # "swap"
    BY <1>6 DEF Mcp!HandleNotify, Elsewhere
  <2>2. thr' = [thr EXCEPT !["run"] = [thr["run"] EXCEPT !.at = at, !.gen = conn, !.defs = thr["run"].defs,
                                                         !.new = thr["run"].new]]
    BY <1>6 DEF Mcp!HandleNotify, ThreadsInv, SwapThread
  <2> HIDE DEF at
  <2>3. Moves("run", Elsewhere, SwapStages \ Swapping)
    BY <2>1, <2>2, SetMoves
  <2>4. QED
    BY <1>6, <1>q, <2>3 DEF Mcp!HandleNotify
<1>7. CASE Mcp!SyncGeneration
  <2>1. thr["run"].at \in Elsewhere
    BY <1>7 DEF Mcp!SyncGeneration, Elsewhere
  <2>2. CASE thr' = [thr EXCEPT !["run"].at = "swap", !["run"].defs = offer]
    <3>1. thr' = [thr EXCEPT !["run"] = [thr["run"] EXCEPT !.at = "swap", !.gen = thr["run"].gen, !.defs = offer,
                                                           !.new = thr["run"].new]]
      BY <2>2 DEF ThreadsInv, SwapThread
    <3>2. Moves("run", Elsewhere, SwapStages \ Swapping)
      BY <2>1, <3>1, SetMoves
    <3>3. QED
      BY <1>7, <1>q, <3>2 DEF Mcp!SyncGeneration
  <2>3. CASE Mcp!Go("run", "loop")
    BY <1>7, <2>1, <2>3, <1>g, <1>q DEF Mcp!SyncGeneration
  <2>4. QED
    BY <1>7, <2>2, <2>3 DEF Mcp!SyncGeneration
<1>8. QED
  BY <1>1, <1>2, <1>3, <1>4, <1>5, <1>6, <1>7

(* Giving up and closing.                                                   *)
LEMMA WithdrawSteps ==
    ASSUME ThreadsInv, (\E t \in Mcp!Threads : Mcp!GiveUp(t)) \/ Mcp!Close
    PROVE  Withdraw /\ Counted
<1>1. ASSUME NEW t \in Mcp!Threads, Mcp!GiveUp(t) PROVE Withdraw /\ Counted
  <2>1. thr[t].at \in Elsewhere /\ Mcp!Returned(t, thr[t].owed)
    BY <1>1 DEF Mcp!GiveUp, Mcp!Return, Mcp!At, Elsewhere, SwapStages, Swapping
  <2>2. thr[t].owed \in Nat
    BY DEF ThreadsInv, SwapThread
  <2>3. Moves(t, Elsewhere, SwapStages \ Swapping)
    BY <2>1, <2>2, ReturnMoves
  <2>4. QED
    BY <1>1, <2>3 DEF Mcp!GiveUp, Withdraw, Counted, Mcp!remote, ThreadsInv
<1>2. CASE Mcp!Close
  BY <1>2 DEF Mcp!Close, Withdraw, Counted, ThreadsInv
<1>3. QED
  BY <1>1, <1>2

(* The world.                                                               *)
LEMMA WorldSteps ==
    ASSUME ThreadsInv,
           Mcp!CloseEnd \/ (\E c \in up : Mcp!PeerGone(c)) \/ (\E l \in Lists : Mcp!ListChanged(l)) \/ Mcp!Stabilise
       \/ UNCHANGED Mcp!vars
    PROVE  SwapQuiet /\ Counted
<1> USE DEF ThreadsInv, SwapQuiet, Counted, Mcp!remote
<1>1. CASE Mcp!CloseEnd
  BY <1>1 DEF Mcp!CloseEnd
<1>2. CASE \E c \in up : Mcp!PeerGone(c)
  BY <1>2 DEF Mcp!PeerGone
<1>3. CASE \E l \in Lists : Mcp!ListChanged(l)
  BY <1>3 DEF Mcp!ListChanged
<1>4. CASE Mcp!Stabilise
  BY <1>4 DEF Mcp!Stabilise
<1>5. CASE UNCHANGED Mcp!vars
  BY <1>5 DEF Mcp!vars, Mcp!tools
<1>6. QED
  BY <1>1, <1>2, <1>3, <1>4, <1>5

(* Each kind of step keeps the invariant. *)

(* A thread that moves leaves the others where they were.                   *)
LEMMA OthersStay ==
    ASSUME ThreadsInv, NEW t \in Mcp!Threads, NEW from, NEW to, Moves(t, from, to)
    PROVE  /\ thr' \in [Mcp!Threads -> SwapThread]
           /\ \A u \in Mcp!Threads \ {t} : thr'[u] = thr[u]
           /\ thr[t].at \in from /\ thr'[t].at \in to
           /\ thr'[t].at = "swap" => thr'[t].defs = offer
           /\ thr'[t].at \in Swapping => thr'[t].defs = thr[t].defs
  BY DEF ThreadsInv, Moves

(* What is disposed of is no longer this supervisor's, and nothing else     *)
(* becomes so.                                                              *)
LEMMA DisposesAll ==
    ASSUME ThreadsInv, Mcp!Mine = disposers, Mcp!Dispose(disposers)
    PROVE  Mcp!Mine' = {} /\ owner' \in [Mcp!Names -> {"none", "mine", "other"}]
  BY DEF ThreadsInv, Mcp!Mine, Mcp!Dispose

LEMMA OnlyThreads == "free" \notin Mcp!Threads
  BY DEF Mcp!Threads

(* The threads that start or end outside a swap keep what the invariant     *)
(* says of the swap.                                                        *)
LEMMA ThreadsKeep ==
    ASSUME SwapInv, offer' \in Lists, mu' = mu,
           thr' = thr \/ \E t \in Mcp!Threads : Moves(t, Elsewhere, SwapStages \ Swapping),
           disposers' = disposers \/ mu = "free"
    PROVE  thr' \in [Mcp!Threads -> SwapThread] /\ SwapLockInv' /\ FetchedInv' /\ PartInv'
<1>1. CASE thr' = thr
  <2>1. thr' \in [Mcp!Threads -> SwapThread] /\ SwapLockInv' /\ FetchedInv'
    BY <1>1 DEF SwapInv, ThreadsInv, SwapLockInv, FetchedInv
  <2>2. PartInv'
    BY <1>1, OnlyThreads DEF SwapInv, SwapLockInv, PartInv, Swapping
  <2>3. QED
    BY <2>1, <2>2
<1>2. ASSUME NEW t \in Mcp!Threads, Moves(t, Elsewhere, SwapStages \ Swapping)
      PROVE  thr' \in [Mcp!Threads -> SwapThread] /\ SwapLockInv' /\ FetchedInv' /\ PartInv'
  <2>1. /\ thr' \in [Mcp!Threads -> SwapThread]
        /\ \A u \in Mcp!Threads \ {t} : thr'[u] = thr[u]
        /\ thr[t].at \notin {"swap"} \cup Swapping /\ thr'[t].at \notin Swapping
        /\ thr'[t].at = "swap" => thr'[t].defs = offer
    BY <1>2, OthersStay DEF SwapInv, Elsewhere
  <2>2. SwapLockInv'
    BY <2>1 DEF SwapInv, SwapLockInv
  <2>3. FetchedInv'
    BY <2>1 DEF SwapInv, FetchedInv, ThreadsInv
  <2>4. PartInv'
    BY <2>1, OnlyThreads DEF SwapInv, SwapLockInv, PartInv, Swapping
  <2>5. QED
    BY <2>1, <2>2, <2>3, <2>4
<1>3. QED
  BY <1>1, <1>2

LEMMA QuietKeeps ==
    ASSUME SwapInv, SwapQuiet, Counted
    PROVE  SwapInv'
<1>1. thr' \in [Mcp!Threads -> SwapThread] /\ SwapLockInv' /\ FetchedInv' /\ PartInv'
  BY ThreadsKeep DEF SwapQuiet, Mcp!tools
<1>2. ThreadsInv'
  BY <1>1 DEF SwapInv, ThreadsInv, SwapQuiet, Counted, Mcp!tools
<1>3. Mcp!Mine' = disposers' /\ (mu' = "free" => disposers' \in Lists \cup {{}})
  BY DEF SwapInv, SwapQuiet, Mcp!tools, Mcp!Mine
<1>4. QED
  BY <1>1, <1>2, <1>3 DEF SwapInv

LEMMA WithdrawKeeps ==
    ASSUME SwapInv, Withdraw, Counted
    PROVE  SwapInv'
<1>1. thr' \in [Mcp!Threads -> SwapThread] /\ SwapLockInv' /\ FetchedInv' /\ PartInv'
  BY ThreadsKeep DEF Withdraw, SwapInv, ThreadsInv
<1>2. Mcp!Mine' = {} /\ owner' \in [Mcp!Names -> {"none", "mine", "other"}]
  BY DisposesAll DEF SwapInv, Withdraw
<1>3. ThreadsInv'
  BY <1>1, <1>2 DEF SwapInv, ThreadsInv, Withdraw, Counted
<1>4. QED
  BY <1>1, <1>2, <1>3 DEF SwapInv, Withdraw

LEMMA ElsewiseKeeps ==
    ASSUME SwapInv, Elsewise, Counted
    PROVE  SwapInv'
<1>1. Mcp!Mine' = Mcp!Mine
  BY DEF SwapInv, ThreadsInv, Elsewise, Mcp!Mine
<1>2. ThreadsInv'
  BY DEF SwapInv, ThreadsInv, Elsewise, Counted
<1>3. SwapLockInv' /\ FetchedInv' /\ PartInv'
  BY DEF SwapInv, Elsewise, SwapLockInv, FetchedInv, PartInv
<1>4. QED
  BY <1>1, <1>2, <1>3 DEF SwapInv, Elsewise

(* s.mu is taken: the previous generation goes.                             *)
LEMMA SwapBeginKeeps ==
    ASSUME SwapInv, NEW t \in Mcp!Threads, Mcp!SwapBegin(t)
    PROVE  SwapInv'
<1>1. Moves(t, {"swap"}, {"register"})
  BY ThreadGoes DEF Mcp!SwapBegin, SwapInv, Mcp!At, SwapStages
<1>2. /\ thr' \in [Mcp!Threads -> SwapThread]
      /\ \A u \in Mcp!Threads \ {t} : thr'[u] = thr[u]
      /\ thr[t].at = "swap" /\ thr'[t].at = "register"
      /\ thr'[t].defs = thr[t].defs
  BY <1>1, OthersStay DEF SwapInv, Swapping
<1>3. mu = "free" /\ mu' = t /\ disposers' = {}
  BY DEF Mcp!SwapBegin
<1>4. Mcp!Mine' = {} /\ owner' \in [Mcp!Names -> {"none", "mine", "other"}]
  BY DisposesAll DEF SwapInv, Mcp!SwapBegin
<1>5. ThreadsInv'
  BY <1>2, <1>3, <1>4 DEF SwapInv, ThreadsInv, Mcp!SwapBegin, Mcp!remote
<1>6. \A u \in Mcp!Threads \ {t} : thr'[u].at \notin Swapping
  BY <1>2, <1>3, OnlyThreads DEF SwapInv, SwapLockInv
<1>7. SwapLockInv'
  BY <1>2, <1>3, <1>6 DEF SwapLockInv, Swapping
<1>8. FetchedInv'
  BY <1>2 DEF SwapInv, FetchedInv
<1>9. PartInv'
  BY <1>2, <1>3 DEF PartInv
<1>10. QED
  BY <1>3, <1>4, <1>5, <1>7, <1>8, <1>9, OnlyThreads DEF SwapInv

(* The thread that swaps holds s.mu, and is the only one.                   *)
LEMMA SwapsAlone ==
    ASSUME SwapInv, NEW t \in Mcp!Threads, thr[t].at \in Swapping
    PROVE  mu = t /\ \A u \in Mcp!Threads \ {t} : thr[u].at \notin Swapping
  BY DEF SwapInv, SwapLockInv

(* One more name of the list.                                               *)
LEMMA SwapRegisterKeeps ==
    ASSUME SwapInv, NEW t \in Mcp!Threads, NEW n \in Mcp!Names, Mcp!SwapRegister(t, n)
    PROVE  SwapInv'
<1>1. mu = t /\ \A u \in Mcp!Threads \ {t} : thr[u].at \notin Swapping
  BY SwapsAlone DEF Mcp!SwapRegister, Mcp!At, Swapping
<1>2. thr' = thr /\ mu' = mu /\ disposers' = disposers \cup {n} /\ n \in thr[t].defs
      /\ owner' = [owner EXCEPT ![n] = "mine"] /\ conn' = conn /\ dials' = dials /\ offer' = offer
  BY DEF Mcp!SwapRegister, Mcp!remote
<1>3. ThreadsInv'
  BY <1>2 DEF SwapInv, ThreadsInv
<1>4. SwapLockInv' /\ FetchedInv'
  BY <1>2 DEF SwapInv, SwapLockInv, FetchedInv
<1>5. PartInv'
  BY <1>1, <1>2 DEF SwapInv, PartInv, Swapping, Mcp!SwapRegister, Mcp!At
<1>6. Mcp!Mine' = disposers'
  BY <1>2 DEF SwapInv, ThreadsInv, Mcp!Mine
<1>7. QED
  BY <1>1, <1>2, <1>3, <1>4, <1>5, <1>6, OnlyThreads DEF SwapInv

(* A name that is taken: what was registered goes.                          *)
LEMMA ConflictRollsBack ==
    ASSUME SwapInv, NEW t \in Mcp!Threads, Mcp!SwapConflict(t)
    PROVE  SwapInv'
<1>1. mu = t /\ \A u \in Mcp!Threads \ {t} : thr[u].at \notin Swapping
  BY SwapsAlone DEF Mcp!SwapConflict, Mcp!At, Swapping
<1>2. Moves(t, {"register"}, {"swapped"})
  BY ThreadGoes DEF Mcp!SwapConflict, SwapInv, Mcp!At, SwapStages
<1>3. /\ thr' \in [Mcp!Threads -> SwapThread]
      /\ \A u \in Mcp!Threads \ {t} : thr'[u] = thr[u]
      /\ thr[t].at = "register" /\ thr'[t].at = "swapped"
      /\ thr'[t].defs = thr[t].defs
  BY <1>2, OthersStay DEF SwapInv, Swapping
<1>4. mu' = mu /\ disposers' = {}
  BY DEF Mcp!SwapConflict
<1>5. Mcp!Mine' = {} /\ owner' \in [Mcp!Names -> {"none", "mine", "other"}]
  BY DisposesAll DEF SwapInv, Mcp!SwapConflict
<1>6. ThreadsInv'
  BY <1>3, <1>4, <1>5 DEF SwapInv, ThreadsInv, Mcp!SwapConflict, Mcp!remote
<1>7. SwapLockInv'
  BY <1>1, <1>3, <1>4 DEF SwapLockInv, Swapping
<1>8. FetchedInv'
  BY <1>3 DEF SwapInv, FetchedInv, Swapping
<1>9. PartInv'
  BY <1>3, <1>4 DEF PartInv
<1>10. QED
  BY <1>4, <1>5, <1>6, <1>7, <1>8, <1>9 DEF SwapInv

(* s.mu is released with the whole list registered, or with nothing.        *)
LEMMA SwapEndKeeps ==
    ASSUME SwapInv, NEW t \in Mcp!Threads, Mcp!SwapEnd(t)
    PROVE  SwapInv'
<1>1. thr[t].at \in Swapping
  BY DEF Mcp!SwapEnd, Mcp!At, Swapping
<1>2. mu = t /\ \A u \in Mcp!Threads \ {t} : thr[u].at \notin Swapping
  BY <1>1, SwapsAlone
<1>3. Mcp!Returned(t, thr[t].owed) /\ thr[t].owed \in Nat
  BY DEF Mcp!SwapEnd, Mcp!Return, SwapInv, ThreadsInv, SwapThread
<1>4. Moves(t, Swapping, SwapStages \ Swapping)
  BY <1>1, <1>3, ReturnMoves DEF SwapInv
<1>5. /\ thr' \in [Mcp!Threads -> SwapThread]
      /\ \A u \in Mcp!Threads \ {t} : thr'[u] = thr[u]
      /\ thr'[t].at \notin Swapping
      /\ thr'[t].at = "swap" => thr'[t].defs = offer
  BY <1>4, OthersStay DEF SwapInv
<1>6. mu' = "free" /\ disposers' = disposers /\ owner' = owner /\ offer' = offer /\ conn' = conn /\ dials' = dials
  BY DEF Mcp!SwapEnd, Mcp!tools, Mcp!remote
<1>7. ThreadsInv'
  BY <1>5, <1>6 DEF SwapInv, ThreadsInv
<1>8. SwapLockInv'
  BY <1>2, <1>5, <1>6, OnlyThreads DEF SwapLockInv
<1>9. FetchedInv'
  BY <1>5, <1>6 DEF SwapInv, FetchedInv, ThreadsInv
<1>10. PartInv'
  BY <1>2, <1>5 DEF PartInv, Swapping
<1>11. Mcp!Mine' = disposers'
  BY <1>6 DEF SwapInv, Mcp!Mine
<1>12. disposers' \in Lists \cup {{}}
  BY <1>6 DEF Mcp!SwapEnd, Mcp!At, SwapInv, PartInv, FetchedInv, Swapping
<1>13. QED
  BY <1>7, <1>8, <1>9, <1>10, <1>11, <1>12 DEF SwapInv

(* The theorem. *)

LEMMA SwapInit == Mcp!Init => SwapInv
<1> SUFFICES ASSUME Mcp!Init PROVE SwapInv
  OBVIOUS
<1>1. ThreadsInv
  BY DEF Mcp!Init, ThreadsInv, SwapThread, SwapStages, Mcp!Threads
<1>2. SwapLockInv /\ FetchedInv /\ PartInv
  BY OnlyThreads DEF Mcp!Init, SwapLockInv, FetchedInv, PartInv, Swapping
<1>3. Mcp!Mine = disposers /\ disposers = {}
  BY DEF Mcp!Init, Mcp!Mine
<1>4. QED
  BY <1>1, <1>2, <1>3 DEF SwapInv

LEMMA SwapKept == SwapInv /\ [Mcp!Next]_(Mcp!vars) => SwapInv'
<1> SUFFICES ASSUME SwapInv, [Mcp!Next]_(Mcp!vars) PROVE SwapInv'
  OBVIOUS
<1> ThreadsInv
  BY DEF SwapInv
<1>1. ASSUME NEW t \in Mcp!Threads,
             \/ Mcp!DialFails(t) \/ Mcp!Dial(t) \/ Mcp!Fetch(t) \/ Mcp!FetchFails(t) \/ Mcp!GenerationDown(t)
             \/ Mcp!ScheduleReconnect(t) \/ Mcp!Backoff(t)
      PROVE  SwapInv'
  BY <1>1, ConnectSteps, QuietKeeps
<1>2. ASSUME NEW t \in Mcp!Threads, Mcp!GiveUp(t) PROVE SwapInv'
  BY <1>2, WithdrawSteps, WithdrawKeeps
<1>3. ASSUME NEW t \in Mcp!Threads, Mcp!SwapBegin(t) \/ Mcp!SwapConflict(t) \/ Mcp!SwapEnd(t) PROVE SwapInv'
  BY <1>3, SwapBeginKeeps, ConflictRollsBack, SwapEndKeeps
<1>4. ASSUME NEW t \in Mcp!Threads, NEW n \in Mcp!Names, Mcp!SwapRegister(t, n) PROVE SwapInv'
  BY <1>4, SwapRegisterKeeps
<1>5. CASE Mcp!RunLook \/ Mcp!RunSnapshot \/ Mcp!RunWake \/ Mcp!RunLost \/ Mcp!RunStop \/ Mcp!HandleNotify
       \/ Mcp!SyncGeneration
  BY <1>5, RunSteps, QuietKeeps
<1>6. CASE Mcp!Close
  BY <1>6, WithdrawSteps, WithdrawKeeps
<1>7. CASE \/ Mcp!CloseEnd \/ (\E c \in up : Mcp!PeerGone(c)) \/ (\E l \in Lists : Mcp!ListChanged(l))
           \/ Mcp!Stabilise \/ UNCHANGED Mcp!vars
  BY <1>7, WorldSteps, QuietKeeps
<1>8. ASSUME NEW n \in Shared, Mcp!Other(n) PROVE SwapInv'
  <2>1. n \in Mcp!Names
    BY DEF Mcp!Names
  <2>2. \E o \in {"none", "other"} : owner' = [owner EXCEPT ![n] = o]
    BY <1>8 DEF Mcp!Other
  <2>3. Elsewise /\ Counted
    BY <1>8, <2>1, <2>2 DEF Mcp!Other, Elsewise, Counted, ThreadsInv, Mcp!remote
  <2>4. QED
    BY <2>3, ElsewiseKeeps
<1>9. QED
  BY <1>1, <1>2, <1>3, <1>4, <1>5, <1>6, <1>7, <1>8 DEF Mcp!Next

LEMMA SwapsStayWhole == Mcp!Spec => []SwapInv
  BY SwapInit, SwapKept, PTL DEF Mcp!Spec

(* Whenever no swap is under way, the tool registry holds one whole tool    *)
(* list of the server or none of it, and exactly the names the supervisor   *)
(* can dispose of: swapGeneration of bridge.go against reconnects, resyncs, *)
(* give-up, Close, and another server that registers the same names.        *)
THEOREM ToolListsAreWhole == Mcp!Spec => []WholeGeneration
<1>1. SwapInv => WholeGeneration
  BY DEF SwapInv, WholeGeneration, Mcp!WholeGeneration
<1>2. QED
  BY <1>1, SwapsStayWhole, PTL

-----------------------------------------------------------------------------
(* ToolPipeline: the theorem of its proof module, about the names of         *)
(* Services.                                                                 *)

Judged == INSTANCE ToolPipeline_proofs WITH Sessions <- PolicySessions, MaxCalls <- MaxToolCalls

(* A tool call runs only if a policy in force since it began admits it      *)
(* (the pipeline of tools/pipeline.go).                                     *)
THEOREM ToolsRunAsPermitted == Judged!Spec => []RunsAsPermitted
<1>1. Judged!RunsAsPermitted <=> RunsAsPermitted
  BY DEF RunsAsPermitted, Pipeline!RunsAsPermitted, Judged!RunsAsPermitted,
         Pipeline!Calls, Judged!Calls, Pipeline!Admits, Judged!Admits, Pipeline!Allowed, Judged!Allowed,
         Pipeline!Edits, Judged!Edits, Pipeline!Destructive, Judged!Destructive,
         Pipeline!RequiresPerm, Judged!RequiresPerm
<1>2. QED
  BY <1>1, Judged!PolicyGovernsCalls, PTL
==============================================================================
