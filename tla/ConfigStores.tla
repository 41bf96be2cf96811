----------------------------- MODULE ConfigStores -----------------------------
(***************************************************************************)
(* What the gateway keeps of its configuration: the settings manager and   *)
(* its YAML file (pkg/settings), the credential file (pkg/credential), the *)
(* feedback store (pkg/feedback), and the provider RPCs of http_router.go, *)
(* which read, change and apply the "provider" section in several steps.   *)
(*                                                                         *)
(* The section is a record [active, prof]; a profile is one of Vals, 0 for *)
(* none.  A settings write holds the manager's lock from the check of the  *)
(* revision to the rename of the temporary file, so it is one step; a      *)
(* crash leaves either the old or the new file.                            *)
(***************************************************************************)
EXTENDS Naturals, Sequences, FiniteSets

CONSTANTS
    Clients,    \* callers of settings.describe / settings.mutate / feedback.*
    Requests,   \* provider RPCs, each made once
    Ids,        \* provider ids
    Vals,       \* profiles and keys: positive numbers
    Kinds,      \* which provider RPCs happen
    MaxWrites,  \* bound: committed settings writes
    MaxVersions,\* bound: feedback versions
    MaxBoots    \* bound: process starts

VARIABLES
    doc,        \* Manager.doc, the user section
    rev,        \* registration.revision
    disk,       \* settings.yaml: a section, or Corrupt
    unusable,   \* FileStore.unusable
    boot,       \* which process start this is
    seen,       \* [Clients -> what settings.describe last told it]
    creds,      \* credential.Manager.creds: the key, 0 for none
    credFile,   \* .credentials.yaml
    adapter,    \* the profile the live adapter was built from
    req,        \* [Requests -> the provider RPC]
    item,       \* the feedback of one message: [version, rating], version 0 for none
    versions,   \* versions handed out by newVersion
    heard       \* [Clients -> the feedback it last saw]

settings == <<doc, rev, disk, unusable>>
feedback == <<item, versions, heard>>
vars == <<settings, boot, seen, creds, credFile, adapter, req, feedback>>

(* A file that does not parse stands for one that is none of the sections.  *)
Corrupt == [active |-> "corrupt", prof |-> [i \in Ids |-> 0]]
Empty == [active |-> "none", prof |-> [i \in Ids |-> 0]]
NoItem == [version |-> 0, rating |-> "none"]
Idle == [kind |-> "none", id |-> "none", at |-> "new", read |-> 0]

(* FileStore.Load: a file that does not parse leaves the section empty and  *)
(* forbids saving.                                                          *)
Loaded(file) == IF file = Corrupt THEN Empty ELSE file

Init ==
    /\ disk \in {Empty, Corrupt} /\ doc = Loaded(disk) /\ unusable = (disk = Corrupt)
    /\ rev = 0 /\ boot = 1 /\ seen = [c \in Clients |-> [boot |-> 0, rev |-> 0, section |-> Empty]]
    /\ creds = 0 /\ credFile = 0 /\ adapter = 0
    /\ req = [r \in Requests |-> Idle]
    /\ item = NoItem /\ versions = 0 /\ heard = [c \in Clients |-> NoItem]

-----------------------------------------------------------------------------
(* The settings manager *)

(* Wrong variant: a failed persist is reported but not rolled back.         *)
CommitNoRollback(next) ==
    /\ rev < MaxWrites
    /\ doc' = next
    /\ \/ ~unusable /\ disk' = next /\ rev' = rev + 1
       \/ UNCHANGED <<disk, rev>>
    /\ UNCHANGED unusable

(* Wrong variant: Save does not remember that the file failed to parse.     *)
CommitOverCorrupt(next) ==
    /\ rev < MaxWrites
    /\ \/ doc' = next /\ disk' = next /\ rev' = rev + 1
       \/ UNCHANGED <<doc, disk, rev>>
    /\ UNCHANGED unusable

(* Mutate and Set: publish, persist, and only then the new revision; when   *)
(* persisting fails, or Save refuses because the file on disk could not be  *)
(* parsed, the old section is back and the caller gets an error.            *)
Commit(next) ==
    /\ rev < MaxWrites
    /\ \/ ~unusable /\ doc' = next /\ disk' = next /\ rev' = rev + 1
       \/ UNCHANGED <<doc, disk, rev>>
    /\ UNCHANGED unusable

Committed == rev' # rev

(* settings.describe.                                                       *)
Describe(c) ==
    /\ seen' = [seen EXCEPT ![c] = [boot |-> boot, rev |-> rev, section |-> doc]]
    /\ UNCHANGED <<settings, boot, creds, credFile, adapter, req, feedback>>

(* settings.mutate with expectedRevision: checkExpectedRevision, then the   *)
(* write.  A conflict changes nothing.                                      *)
MutateExpecting(c, i, v) ==
    /\ seen[c].boot # 0 /\ seen[c].rev = rev
    /\ Commit([seen[c].section EXCEPT !.prof[i] = v])
    /\ UNCHANGED <<boot, seen, creds, credFile, adapter, req, feedback>>

(* The process dies, and another one starts: NewManager counts revisions    *)
(* from 0, loads both files, and HydrateRuntime applies the active profile. *)
Restart ==
    /\ boot < MaxBoots /\ boot' = boot + 1
    /\ doc' = Loaded(disk) /\ unusable' = (disk = Corrupt) /\ rev' = 0
    /\ creds' = credFile
    /\ adapter' = IF doc'.active = "none" THEN 0 ELSE doc'.prof[doc'.active]
    /\ req' = [r \in Requests |-> IF req[r].at = "new" THEN req[r] ELSE [req[r] EXCEPT !.at = "done"]]
    /\ item' = NoItem
    /\ UNCHANGED <<disk, seen, credFile, versions, heard>>

-----------------------------------------------------------------------------
(* Provider RPCs, each a goroutine of its own *)

To(r, stage) == req' = [req EXCEPT ![r].at = stage]
Rest == <<boot, seen, feedback>>

(* providerState, the first read of an RPC: the profile it will edit, or    *)
(* the active id it will apply.  provider.describe seeds a profile when     *)
(* there is none.                                                           *)
ProviderStart(r, kind, i) ==
    /\ req[r].at = "new"
    /\ \/ /\ kind = "set"
          /\ req' = [req EXCEPT ![r] = [kind |-> kind, id |-> i, at |-> "write", read |-> doc.prof[i]]]
       \/ /\ kind = "delete"
          /\ req' = [req EXCEPT ![r] = [kind |-> kind, id |-> i, at |-> "write", read |-> 0]]
       \/ /\ kind = "apply"
          /\ req' = [req EXCEPT ![r] = [kind |-> kind, id |-> doc.active, read |-> 0,
                                        at |-> IF doc.active = "none" THEN "error" ELSE "load"]]
       \/ /\ kind = "seed"
          /\ req' = [req EXCEPT ![r] = [kind |-> kind, id |-> i, read |-> 0,
                              at |-> IF \E j \in Ids : doc.prof[j] # 0 THEN "done" ELSE "write"]]
    /\ UNCHANGED <<settings, creds, credFile, adapter, Rest>>

(* The write of each: no expected revision, so a set builds on what it read *)
(* and a seed takes the active slot only when it is free.                   *)
ProviderWrite(r, v) ==
    LET i == req[r].id
        next == CASE req[r].kind = "set"    -> [doc EXCEPT !.prof[i] = v]
                  [] req[r].kind = "delete" -> [doc EXCEPT !.prof[i] = 0]
                  [] req[r].kind = "seed"   -> [doc EXCEPT !.prof[i] = v,
                                                   !.active = IF @ = "none" THEN i ELSE @]
        then == CASE req[r].kind = "set"    -> "key"
                  [] req[r].kind = "delete" -> "unset"
                  [] req[r].kind = "seed"   -> "done"
    IN  /\ req[r].at = "write"
        /\ Commit(next)
        /\ To(r, IF Committed THEN then ELSE IF req[r].kind = "seed" THEN "done" ELSE "error")
        /\ UNCHANGED <<creds, credFile, adapter, Rest>>

(* Credentials.Set and Unset: in memory first, then the file; a failed save *)
(* is an error that leaves the value in memory.                             *)
SaveCredential(v) == creds' = v /\ (credFile' = v \/ UNCHANGED credFile)

(* provider.set with an API key, with setActive or without.                 *)
ProviderKey(r, v) ==
    /\ req[r].at = "key"
    /\ \/ UNCHANGED <<creds, credFile>> /\ (To(r, "activate") \/ To(r, "done"))
       \/ SaveCredential(v) /\ IF credFile' = creds' THEN To(r, "activate") \/ To(r, "done")
                                                     ELSE To(r, "error")
    /\ UNCHANGED <<settings, adapter, Rest>>

(* settings.credentials.set and unset.                                      *)
CredentialSet(v) ==
    /\ SaveCredential(v)
    /\ UNCHANGED <<settings, adapter, req, Rest>>

(* setActiveProvider.                                                       *)
ProviderActivate(r) ==
    /\ req[r].at = "activate"
    /\ Commit([doc EXCEPT !.active = req[r].id])
    /\ To(r, IF Committed THEN "load" ELSE "error")
    /\ UNCHANGED <<creds, credFile, adapter, Rest>>

(* applyProviderConfig: read the profile and build its adapter ...          *)
ProviderLoad(r) ==
    /\ req[r].at = "load"
    /\ req' = [req EXCEPT ![r].read = doc.prof[req[r].id],
                          ![r].at = IF doc.prof[req[r].id] = 0 THEN "error" ELSE "swap"]
    /\ UNCHANGED <<settings, creds, credFile, adapter, Rest>>

(* ... and swap it in, whatever was committed meanwhile.                    *)
ProviderSwap(r) ==
    /\ req[r].at = "swap" /\ To(r, "done")
    /\ adapter' = req[r].read
    /\ UNCHANGED <<settings, creds, credFile, Rest>>

(* provider.delete, second half: an active id that is gone is cleared.      *)
ProviderUnset(r) ==
    /\ req[r].at = "unset"
    /\ IF doc.active = req[r].id
       THEN Commit([doc EXCEPT !.active = "none"]) /\ To(r, IF Committed THEN "done" ELSE "error")
       ELSE To(r, "done") /\ UNCHANGED settings
    /\ UNCHANGED <<creds, credFile, adapter, Rest>>

-----------------------------------------------------------------------------
(* The feedback store *)

FeedbackList(c) ==
    /\ heard' = [heard EXCEPT ![c] = item]
    /\ UNCHANGED <<settings, boot, seen, creds, credFile, adapter, req, item, versions>>

(* Put with ifVersion: a conflict, a repetition of what is there, or a new  *)
(* version.                                                                 *)
FeedbackPut(c, rating) ==
    /\ versions < MaxVersions /\ heard[c].version = item.version
    /\ item.rating # rating
    /\ item' = [version |-> versions + 1, rating |-> rating]
    /\ versions' = versions + 1
    /\ UNCHANGED <<settings, boot, seen, creds, credFile, adapter, req, heard>>

FeedbackDelete(c) ==
    /\ item # NoItem /\ heard[c].version = item.version
    /\ item' = NoItem
    /\ UNCHANGED <<settings, boot, seen, creds, credFile, adapter, req, versions, heard>>

-----------------------------------------------------------------------------
Next ==
    \/ \E c \in Clients : Describe(c) \/ FeedbackList(c) \/ FeedbackDelete(c)
                          \/ \E rating \in {"like", "dislike"} : FeedbackPut(c, rating)
                          \/ \E i \in Ids, v \in Vals : MutateExpecting(c, i, v)
    \/ Restart
    \/ \E v \in Vals \cup {0} : CredentialSet(v)
    \/ \E r \in Requests :
          \/ \E kind \in Kinds, i \in Ids : ProviderStart(r, kind, i)
          \/ \E v \in Vals : ProviderWrite(r, v) \/ ProviderKey(r, v)
          \/ ProviderActivate(r) \/ ProviderLoad(r) \/ ProviderSwap(r) \/ ProviderUnset(r)

Spec == Init /\ [][Next]_vars

-----------------------------------------------------------------------------
(* PROPERTIES *)

(* A revision names one content: within one process, a client whose         *)
(* expectedRevision still matches would overwrite exactly the section it    *)
(* was shown, whatever other clients, provider RPCs and failed saves did in *)
(* between; the same for a feedback version, across restarts too.           *)
RevisionNamesContent ==
    \A c \in Clients :
        /\ seen[c].boot = boot /\ seen[c].rev = rev => seen[c].section = doc
        /\ heard[c].version = item.version => heard[c] = item

(* The settings in force are the settings on disk, so a restart changes     *)
(* none of them, and a file that could not be parsed is never overwritten.  *)
DiskFaithful == IF unusable THEN disk = Corrupt /\ doc = Empty ELSE disk = doc
==============================================================================
