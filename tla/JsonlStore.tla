------------------------------ MODULE JsonlStore ------------------------------
(***************************************************************************)
(* The portable session artifact, pkg/storage/store_jsonl.go with its      *)
(* reader in store_sqlite.go, for one session: a header frame published by *)
(* rename, then one checksummed frame per appended batch, written, synced  *)
(* and rolled back in separate system calls, with failures and crashes     *)
(* between any two of them, and the repair of a torn last frame.           *)
(*                                                                         *)
(* No directory is synced: that the renamed file's entry survives a power  *)
(* failure is assumed here.                                                *)
(***************************************************************************)
EXTENDS Integers, Sequences, SequencesExt, FiniteSetsExt

CONSTANTS Kinds,        \* kinds of events; "turn/end" commits what precedes it
          MaxEvents,    \* bound on a session's events
          MaxBatch,     \* bound on an append's events
          MaxFaults     \* bound on failed calls, crashes, power failures, deletions

VARIABLES
    frames,     \* the file's frames, <<>> when there is no file; [evs, whole]
    writer,     \* the call in progress: [pc, batch, before]
    up,         \* the process runs and has repaired what it found
    acked,      \* events whose append returned without error (not in the code)
    unrolled,   \* a rollback failed: the file keeps what the caller was told failed
    faults

jsonlVars == <<frames, writer, up, acked, unrolled, faults>>

Idle == [pc |-> "idle", batch |-> <<>>, before |-> 0]
Header == [evs |-> <<>>, whole |-> TRUE]

Init ==
    /\ frames = <<>> /\ writer = Idle /\ up = TRUE
    /\ acked = <<>> /\ unrolled = FALSE /\ faults = 0

Fault == faults < MaxFaults /\ faults' = faults + 1

-----------------------------------------------------------------------------
(* The reader.                                                              *)

(* scanZstdFrames: frames are found by walking from the first; one that is  *)
(* cut short swallows whatever follows it.                                  *)
TornFrame ==
    LET cut == {i \in DOMAIN frames : ~frames[i].whole}
    IN IF cut = {} THEN Len(frames) + 1 ELSE Min(cut)

(* ReadJsonlZstd: the records of the whole frames, and as many of a torn    *)
(* last frame's as the decoder gives up before it reports the truncation.   *)
Records(recovered) ==
    LET sound == FlattenSeq([i \in 1..(TornFrame - 1) |-> frames[i].evs])
    IN IF TornFrame = Len(frames) THEN sound \o SubSeq(frames[TornFrame].evs, 1, recovered) ELSE sound

Recoverable == IF TornFrame = Len(frames) THEN 0..Len(frames[TornFrame].evs) ELSE {0}

(* parseJsonlRecords: the contiguous prefix; a gap is an error once a       *)
(* turn/end stands at or after it.                                          *)
ParseRecords(records) ==
    LET gaps == {i \in DOMAIN records : records[i].seq # i - 1}
        gap == IF gaps = {} THEN Len(records) + 1 ELSE Min(gaps)
    IN [error |-> \E i \in DOMAIN records : i >= gap /\ records[i].kind = "turn/end",
        events |-> SubSeq(records, 1, gap - 1)]

-----------------------------------------------------------------------------
(* Writing.                                                                 *)

Batches(first) ==
    UNION {{[i \in 1..n |-> [seq |-> first + i - 1, kind |-> kinds[i]]] : kinds \in [1..n -> Kinds]}
           : n \in 1..MaxBatch}

(* AppendEvents, PutSession: the caller's cursor is what was acknowledged.  *)
AppendEvents ==
    /\ up /\ writer.pc = "idle"
    /\ \E batch \in Batches(Len(acked)) :
         /\ Len(acked) + Len(batch) <= MaxEvents
         /\ writer' = [pc |-> IF frames = <<>> THEN "materialize" ELSE "write",
                       batch |-> batch, before |-> Len(frames)]
    /\ UNCHANGED <<frames, up, acked, unrolled, faults>>

PutSession ==
    /\ up /\ writer.pc = "idle" /\ frames = <<>>
    /\ writer' = [Idle EXCEPT !.pc = "materialize"]
    /\ UNCHANGED <<frames, up, acked, unrolled, faults>>

(* materialize: write and sync a temporary file, rename it into place.  A   *)
(* failed step removes the temporary file; a crash leaves one nobody reads. *)
Materialize ==
    /\ up /\ writer.pc = "materialize"
    /\ \/ /\ frames' = <<Header, [evs |-> writer.batch, whole |-> TRUE]>>
          /\ acked' = acked \o writer.batch
          /\ UNCHANGED faults
       \/ Fault /\ UNCHANGED <<frames, acked>>
    /\ writer' = Idle
    /\ UNCHANGED <<up, unrolled>>

(* appendLines: the write, whole or cut short.                              *)
WriteFrame ==
    /\ up /\ writer.pc = "write"
    /\ \/ /\ frames' = Append(frames, [evs |-> writer.batch, whole |-> TRUE])
          /\ writer' = [writer EXCEPT !.pc = "sync"]
          /\ UNCHANGED faults
       \/ /\ Fault
          /\ frames' = Append(frames, [evs |-> writer.batch, whole |-> FALSE])
          /\ writer' = [writer EXCEPT !.pc = "rollback"]
    /\ UNCHANGED <<up, acked, unrolled>>

SyncFrame ==
    /\ up /\ writer.pc = "sync"
    /\ \/ writer' = Idle /\ acked' = acked \o writer.batch /\ UNCHANGED faults
       \/ Fault /\ writer' = [writer EXCEPT !.pc = "rollback"] /\ UNCHANGED acked
    /\ UNCHANGED <<frames, up, unrolled>>

(* Wrong variant: the failure is reported, the file left as it is.          *)
RollbackNothing ==
    /\ up /\ writer.pc = "rollback"
    /\ writer' = Idle
    /\ UNCHANGED <<frames, up, acked, unrolled, faults>>

(* appendLines' rollback: truncate to the size before the write, sync.      *)
Rollback ==
    /\ up /\ writer.pc = "rollback"
    /\ \/ frames' = SubSeq(frames, 1, writer.before) /\ UNCHANGED <<unrolled, faults>>
       \/ Fault /\ unrolled' = TRUE /\ UNCHANGED frames
    /\ writer' = Idle
    /\ UNCHANGED <<up, acked>>

(* DeleteSession: the log whose header names the session is removed.        *)
DeleteSession ==
    /\ up /\ writer.pc = "idle" /\ frames # <<>> /\ Fault
    /\ frames' = <<>> /\ acked' = <<>> /\ unrolled' = FALSE
    /\ UNCHANGED <<writer, up>>

-----------------------------------------------------------------------------
(* Crashes and repair.                                                      *)

(* The process dies between two calls; what it wrote stays.                 *)
Crash ==
    /\ Fault
    /\ up' = FALSE /\ writer' = Idle
    /\ UNCHANGED <<frames, acked, unrolled>>

(* Power fails: a frame that was not synced is whole, cut short or gone.    *)
PowerFails ==
    /\ Fault /\ writer.pc \in {"sync", "rollback"}
    /\ \/ UNCHANGED frames
       \/ frames' = SubSeq(frames, 1, Len(frames) - 1)
       \/ frames' = [frames EXCEPT ![Len(frames)].whole = FALSE]
    /\ up' = FALSE /\ writer' = Idle
    /\ UNCHANGED <<acked, unrolled>>

(* A restarted process reads the log and calls CommitRepair: the torn frame *)
(* is cut off, and what was recovered of it is appended again with the      *)
(* turn/end an open turn needs.  The caller's cursor is then what it read.  *)
Restart ==
    /\ ~up
    /\ \E k \in Recoverable :
         LET read == ParseRecords(Records(k)).events
             sound == ParseRecords(Records(0)).events
             openTurn == read # <<>> /\ Last(read).kind # "turn/end" /\ Len(read) < MaxEvents
             closers == IF openTurn THEN <<[seq |-> Len(read), kind |-> "turn/end"]>> ELSE <<>>
             batch == SubSeq(read, Len(sound) + 1, Len(read)) \o closers
         IN /\ frames' = SubSeq(frames, 1, TornFrame - 1)
            /\ acked' = sound
            /\ writer' = IF batch = <<>> THEN Idle
                         ELSE [pc |-> "write", batch |-> batch, before |-> TornFrame - 1]
    /\ up' = TRUE
    /\ UNCHANGED <<unrolled, faults>>

Next ==
    \/ AppendEvents \/ PutSession \/ Materialize \/ WriteFrame \/ SyncFrame \/ Rollback
    \/ DeleteSession \/ Crash \/ PowerFails \/ Restart

Spec == Init /\ [][Next]_jsonlVars

-----------------------------------------------------------------------------
(* PROPERTIES                                                               *)

(* "An unchanged cursor cannot double-append duplicate sequence numbers":   *)
(* unless a rollback itself has failed, every read succeeds and begins with *)
(* all acknowledged events, through failed writes and syncs, retries of the *)
(* same batch, crashes, power failures and repairs.                         *)
AckedReadable ==
    ~unrolled => \A k \in Recoverable :
        LET read == ParseRecords(Records(k))
        IN ~read.error /\ IsPrefix(acked, read.events)
==============================================================================
