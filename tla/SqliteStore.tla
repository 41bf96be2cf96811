----------------------------- MODULE SqliteStore ------------------------------
(***************************************************************************)
(* The SQLite session store, pkg/storage/store_sqlite.go, for one session: *)
(* opening and owning the database file, batches packed into physical rows,*)
(* reads that start inside a packed row, torn tails and their repair, and  *)
(* the loss of the write-ahead log's tail at a power failure.              *)
(*                                                                         *)
(* An event is its kind, the fields a packed run shares (turn, step, block *)
(* index, call id and name: key) and its text.  A physical row carries the *)
(* events texts[1], texts[2] ... from sequence number seq on.              *)
(***************************************************************************)
EXTENDS Integers, Sequences, SequencesExt, FiniteSetsExt

CONSTANTS Shapes,       \* the events a writer may append: [kind, key, text]
          MinPacked,    \* MIN_PACKED_ROW_MEMBERS
          MaxPacked,    \* MAX_PACKED_ROW_MEMBERS
          MaxBytes,     \* MAX_PACKED_DATA_BYTES (a text's value is its size)
          MaxEvents,    \* bound on a session's events
          MaxBatch,     \* bound on an append's events
          MaxDamage,    \* bound on rows that become unreadable
          MaxDeletes,   \* bound on deletions of the session
          MaxPowerLoss, \* bound on power failures
          Files         \* what is at the path first: "empty", "ours", "unversioned",
                        \* "otherVersion", "otherApplication", "extraObject"

VARIABLES
    file,       \* the database file's identity and schema, as in Files
    open,       \* "closed", "open" or "refused"
    verified,   \* schemaVerified: the first append has checked the schema
    db,         \* the committed database state
    durable,    \* the committed state the disk holds: the write-ahead log is synced only now and then
    plan,       \* a repairer between loadStored and commitRepair
    damage, deletes, powerLoss

sqliteVars == <<file, open, verified, db, durable, plan, damage, deletes, powerLoss>>

NoPlan == [on |-> FALSE, torn |-> -1, closers |-> <<>>]

(* header: the metadata row exists.  acked (not in the code): the events    *)
(* whose append was acknowledged, less those a repair has given up.         *)
EmptyDb == [header |-> FALSE, rows |-> <<>>, acked |-> <<>>]

Init ==
    /\ file \in Files
    /\ open = "closed" /\ verified = FALSE
    /\ db = EmptyDb /\ durable = EmptyDb
    /\ plan = NoPlan
    /\ damage = 0 /\ deletes = 0 /\ powerLoss = 0

-----------------------------------------------------------------------------
(* The codec.                                                               *)

(* classifyDelta: only a delta chunk of exactly the known shape is packed.  *)
Packable(e) == e.kind \in {"text-delta", "tool-call-delta"}

(* continuesDelta: the next event of the batch belongs to the same run.     *)
Continues(e, f) == Packable(e) /\ f.kind = e.kind /\ f.key = e.key

ScalarRow(seq, e) == [seq |-> seq, tag |-> e.kind, key |-> e.key, texts |-> <<e.text>>, packed |-> FALSE, bad |-> FALSE]

(* buildRow *)
ChunkRow(seq, run) ==
    [seq |-> seq, tag |-> run[1].kind, key |-> run[1].key,
     texts |-> [i \in 1..Len(run) |-> run[i].text], packed |-> TRUE, bad |-> FALSE]

Bytes(texts) == FoldLeft(LAMBDA n, t : n + t, 0, texts)

(* One turn of emitBoundedRun's loop: the longest row the member and byte    *)
(* bounds admit, found by bisection; an event no row of the minimum length  *)
(* can hold is scalar, and so is what is too short for one at the end.      *)
EmitRow(seq, run, out) ==
    LET left == Len(run) - out.offset
        Part(k) == SubSeq(run, out.offset + 1, out.offset + k)
        fit == {k \in MinPacked..left : k <= MaxPacked /\ Bytes(ChunkRow(seq, Part(k)).texts) <= MaxBytes}
        k == IF fit = {} THEN 1 ELSE Max(fit)
        row == IF fit = {} THEN ScalarRow(seq + out.offset, run[out.offset + 1])
               ELSE ChunkRow(seq + out.offset, Part(k))
    IN IF left = 0 THEN out ELSE [rows |-> Append(out.rows, row), offset |-> out.offset + k]

(* emitBoundedRun: each turn takes one event of the run at least.           *)
EmitBoundedRun(seq, run) ==
    LET emit[n \in 0..Len(run)] ==
            IF n = 0 THEN [rows |-> <<>>, offset |-> 0] ELSE EmitRow(seq, run, emit[n - 1])
    IN emit[Len(run)].rows

(* packChunkRuns, per event: runs of one kind and key, flushed before seq,  *)
(* and everything else as it is.                                            *)
Flush(seq, out) == out.rows \o EmitBoundedRun(seq - Len(out.run), out.run)

PackEvent(seq, e, out) ==
    IF ~Packable(e) THEN [rows |-> Append(Flush(seq, out), ScalarRow(seq, e)), run |-> <<>>]
    ELSE IF out.run # <<>> /\ Continues(Last(out.run), e) THEN [out EXCEPT !.run = Append(out.run, e)]
    ELSE [rows |-> Flush(seq, out), run |-> <<e>>]

PackChunkRuns(seq, events) ==
    LET pack[i \in 0..Len(events)] ==
            IF i = 0 THEN [rows |-> <<>>, run |-> <<>>] ELSE PackEvent(seq + i - 1, events[i], pack[i - 1])
    IN Flush(seq + Len(events), pack[Len(events)])

(* decodeRow: the row's shape must be one the codec writes.                 *)
Decodes(row) ==
    /\ ~row.bad
    /\ row.packed => Len(row.texts) \in MinPacked..MaxPacked /\ Bytes(row.texts) <= MaxBytes

Decode(row) == [i \in 1..Len(row.texts) |-> [kind |-> row.tag, key |-> row.key, text |-> row.texts[i]]]

Span(rows) == FlattenSeq([i \in 1..Len(rows) |-> Decode(rows[i])])

(* scanRows: the contiguous readable prefix from base; the first row that   *)
(* breaks it is corruption before the last readable turn/end and a torn     *)
(* tail after it.                                                           *)
ScanRows(rows, base) ==
    LET Expected(i) == IF i = 1 THEN base ELSE rows[i - 1].seq + Len(rows[i - 1].texts)
        breaks == {i \in 1..Len(rows) : ~Decodes(rows[i]) \/ rows[i].seq # Expected(i)}
        ends == {i \in 1..Len(rows) : Decodes(rows[i]) /\ rows[i].tag = "turn/end"}
        first == IF breaks = {} THEN Len(rows) + 1 ELSE Min(breaks)
    IN [error |-> breaks # {} /\ \E i \in ends : first <= i,
        events |-> Span(SubSeq(rows, 1, first - 1)),
        torn |-> IF breaks = {} THEN -1 ELSE rows[first].seq]

(* The rows of a session are kept by their key, seq: a range of them begins *)
(* at the first row from there on.                                          *)
FirstFrom(from) == Min({i \in DOMAIN db.rows : db.rows[i].seq >= from} \cup {Len(db.rows) + 1})

SelectEvents(from) == SubSeq(db.rows, FirstFrom(from), Len(db.rows))

(* Wrong variant: the window before fromSeq is one row short.               *)
CoveringShort(from) ==
    {row \in Range(db.rows) :
        /\ row.packed
        /\ row.seq > from - MaxPacked + 1 /\ row.seq < from
        /\ ~Decodes(row) \/ row.seq + Len(row.texts) - 1 >= from}

(* physicalSpanFrom: where a packed row that may cover fromSeq begins.      *)
Covering(from) ==
    {row \in Range(db.rows) :
        /\ row.packed
        /\ row.seq >= from - MaxPacked + 1 /\ row.seq < from
        /\ ~Decodes(row) \/ row.seq + Len(row.texts) - 1 >= from}

PhysicalBase(from) == Min({from} \cup {row.seq : row \in Covering(from)})

(* GetEvents, loadStoredFrom *)
GetEvents(from) ==
    LET base == PhysicalBase(from)
        scan == ScanRows(SelectEvents(base), base)
    IN [error |-> scan.error,
        events |-> SubSeq(scan.events, from - base + 1, Len(scan.events))]

(* logicalLastEventTx: the sequence number after the stored tail, or an     *)
(* error when the tail is torn.                                             *)
LogicalNext ==
    LET n == Len(db.rows)
        tail == db.rows[IF n > 1 THEN n - 1 ELSE n].seq
        span == SelectEvents(tail - MaxPacked + 1)
        scan == ScanRows(span, span[1].seq)
    IN IF n = 0 THEN [error |-> FALSE, next |-> 0]
       ELSE [error |-> scan.error \/ scan.torn # -1, next |-> span[1].seq + Len(scan.events)]

-----------------------------------------------------------------------------
(* Opening.                                                                 *)

(* configureDatabase: initialization, stamps and schema check are one       *)
(* transaction; a database that is not ours is refused untouched.           *)
Open ==
    /\ open = "closed"
    /\ IF file \in {"empty", "ours"}
       THEN open' = "open" /\ file' = "ours"
       ELSE open' = "refused" /\ UNCHANGED file
    /\ verified' = FALSE
    /\ UNCHANGED <<db, durable, plan, damage, deletes, powerLoss>>

(* Close; the process may also simply end.  Either checkpoints nothing it   *)
(* had not, but loses nothing: the operating system keeps the file.         *)
Close ==
    /\ open = "open"
    /\ open' = "closed" /\ plan' = NoPlan
    /\ UNCHANGED <<file, verified, db, durable, damage, deletes, powerLoss>>

(* Another program stamps its own application id on the file.               *)
AlienWrites ==
    /\ file = "ours" /\ damage < MaxDamage
    /\ file' \in {"otherApplication", "extraObject"}
    /\ damage' = damage + 1
    /\ UNCHANGED <<open, verified, db, durable, plan, deletes, powerLoss>>

(* A row on the disk becomes unreadable.                                    *)
Damage ==
    /\ damage < MaxDamage
    /\ \E i \in DOMAIN db.rows : db' = [db EXCEPT !.rows[i].bad = TRUE]
    /\ durable' = db'
    /\ damage' = damage + 1
    /\ UNCHANGED <<file, open, verified, plan, deletes, powerLoss>>

(* synchronous = NORMAL: what is committed reaches the disk at some later   *)
(* checkpoint, or when the operating system writes it out.                  *)
Sync ==
    /\ durable # db /\ powerLoss < MaxPowerLoss
    /\ durable' = db
    /\ UNCHANGED <<file, open, verified, db, plan, damage, deletes, powerLoss>>

(* Power fails: the commits the disk does not hold are gone.                *)
PowerFails ==
    /\ powerLoss < MaxPowerLoss
    /\ db' = durable
    /\ open' = "closed" /\ plan' = NoPlan
    /\ powerLoss' = powerLoss + 1
    /\ UNCHANGED <<file, verified, durable, damage, deletes>>

-----------------------------------------------------------------------------
(* Mutations: each one IMMEDIATE transaction on the only connection.        *)

Commit(new) == db' = new /\ UNCHANGED durable

(* appendBatch's ownership check: the schema once, then the application id. *)
MayAppend == IF verified THEN file # "otherApplication" ELSE file = "ours"

(* validateSchemaForMutation *)
MayMutate == file = "ours"

Appended(rows, events) ==
    [db EXCEPT !.header = TRUE, !.rows = @ \o rows, !.acked = @ \o events]

(* AppendEvents, for a writer that starts at the stored next sequence       *)
(* number (SessionLog models the one that is refused because it does not).  *)
AppendEvents ==
    LET seq == LogicalNext.next IN
    /\ open = "open" /\ MayAppend /\ ~LogicalNext.error
    /\ \E n \in 1..MaxBatch : \E events \in [1..n -> Shapes] :
         /\ seq + n <= MaxEvents
         /\ Commit(Appended(PackChunkRuns(seq, events), events))
    /\ verified' = TRUE
    /\ UNCHANGED <<file, open, plan, damage, deletes, powerLoss>>

(* PutSession: the metadata row alone.                                      *)
PutSession ==
    /\ open = "open" /\ MayMutate /\ ~db.header
    /\ Commit([db EXCEPT !.header = TRUE])
    /\ UNCHANGED <<file, open, verified, plan, damage, deletes, powerLoss>>

(* DeleteSession: events and row in one transaction, with no schema check.  *)
DeleteSession ==
    /\ open = "open" /\ deletes < MaxDeletes /\ db # EmptyDb
    /\ Commit(EmptyDb)
    /\ deletes' = deletes + 1
    /\ UNCHANGED <<file, open, verified, plan, damage, powerLoss>>

(* loadStored, and the closers a repairer derives from what it read: an     *)
(* open turn gets its turn/end.                                             *)
LoadStored ==
    LET scan == ScanRows(db.rows, 0)
        openTurn == scan.events # <<>> /\ Last(scan.events).kind # "turn/end"
    IN
    /\ open = "open" /\ ~plan.on /\ db.header /\ ~scan.error
    /\ plan' = [on |-> TRUE, torn |-> scan.torn,
                closers |-> IF openTurn THEN <<Len(scan.events)>> ELSE <<>>]
    /\ scan.torn # -1 \/ openTurn
    /\ UNCHANGED <<file, open, verified, db, durable, damage, deletes, powerLoss>>

TurnEnd == [kind |-> "turn/end", key |-> 0, text |-> 1]

(* commitRepair's staleness checks, against the rows as they are now.       *)
RepairCurrent ==
    LET scan == ScanRows(db.rows, 0) IN
    /\ db.header /\ ~scan.error
    /\ scan.torn = plan.torn
    /\ plan.closers # <<>> => plan.closers[1] = Len(scan.events)

CommitRepair ==
    LET kept == IF plan.torn = -1 THEN db.rows
                ELSE SubSeq(db.rows, 1, FirstFrom(plan.torn) - 1)
        acked == IF plan.torn = -1 THEN db.acked ELSE SubSeq(db.acked, 1, plan.torn)
        closers == [i \in 1..Len(plan.closers) |-> TurnEnd]
    IN
    /\ open = "open" /\ plan.on
    /\ IF MayMutate /\ RepairCurrent
       THEN Commit([db EXCEPT !.rows = kept \o [i \in 1..Len(closers) |-> ScalarRow(plan.closers[i], TurnEnd)],
                              !.acked = acked \o closers])
       ELSE UNCHANGED <<db, durable>>
    /\ plan' = NoPlan
    /\ UNCHANGED <<file, open, verified, damage, deletes, powerLoss>>

Next ==
    \/ Open \/ Close \/ AlienWrites \/ Damage \/ Sync \/ PowerFails
    \/ AppendEvents \/ PutSession \/ DeleteSession \/ LoadStored \/ CommitRepair

Spec == Init /\ [][Next]_sqliteVars

-----------------------------------------------------------------------------
(* PROPERTIES                                                               *)

(* Whatever rows a batch was packed into, and wherever a read starts, a     *)
(* read that succeeds (GetEvents) returns the acknowledged events from that *)
(* sequence number on: all of them when no row is damaged, and otherwise a  *)
(* prefix of them.  Power failures, repairs and stale repairs included.     *)
ReadsAsWritten ==
    \A from \in 0..Len(db.acked) :
        LET read == GetEvents(from)
            want == SubSeq(db.acked, from + 1, Len(db.acked))
        IN /\ ~read.error => IsPrefix(read.events, want)
           /\ (\A row \in Range(db.rows) : ~row.bad) => ~read.error /\ read.events = want
==============================================================================
