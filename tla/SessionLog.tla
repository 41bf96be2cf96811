----------------------------- MODULE SessionLog ------------------------------
(***************************************************************************)
(* The event pipeline of one agent session: Agent.EmitEvent and            *)
(* Agent.emitRaw (backend/pkg/agent/loop.go) with everything they write -  *)
(* the lifecycle machine, the sequence counter, the durable store          *)
(* (SqliteStore.appendBatch), the RingBuffer, the SegmentLog, the          *)
(* subscriber channels and the incremental log cache.                      *)
(*                                                                         *)
(* EmitEvent is called by the actor goroutine and by others (the llmRetry  *)
(* goroutine, the schedule dispatcher, tools, gateway commands).  Only     *)
(* stateMu, subMu and evMu are ever held, each for one stage, so a call is *)
(* a sequence of stages, one action each, and calls interleave between     *)
(* them.  pc[e] names the next stage of goroutine e's call.                *)
(***************************************************************************)
EXTENDS Lifecycle, Integers, Sequences, FiniteSetsExt, Functions

CONSTANTS
    Emitters,       \* goroutines that call EmitEvent
    Actor,          \* the actor goroutine: the only one that emits boundaries
    Subscribers,    \* downlinks that may Subscribe
    RingCap,        \* RingBuffer capacity (4096 in the hosts)
    SubCap,         \* subscriber channel capacity (256)
    MaxEvents,      \* bound: sequence numbers handed out
    MaxFaults,      \* bound: injected store / marshal failures
    MaxRestarts     \* bound: process restarts

ASSUME EmittersAssumption == Actor \in Emitters
ASSUME CapAssumption == RingCap \in Nat \ {0} /\ SubCap \in Nat \ {0}
ASSUME BoundAssumption ==
    MaxEvents \in Nat /\ MaxFaults \in Nat /\ MaxRestarts \in Nat

VARIABLES
    machine,        \* activeTurn/activeStep/turnNumber/stepNumber, under stateMu
    seqCounter,     \* atomic: next sequence number to hand out
    pc,             \* [Emitters -> stage of the call in progress]
    call,           \* [Emitters -> the event of the call in progress]
    store,          \* durable rows of the session, in row order
    ring,           \* RingBuffer: head, tail, slots, and what each Push has read
    segment,        \* events written to the SegmentLog
    channels,       \* [open subscribers -> buffered events]
    cache,          \* logCache/lastCached/cacheWarm, under evMu
    compacting,     \* the actor is inside maybeCompact's transaction
    base,           \* history: rows in the store when this process opened it
    overlapped,     \* history: two calls of this process overlapped
    faulted,        \* history: a store or marshal failure hit this process
    seedLost,       \* history: some process could not read the log it reopened
    faults,         \* bound counter
    restarts        \* bound counter

vars == <<machine, seqCounter, pc, call, store, ring, segment, channels, cache,
          compacting, base, overlapped, faulted, seedLost, faults, restarts>>
history == <<base, seedLost, faults, restarts>>

Other == "other"           \* any event type the machine does not track
Compaction == "compaction" \* a bracket of the compaction transaction
Types == Boundaries \cup {Other, Compaction}

(* An envelope: its log position, its type, and for a boundary the turn the *)
(* machine stamped on it (0 otherwise).                                     *)
Envelope == [seq : Nat, type : Types, turn : Nat]
NoEnvelope == [seq |-> 0, type |-> Other, turn |-> 0]

Stages == {"idle", "seq", "persist", "load", "slot", "tail", "measure", "evict",
           "segment", "fanout", "cache"}

(* Stages at which the call's envelope has been committed to the store.     *)
PersistedStages == {"load", "slot", "tail", "measure", "evict", "segment", "fanout", "cache"}

Rows == Range(store)
Ring == [head : Nat, tail : Nat, slots : [0 .. RingCap - 1 -> Envelope],
         read : [Emitters -> Nat]]
EmptyRing == [head |-> 0, tail |-> 0, slots |-> [i \in 0 .. RingCap - 1 |-> NoEnvelope],
              read |-> [e \in Emitters |-> 0]]
ColdCache == [warm |-> FALSE, last |-> -1, log |-> {}]

(* Every variable has its type, the ring's head never passes its tail and   *)
(* no subscriber channel holds more than its buffer: RingBuffer.Push and    *)
(* the non-blocking fan-out of EmitEvent keep these bounds for every        *)
(* interleaving of emitters.                                                *)
TypeOK ==
    /\ machine \in Machine
    /\ seqCounter \in Nat
    /\ pc \in [Emitters -> Stages]
    /\ call \in [Emitters -> Envelope]
    /\ store \in Seq(Envelope)
    /\ ring \in Ring
    /\ ring.head <= ring.tail /\ \A e \in Emitters : ring.read[e] <= ring.tail
    /\ segment \subseteq Envelope
    /\ DOMAIN channels \subseteq Subscribers
    /\ \A s \in DOMAIN channels :
          channels[s] \in Seq(Envelope) /\ Len(channels[s]) <= SubCap
    /\ cache \in [warm : BOOLEAN, last : Int, log : SUBSET Envelope]
    /\ compacting \in BOOLEAN /\ overlapped \in BOOLEAN /\ faulted \in BOOLEAN
    /\ seedLost \in BOOLEAN
    /\ base \in Nat /\ faults \in Nat /\ restarts \in Nat

-----------------------------------------------------------------------------
(* The store's logical next sequence number (appendBatch: last.Seq + 1).    *)
NextStored == IF store = <<>> THEN 0 ELSE store[Len(store)].seq + 1

(* GetEvents(id, fromSeq) is inclusive of fromSeq.                          *)
GetEvents(from) == {e \in Rows : e.seq >= from}

(* The cache after one full read of the store.                              *)
FullLoad == [warm |-> TRUE, last |-> NextStored - 1, log |-> Rows]

(* Wrong variant: the counter resumes at the last stored seq.               *)
SeedSeqLast == IF store = <<>> THEN 0 ELSE store[Len(store)].seq

(* seedSeqFrom: the seq a reopened session resumes at.                      *)
SeedSeq == IF store = <<>> THEN 0 ELSE store[Len(store)].seq + 1

(* Wrong variant: a reopened session numbers its turns from 1 again.        *)
LastStoredTurnForgotten == 0

(* seedSeqFrom: the highest turn number among the stored turn markers.      *)
StoredTurns == {e.turn : e \in {r \in Rows : r.type \in {TurnStart, TurnEnd}}}
LastStoredTurn == Max({0} \cup StoredTurns)

Init ==
    /\ machine = FreshMachine(0)
    /\ seqCounter = 0
    /\ pc = [e \in Emitters |-> "idle"]
    /\ call = [e \in Emitters |-> NoEnvelope]
    /\ store = <<>>
    /\ ring = EmptyRing
    /\ segment = {}
    /\ channels = [s \in {} |-> <<>>]
    /\ cache = ColdCache
    /\ compacting = FALSE
    /\ overlapped = FALSE
    /\ faulted = FALSE
    /\ seedLost = FALSE
    /\ base = 0 /\ faults = 0 /\ restarts = 0

-----------------------------------------------------------------------------
(* The call of e goes on at another stage, or returns to its caller.        *)
Goto(e, stage) == pc' = [pc EXCEPT ![e] = stage] /\ UNCHANGED call
Return(e) == pc' = [pc EXCEPT ![e] = "idle"] /\ call' = [call EXCEPT ![e] = NoEnvelope]

(* EmitEvent, first stage, under stateMu: validate, transition, stamp.  A   *)
(* rejected event returns here with nothing changed.                        *)
EmitEvent(e, type) ==
    /\ pc[e] = "idle"
    /\ type \in Boundaries => e = Actor
    /\ e = Actor => ~compacting
    /\ Admissible(machine, type)
    /\ machine' = Transit(machine, type)
    /\ call' = [call EXCEPT ![e] =
            [seq |-> 0, type |-> type,
             turn |-> IF type \in Boundaries THEN StampTurn(machine, type) ELSE 0]]
    /\ pc' = [pc EXCEPT ![e] = "seq"]
    /\ UNCHANGED <<seqCounter, store, ring, segment, channels, cache, compacting,
                   overlapped, faulted, history>>

(* emitRaw: the compaction transaction's events skip the machine.           *)
EmitRaw(e) ==
    /\ e = Actor /\ compacting
    /\ pc[e] = "idle"
    /\ call' = [call EXCEPT ![e] = [seq |-> 0, type |-> Compaction, turn |-> 0]]
    /\ pc' = [pc EXCEPT ![e] = "seq"]
    /\ UNCHANGED <<machine, seqCounter, store, ring, segment, channels, cache,
                   compacting, overlapped, faulted, history>>

(* seqCounter.Add(1) - 1, outside stateMu.                                  *)
TakeSeq(e) ==
    /\ pc[e] = "seq"
    /\ seqCounter < MaxEvents
    /\ call' = [call EXCEPT ![e] =
            [seq |-> seqCounter, type |-> call[e].type, turn |-> call[e].turn]]
    /\ seqCounter' = seqCounter + 1
    /\ pc' = [pc EXCEPT ![e] = "persist"]
    /\ overlapped' = (overlapped \/ \E f \in Emitters \ {e} : pc[f] \notin {"idle", "seq"})
    /\ UNCHANGED <<machine, store, ring, segment, channels, cache, compacting,
                   faulted, history>>

(* Wrong variant: the seq check of appendBatch is dropped.                  *)
AppendBatchUnchecked(e) ==
    /\ pc[e] = "persist"
    /\ store' = Append(store, call[e])
    /\ Goto(e, "load")
    /\ UNCHANGED <<machine, seqCounter, ring, segment, channels, cache,
                   compacting, overlapped, faulted, history>>

(* Wrong variant: EmitEvent goes on after AppendEvents returned an error.   *)
AppendBatchErrorIgnored(e) ==
    /\ pc[e] = "persist"
    /\ store' = IF call[e].seq = NextStored THEN Append(store, call[e]) ELSE store
    /\ Goto(e, "load")
    /\ UNCHANGED <<machine, seqCounter, ring, segment, channels, cache,
                   compacting, overlapped, faulted, history>>

(* appendBatch: one immediate transaction; a batch that does not start at   *)
(* the stored next seq is refused.                                          *)
AppendBatch(e) ==
    /\ pc[e] = "persist"
    /\ \/ /\ call[e].seq = NextStored
          /\ store' = Append(store, call[e])
          /\ Goto(e, "load")
       \/ /\ call[e].seq # NextStored
          /\ store' = store
          /\ Return(e)
    /\ UNCHANGED <<machine, seqCounter, ring, segment, channels, cache,
                   compacting, overlapped, faulted, history>>

(* The call fails after it took its sequence number: NewEnvelope could not  *)
(* marshal the payload, or the transaction was refused (busy, disk, schema).*)
PersistFault(e) ==
    /\ pc[e] = "persist"
    /\ faults < MaxFaults
    /\ faults' = faults + 1
    /\ faulted' = TRUE
    /\ Return(e)
    /\ UNCHANGED <<machine, seqCounter, store, ring, segment, channels, cache,
                   compacting, base, overlapped, seedLost, restarts>>

(* RingBuffer.Push is written for one writer but every emitter calls it:    *)
(* each atomic access is a step.  First the index is read from tail ...     *)
PushLoad(e) ==
    /\ pc[e] = "load"
    /\ ring' = [ring EXCEPT !.read[e] = ring.tail]
    /\ Goto(e, "slot")
    /\ UNCHANGED <<machine, seqCounter, store, segment, channels, cache,
                   compacting, overlapped, faulted, history>>

(* ... the entry is stored there ...                                        *)
PushSlot(e) ==
    /\ pc[e] = "slot"
    /\ ring' = [ring EXCEPT !.slots[ring.read[e] % RingCap] = call[e], !.read[e] = 0]
    /\ Goto(e, "tail")
    /\ UNCHANGED <<machine, seqCounter, store, segment, channels, cache,
                   compacting, overlapped, faulted, history>>

(* ... tail is advanced ...                                                 *)
PushTail(e) ==
    /\ pc[e] = "tail"
    /\ ring' = [ring EXCEPT !.tail = @ + 1]
    /\ Goto(e, "measure")
    /\ UNCHANGED <<machine, seqCounter, store, segment, channels, cache,
                   compacting, overlapped, faulted, history>>

(* Wrong variant: the ring evicts one event too early.                      *)
PushMeasureEarly(e) ==
    /\ pc[e] = "measure"
    /\ IF ring.tail - ring.head >= RingCap
       THEN ring' = [ring EXCEPT !.read[e] = ring.tail - RingCap + 1] /\ Goto(e, "evict")
       ELSE UNCHANGED ring /\ Goto(e, "segment")
    /\ UNCHANGED <<machine, seqCounter, store, segment, channels, cache,
                   compacting, overlapped, faulted, history>>

(* ... and when the window is over capacity the new head is computed ...    *)
PushMeasure(e) ==
    /\ pc[e] = "measure"
    /\ IF ring.tail - ring.head > RingCap
       THEN ring' = [ring EXCEPT !.read[e] = ring.tail - RingCap] /\ Goto(e, "evict")
       ELSE UNCHANGED ring /\ Goto(e, "segment")
    /\ UNCHANGED <<machine, seqCounter, store, segment, channels, cache,
                   compacting, overlapped, faulted, history>>

(* ... and stored, even if another Push has moved head past it meanwhile.   *)
PushEvict(e) ==
    /\ pc[e] = "evict"
    /\ ring' = [ring EXCEPT !.head = ring.read[e], !.read[e] = 0]
    /\ Goto(e, "segment")
    /\ UNCHANGED <<machine, seqCounter, store, segment, channels, cache,
                   compacting, overlapped, faulted, history>>

(* SegmentLog.Append; its error is ignored, so the line may be missing.     *)
AppendSegment(e) ==
    /\ pc[e] = "segment"
    /\ \/ segment' = segment \cup {call[e]} /\ faults' = faults
       \/ faults < MaxFaults /\ faults' = faults + 1 /\ segment' = segment
    /\ Goto(e, "fanout")
    /\ UNCHANGED <<machine, seqCounter, store, ring, channels, cache, compacting,
                   base, overlapped, faulted, seedLost, restarts>>

(* Wrong variant: the fan-out ignores the channel's capacity.               *)
FanOutUnbounded(e) ==
    /\ pc[e] = "fanout"
    /\ channels' = [s \in DOMAIN channels |-> Append(channels[s], call[e])]
    /\ IF call[e].type = Compaction THEN Return(e) ELSE Goto(e, "cache")
    /\ UNCHANGED <<machine, seqCounter, store, ring, segment, cache,
                   compacting, overlapped, faulted, history>>

(* Fan-out under subMu: a full channel drops the event.  emitRaw ends here. *)
FanOut(e) ==
    /\ pc[e] = "fanout"
    /\ channels' = [s \in DOMAIN channels |->
            IF Len(channels[s]) < SubCap THEN Append(channels[s], call[e]) ELSE channels[s]]
    /\ IF call[e].type = Compaction THEN Return(e) ELSE Goto(e, "cache")
    /\ UNCHANGED <<machine, seqCounter, store, ring, segment, cache,
                   compacting, overlapped, faulted, history>>

(* cacheAppend under evMu: a cold cache, or one already past this seq,      *)
(* skips the event.                                                         *)
CacheAppend(e) ==
    /\ pc[e] = "cache"
    /\ cache' = IF cache.warm /\ call[e].seq > cache.last
                THEN [warm |-> TRUE, last |-> call[e].seq, log |-> cache.log \cup {call[e]}]
                ELSE cache
    /\ Return(e)
    /\ UNCHANGED <<machine, seqCounter, store, ring, segment, channels,
                   compacting, overlapped, faulted, history>>

-----------------------------------------------------------------------------
(* The cache after cachedSessionEvents: a full load when cold, a top-up     *)
(* past lastCached when warm, a full reload when the top-up fails, and the  *)
(* snapshot as it is when every read fails.                                 *)
TopUp ==
    [warm |-> TRUE,
     last |-> IF NextStored - 1 > cache.last THEN NextStored - 1 ELSE cache.last,
     log  |-> cache.log \cup GetEvents(cache.last + 1)]

CachedSessionEvents ==
    \/ cache' = IF cache.warm THEN TopUp ELSE FullLoad
    \/ cache.warm /\ cache' = FullLoad
    \/ cache' = cache

(* The actor derives messages (loadSessionLog) between two of its calls.    *)
LoadSessionLog ==
    /\ pc[Actor] = "idle" /\ ~compacting
    /\ CachedSessionEvents
    /\ UNCHANGED <<machine, seqCounter, pc, call, store, ring, segment, channels,
                   compacting, overlapped, faulted, history>>

(* maybeCompact after a completed turn: read the log, open the transaction. *)
CompactBegin ==
    /\ pc[Actor] = "idle" /\ ~compacting
    /\ machine.activeTurn = 0
    /\ CachedSessionEvents
    /\ compacting' = TRUE
    /\ UNCHANGED <<machine, seqCounter, pc, call, store, ring, segment, channels,
                   overlapped, faulted, history>>

(* Wrong variant: the cache survives the compaction transaction.            *)
CompactEndKeepsCache ==
    /\ compacting /\ pc[Actor] = "idle"
    /\ compacting' = FALSE
    /\ UNCHANGED <<machine, seqCounter, pc, call, store, ring, segment, channels,
                   cache, overlapped, faulted, history>>

(* The transaction returned, whatever its outcome: invalidateLogCache.      *)
CompactEnd ==
    /\ compacting /\ pc[Actor] = "idle"
    /\ cache' = ColdCache
    /\ compacting' = FALSE
    /\ UNCHANGED <<machine, seqCounter, pc, call, store, ring, segment, channels,
                   overlapped, faulted, history>>

-----------------------------------------------------------------------------
Subscribe(s) ==
    /\ s \notin DOMAIN channels
    /\ channels' = [t \in DOMAIN channels \cup {s} |->
                        IF t = s THEN <<>> ELSE channels[t]]
    /\ UNCHANGED <<machine, seqCounter, pc, call, store, ring, segment, cache,
                   compacting, overlapped, faulted, history>>

Unsubscribe(s) ==
    /\ s \in DOMAIN channels
    /\ channels' = [t \in DOMAIN channels \ {s} |-> channels[t]]
    /\ UNCHANGED <<machine, seqCounter, pc, call, store, ring, segment, cache,
                   compacting, overlapped, faulted, history>>

(* A downlink takes the oldest buffered event.                              *)
Receive(s) ==
    /\ s \in DOMAIN channels
    /\ channels[s] # <<>>
    /\ channels' = [channels EXCEPT ![s] = Tail(@)]
    /\ UNCHANGED <<machine, seqCounter, pc, call, store, ring, segment, cache,
                   compacting, overlapped, faulted, history>>

(* The process dies; NewAgent reopens the session through seedSeqFrom.  A   *)
(* read error seeds the counters with 0 and leaves the cache cold.          *)
Restart(readOK) ==
    /\ restarts < MaxRestarts
    /\ restarts' = restarts + 1
    /\ seqCounter' = IF readOK THEN SeedSeq ELSE 0
    /\ machine' = FreshMachine(IF readOK THEN LastStoredTurn ELSE 0)
    /\ cache' = IF readOK /\ store # <<>> THEN FullLoad ELSE ColdCache
    /\ faulted' = (~readOK /\ store # <<>>)
    /\ seedLost' = (seedLost \/ faulted')
    /\ overlapped' = FALSE
    /\ pc' = [e \in Emitters |-> "idle"]
    /\ call' = [e \in Emitters |-> NoEnvelope]
    /\ ring' = EmptyRing
    /\ channels' = [s \in {} |-> <<>>]
    /\ compacting' = FALSE
    /\ base' = Len(store)
    /\ UNCHANGED <<store, segment, faults>>

Next ==
    \/ \E e \in Emitters :
          \/ \E type \in Boundaries \cup {Other} : EmitEvent(e, type)
          \/ EmitRaw(e) \/ TakeSeq(e) \/ AppendBatch(e) \/ PersistFault(e)
          \/ PushLoad(e) \/ PushSlot(e) \/ PushTail(e) \/ PushMeasure(e) \/ PushEvict(e)
          \/ AppendSegment(e) \/ FanOut(e) \/ CacheAppend(e)
    \/ LoadSessionLog \/ CompactBegin \/ CompactEnd
    \/ \E s \in Subscribers : Subscribe(s) \/ Unsubscribe(s) \/ Receive(s)
    \/ \E readOK \in BOOLEAN : Restart(readOK)

Spec == Init /\ [][Next]_vars
-----------------------------------------------------------------------------
(* PROPERTIES *)

(* appendBatch admits only the next sequence number, so whatever the        *)
(* emitters interleave, fail or restart, row i of the durable log carries   *)
(* sequence number i - 1: no gap, no duplicate, no reordering.              *)
StoreContiguous == \A i \in 1 .. Len(store) : store[i].seq = i - 1

(* EmitEvent persists before it publishes: nothing a reader can see in the  *)
(* ring, the segment log, a subscriber channel or the cache is missing from *)
(* the durable log.                                                         *)
ViewsDurable ==
    /\ \A i \in ring.head .. ring.tail - 1 : ring.slots[i % RingCap] \in Rows \cup {NoEnvelope}
    /\ segment \subseteq Rows
    /\ \A s \in DOMAIN channels : Range(channels[s]) \subseteq Rows
    /\ cache.log \subseteq Rows

(* While the calls of a process never overlapped, the log cache the model   *)
(* requests are derived from is a hole-free prefix of the durable log.      *)
CacheExact ==
    ~overlapped /\ cache.warm /\ ~compacting =>
        cache.log = {r \in Rows : r.seq <= cache.last}

(* While the calls of a process never overlapped, the ring's window is      *)
(* exactly the latest events of this process, in order.                     *)
RingExact ==
    ~overlapped =>
        \A i \in ring.head .. ring.tail - 1 :
            (\A e \in Emitters : pc[e] \notin {"tail", "measure", "evict"}) =>
                /\ ring.slots[i % RingCap] = store[base + i + 1]
                /\ ring.tail >= RingCap => ring.tail - ring.head = RingCap

(* When no call is on its way to the store, the counter and the store may   *)
(* disagree on the next sequence number (and every later append is then     *)
(* refused) only after a failed write, a failed seed read or overlapping    *)
(* calls: a serial, fault-free session never wedges, across restarts.       *)
WedgeCause ==
    (\A e \in Emitters : pc[e] # "persist") /\ seqCounter # NextStored =>
        faulted \/ overlapped

(* seedSeqFrom's restart monotonicity: as long as every reopening could     *)
(* read the log, turn numbers increase strictly along the durable log,      *)
(* across restarts and turns a crash left open.                             *)
TurnMonotone ==
    ~seedLost =>
        \A i, j \in 1 .. Len(store) :
            i < j /\ store[i].type = TurnStart /\ store[j].type = TurnStart =>
                store[i].turn < store[j].turn

(* What EmitEvent's comments promise: a failed append leaves no trace, and  *)
(* the counter assigns contiguous numbers, so whenever no call is on its    *)
(* way to the store the next event is accepted.                             *)
NeverWedged ==
    (\A e \in Emitters : pc[e] # "persist") => seqCounter = NextStored
==============================================================================
