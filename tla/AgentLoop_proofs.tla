---------------------------- MODULE AgentLoop_proofs ---------------------------
(***************************************************************************)
(* Safety of the actor loop for every capacity, every retry budget and any *)
(* number of messages, interrupts, steps and store failures: the machine's *)
(* brackets, the durable log and its refinement of TurnProtocol, the       *)
(* conservation of messages, and what an accepted reply stands for.        *)
(***************************************************************************)
EXTENDS AgentLoop, SequenceTheorems, TLAPS

-----------------------------------------------------------------------------
(* Type correctness. *)

Phases == {"open", "read", "failed", "wait", "started", "exited"}
Errors == {"none"} \cup Failures
EventNames ==
    Boundaries \cup {"none", UserMessage, AssistantChunk, AssistantMessage, ToolCall, ToolResult}
EventType == [type : EventNames, turn : Nat, step : Nat, kind : EndKinds \cup {"none"}]
LogType ==
    [turn : Nat, step : Nat, call : BOOLEAN, turns : Nat, steps : Nat, last : EventType,
     messages : Seq(Nat), interrupts : Seq(Nat)]
AsmType == [text : BOOLEAN, tools : Int, finish : {"none"} \cup Finishes, attempts : SUBSET Nat]
StreamType ==
    [turn : Nat, step : Nat, phase : Phases, attempt : 0 .. MaxRetries,
     ad : {"off", "open", "finished", "erred", "closed"}, buf : Seq(Chunk), err : Errors,
     made : Nat, out : Seq(Chunk), outErr : BOOLEAN, ended : {"no", "failed", "clean"}]
OrphanType ==
    [turn : Nat, step : Nat, attempt : 0 .. MaxRetries, err : Errors,
     phase : Phases \cup {"blocked"}]

(* Where the actor goes after finishTurnReason.                             *)
Afters == {"idle", "exited", "loopTop"}

InputsOK ==
    /\ inbox \in Seq(Nat) /\ Len(inbox) <= TurnCap /\ posted \in Nat
    /\ interrupts \in Seq(Nat) /\ Len(interrupts) <= StepCap /\ postedSteps \in Nat
FlagsOK ==
    stopped \in BOOLEAN /\ running \in BOOLEAN /\ turnCtx \in {"none", "live", "cancelled"}
PersistOK == machine \in Machine /\ gap \in BOOLEAN /\ faults \in Nat /\ durable \in LogType
LocalsOK ==
    /\ pc \in Pcs /\ turn \in Nat /\ step \in Nat /\ finished \in BOOLEAN /\ sticky \in BOOLEAN
    /\ hand \in Seq(Nat) /\ reason \in {"none", "aborted", "error"} /\ after \in Afters \cup {"none"}
    /\ pc \in {"finishStep", "finishTurn"} => after \in Afters
    /\ asm \in AsmType

(* A retry goroutine that waits for its next attempt has one left.          *)
StreamOK(s) ==
    /\ s \in StreamType /\ Len(s.out) <= ChunkCap /\ Len(s.buf) <= ChunkCap
    /\ s.phase \in {"wait", "started"} => s.attempt < MaxRetries
OrphanOK(s) ==
    s \in OrphanType /\ (s.phase \in {"wait", "started"} => s.attempt < MaxRetries)
StreamsOK == StreamOK(stream) /\ \A s \in orphans : OrphanOK(s)

TypeInv == InputsOK /\ FlagsOK /\ PersistOK /\ LocalsOK /\ StreamsOK

(* The constants' types, one by one.                                        *)
LEMMA ConstantTyping ==
    /\ TurnCap \in Nat /\ StepCap \in Nat /\ ChunkCap \in Nat
    /\ TurnCap >= 1 /\ StepCap >= 1 /\ ChunkCap >= 1
    /\ MaxRetries \in Nat /\ MaxSteps \in Nat /\ MaxChunks \in Nat
  BY CapsAssumption, BoundsAssumption

(* The strengthening covers the stated invariant.                           *)
LEMMA TypeCovered == TypeInv => TypeOK
<1> SUFFICES ASSUME TypeInv PROVE TypeOK
  OBVIOUS
<1>1. {stream.out, stream.buf} \subseteq Seq(Chunk)
  BY DEF TypeInv, StreamsOK, StreamOK, StreamType
<1>2. \A s \in orphans \cup {stream} : s.attempt <= MaxRetries
  BY ConstantTyping DEF TypeInv, StreamsOK, StreamOK, OrphanOK, StreamType, OrphanType
<1>3. QED
  BY <1>1, <1>2 DEF TypeInv, InputsOK, FlagsOK, PersistOK, LocalsOK, StreamsOK, StreamOK, TypeOK

(* A goroutine that has just been started, and none at all.                 *)
LEMMA NewStreamTyping ==
    ASSUME NEW t \in Nat, NEW s \in Nat
    PROVE  StreamOK(NewStream(t, s)) /\ StreamOK(NoStream)
<1>1. ASSUME NEW u \in Nat, NEW v \in Nat PROVE StreamOK(NewStream(u, v))
  BY ConstantTyping DEF NewStream, StreamOK, StreamType, Phases, Errors
<1>2. StreamOK(NewStream(0, 0))
  BY <1>1
<1>3. StreamOK(NoStream)
  BY <1>2 DEF NoStream, StreamOK, StreamType, Phases, NewStream
<1>4. QED
  BY <1>1, <1>3

(* Initially every variable has its type.                                   *)
LEMMA TypeInit == Init => TypeInv
<1> SUFFICES ASSUME Init PROVE TypeInv
  OBVIOUS
<1>0. <<>> \in Seq(Nat) /\ Len(<<>>) = 0
  OBVIOUS
<1>1. InputsOK /\ FlagsOK
  <2>1. inbox = <<>> /\ interrupts = <<>> /\ posted = 0 /\ postedSteps = 0
    BY DEF Init
  <2>2. InputsOK
    BY <1>0, <2>1, ConstantTyping DEF InputsOK
  <2>3. QED
    BY <2>2 DEF Init, FlagsOK
<1>2. PersistOK
  <2>1. NoEvent \in EventType
    BY DEF NoEvent, Event, EventType, EventNames
  <2>2. EmptyLog \in LogType
    BY <2>1 DEF EmptyLog, LogType
  <2>3. QED
    BY <2>2 DEF Init, PersistOK, FreshMachine, Machine
<1>3. LocalsOK
  <2>1. EmptyAsm \in AsmType
    BY DEF EmptyAsm, AsmType
  <2>2. QED
    BY <1>0, <2>1 DEF Init, LocalsOK, Pcs, Afters
<1>4. StreamsOK
  BY NewStreamTyping DEF Init, StreamsOK
<1>5. QED
  BY <1>1, <1>2, <1>3, <1>4 DEF TypeInv

(* Folding an event into the log, and ingesting a chunk, keep the types.    *)
LEMMA ReduceTyping ==
    ASSUME NEW d \in LogType, NEW ev \in EventType
    PROVE  Reduce(d, ev) \in LogType
  BY DEF Reduce, LogType, EventType

(* A chunk the actor ingests keeps the assembler typed.                     *)
LEMMA IngestTyping ==
    ASSUME NEW a \in AsmType, NEW c \in Chunk
    PROVE  Ingest(a, c) \in AsmType
  BY ConstantTyping DEF Ingest, AsmType, Chunk, ParallelCalls

(* A store that accepts or refuses an append keeps the types.               *)
LEMMA PersistTyping ==
    ASSUME PersistOK, NEW d \in LogType, Persist(d)
    PROVE  gap' \in BOOLEAN /\ faults' \in Nat /\ durable' \in LogType
<1>1. CASE ~gap /\ durable' = d /\ UNCHANGED <<gap, faults>>
  BY <1>1 DEF PersistOK
<1>2. CASE ~gap /\ faults < MaxFaults /\ gap' = TRUE /\ faults' = faults + 1 /\ UNCHANGED durable
  BY <1>2 DEF PersistOK
<1>3. CASE gap /\ UNCHANGED persist
  BY <1>3 DEF PersistOK, persist
<1>4. QED
  BY <1>1, <1>2, <1>3 DEF Persist

(* So does every emission of an event the machine does not track.           *)
LEMMA EmitTyping ==
    ASSUME PersistOK, turn \in Nat, step \in Nat, hand \in Seq(Nat),
           \/ \E type \in EventNames : EmitEvent(type)
           \/ EmitLogOnly
           \/ EmitUserMessage([durable EXCEPT !.messages = @ \o hand])
           \/ EmitUserMessage([durable EXCEPT !.interrupts = @ \o hand])
           \/ UNCHANGED <<machine, persist>>
    PROVE  PersistOK'
<1>1. ASSUME NEW type \in EventNames, EmitEvent(type) PROVE PersistOK'
  <2>1. Event(type, turn, step, "none") \in EventType
    BY DEF Event, EventType
  <2>2. QED
    BY <1>1, <2>1, ReduceTyping, PersistTyping DEF EmitEvent, PersistOK
<1>2. CASE EmitLogOnly
  BY <1>2, PersistTyping DEF EmitLogOnly, PersistOK
<1>3. ASSUME NEW d \in LogType, EmitUserMessage(d) PROVE PersistOK'
  <2>1. Event(UserMessage, 0, 0, "none") \in EventType
    BY DEF Event, EventType, EventNames
  <2>2. QED
    BY <1>3, <2>1, ReduceTyping, PersistTyping DEF EmitUserMessage, PersistOK
<1>4. /\ [durable EXCEPT !.messages = @ \o hand] \in LogType
      /\ [durable EXCEPT !.interrupts = @ \o hand] \in LogType
  <2>1. durable.messages \o hand \in Seq(Nat) /\ durable.interrupts \o hand \in Seq(Nat)
    BY ConcatProperties DEF PersistOK, LogType
  <2>2. QED
    BY <2>1 DEF PersistOK, LogType
<1>5. CASE UNCHANGED <<machine, persist>>
  BY <1>5 DEF PersistOK, persist
<1>6. QED
  BY <1>1, <1>2, <1>3, <1>4, <1>5

(* A boundary keeps the machine's type and stamps natural numbers.          *)
LEMMA MachineTyping ==
    ASSUME NEW m \in Machine, NEW type \in Boundaries
    PROVE  /\ Transit(m, type) \in Machine
           /\ StampTurn(m, type) \in Nat /\ StampStep(m, type) \in Nat
<1> USE DEF Transit, StampTurn, StampStep, Machine, TurnStart, TurnEnd, StepStart, StepEnd
<1>1. CASE type = TurnStart
  BY <1>1
<1>2. CASE type = TurnEnd
  BY <1>2
<1>3. CASE type = StepStart
  BY <1>3
<1>4. CASE type = StepEnd
  BY <1>4
<1>5. QED
  BY <1>1, <1>2, <1>3, <1>4 DEF Boundaries

(* And every emission of a boundary, admitted, rejected or refused.         *)
LEMMA BoundaryTyping ==
    ASSUME PersistOK, NEW type \in Boundaries, NEW kind \in EndKinds \cup {"none"}, EmitBoundary(type, kind)
    PROVE  PersistOK'
<1>1. CASE ~Admissible(machine, type)
  BY <1>1 DEF EmitBoundary, PersistOK, persist
<1>2. CASE Admissible(machine, type)
  <2>1. machine' = Transit(machine, type) /\ machine' \in Machine
    BY <1>2, MachineTyping DEF EmitBoundary, PersistOK
  <2>2. PICK n \in Nat : Persist(Reduce(durable, Event(type, StampTurn(machine, type), n, kind)))
    BY <1>2, MachineTyping DEF EmitBoundary, PersistOK
  <2>3. Event(type, StampTurn(machine, type), n, kind) \in EventType
    BY MachineTyping DEF PersistOK, Event, EventType, EventNames
  <2>4. QED
    BY <2>1, <2>2, <2>3, ReduceTyping, PersistTyping DEF PersistOK
<1>3. QED
  BY <1>1, <1>2

-----------------------------------------------------------------------------
(* The goroutines keep their types. *)

(* Leaving drops what the adapter still had.                                *)
LEMMA ExitTyping ==
    ASSUME NEW s, StreamOK(s)
    PROVE  StreamOK(Exit(s)) /\ Exited(Exit(s))
<1>1. <<>> \in Seq(Chunk) /\ Len(<<>>) = 0 /\ s \in StreamType
  BY DEF StreamOK
<1>2. Exit(s) \in StreamType
  BY <1>1 DEF Exit, StreamType, Phases
<1>3. Exit(s).phase = "exited" /\ Exit(s).buf = <<>> /\ Exit(s).out = s.out
  BY <1>1 DEF Exit, StreamType
<1>4. QED
  BY <1>1, <1>2, <1>3, ConstantTyping DEF StreamOK, Exited

(* So does a failed attempt, before the retry is decided.                   *)
LEMMA FailedTyping ==
    ASSUME NEW s, StreamOK(s)
    PROVE  StreamOK(Failed(s))
<1>1. <<>> \in Seq(Chunk) /\ Len(<<>>) = 0 /\ s \in StreamType
  BY DEF StreamOK
<1>2. Failed(s) \in StreamType
  BY <1>1 DEF Failed, StreamType, Phases
<1>3. Failed(s).phase = "failed" /\ Failed(s).buf = <<>> /\ Failed(s).out = s.out
  BY <1>1 DEF Failed, StreamType
<1>4. QED
  BY <1>1, <1>2, <1>3, ConstantTyping DEF StreamOK

(* What the adapter produces fits its channel.                              *)
LEMMA ProduceTyping ==
    ASSUME NEW s, StreamOK(s), NEW n \in Produce(s)
    PROVE  StreamOK(n)
<1>1. s \in StreamType /\ s.buf \in Seq(Chunk) /\ s.phase \in Phases
  BY DEF StreamOK, StreamType
<1>2. s.ad = "open" /\ Len(s.buf) < ChunkCap
  <2>1. Len(s.buf) \in Nat
    BY <1>1
  <2>2. s.ad = "open" /\ ~(Len(s.buf) >= ChunkCap)
    BY DEF Produce
  <2>3. QED
    BY <2>1, <2>2, ConstantTyping
<1>3. PICK k \in Contents \cup Finishes :
          LET c == [kind |-> k, attempt |-> s.attempt]
          IN  \/ n = [s EXCEPT !.buf = Append(@, c), !.made = @ + 1]
              \/ n = [s EXCEPT !.buf = Append(@, c), !.ad = "finished"]
  BY <1>2, Zenon DEF Produce
<1> DEFINE c == [kind |-> k, attempt |-> s.attempt]
           b == Append(s.buf, c)
<1>4. c \in Chunk
  BY <1>1 DEF Chunk, StreamType
<1>5. b \in Seq(Chunk) /\ Len(b) <= ChunkCap
  BY <1>1, <1>2, <1>4, ConstantTyping
<1>6. n = [s EXCEPT !.buf = b, !.made = s.made + 1] \/ n = [s EXCEPT !.buf = b, !.ad = "finished"]
  BY <1>3
<1> HIDE DEF b
<1>7. /\ n \in StreamType /\ n.buf = b /\ n.out = s.out /\ n.phase = s.phase
      /\ n.attempt = s.attempt
  <2>1. s.made + 1 \in Nat
    BY <1>1 DEF StreamType
  <2>2. CASE n = [s EXCEPT !.buf = b, !.made = s.made + 1]
    BY <1>1, <1>5, <2>1, <2>2 DEF StreamType
  <2>3. CASE n = [s EXCEPT !.buf = b, !.ad = "finished"]
    BY <1>1, <1>5, <2>3 DEF StreamType
  <2>4. QED
    BY <1>6, <2>2, <2>3
<1>8. QED
  BY <1>5, <1>7 DEF StreamOK

(* What llmRetry forwards fits the caller's channel.                        *)
LEMMA ForwardTyping ==
    ASSUME NEW s, StreamOK(s), NEW n \in Forward(s)
    PROVE  StreamOK(n)
<1>1. /\ s.buf # <<>> /\ Len(s.out) < ChunkCap /\ s.buf \in Seq(Chunk) /\ s.out \in Seq(Chunk)
      /\ n = [s EXCEPT !.buf = Tail(s.buf), !.out = Append(s.out, Head(s.buf))]
      /\ s \in StreamType /\ Len(s.buf) <= ChunkCap
  BY DEF Forward, StreamOK, StreamType
<1> DEFINE b == Tail(s.buf)
           o == Append(s.out, Head(s.buf))
<1>2. b \in Seq(Chunk) /\ Len(b) = Len(s.buf) - 1 /\ Head(s.buf) \in Chunk
  BY <1>1, HeadTailProperties
<1>3. o \in Seq(Chunk) /\ Len(o) <= ChunkCap /\ Len(b) <= ChunkCap
  BY <1>1, <1>2, ConstantTyping
<1> HIDE DEF b, o
<1>4. n \in StreamType /\ n.buf = b /\ n.out = o /\ n.phase = s.phase /\ n.attempt = s.attempt
  BY <1>1, <1>2, <1>3 DEF StreamType, b, o
<1>5. QED
  BY <1>3, <1>4 DEF StreamOK

(* Changing the phase, the adapter or the error of a goroutine keeps its    *)
(* type, as long as one that waits has an attempt left.                     *)
LEMMA FieldTyping ==
    ASSUME NEW s, StreamOK(s), NEW n \in StreamType, n.buf = s.buf, n.out = s.out,
           n.phase \in {"wait", "started"} => n.attempt < MaxRetries
    PROVE  StreamOK(n)
  BY DEF StreamOK

(* Every step of llmRetry and its adapter that logs nothing.                *)
LEMMA SilentTyping ==
    ASSUME NEW s, StreamOK(s), NEW n \in Silent(s)
    PROVE  StreamOK(n)
<1>s. s \in StreamType
  BY DEF StreamOK
<1>1. CASE n \in OpenAttempt(s)
  <2> DEFINE f == [s EXCEPT !.outErr = TRUE, !.ended = "failed"]
             o == [s EXCEPT !.phase = "read", !.ad = "open", !.ended = "no"]
  <2>1. s.phase = "open" /\ (n = Exit(f) \/ n = o)
    BY <1>1 DEF OpenAttempt
  <2>2. f \in StreamType /\ f.buf = s.buf /\ f.out = s.out /\ f.phase = "open"
    BY <1>s, <2>1 DEF StreamType
  <2>3. o \in StreamType /\ o.buf = s.buf /\ o.out = s.out /\ o.phase = "read"
    BY <1>s, <2>1 DEF StreamType, Phases
  <2> HIDE DEF f, o
  <2>4. StreamOK(f) /\ StreamOK(o)
    BY <2>2, <2>3, FieldTyping
  <2>5. QED
    BY <2>1, <2>4, ExitTyping
<1>2. CASE n \in Produce(s) \cup Forward(s)
  BY <1>2, ProduceTyping, ForwardTyping
<1>3. CASE n \in AdapterFails(s) \cup AdapterCloses(s)
  <2>1. \/ \E e \in Failures : n = [s EXCEPT !.ad = "erred", !.err = e, !.ended = "failed"]
        \/ n = [s EXCEPT !.ad = "closed", !.ended = "clean"]
        \/ n = [s EXCEPT !.ad = "closed"]
    BY <1>3 DEF AdapterFails, AdapterCloses
  <2>2. /\ n \in StreamType /\ n.buf = s.buf /\ n.out = s.out /\ n.phase = s.phase
        /\ n.attempt = s.attempt
    BY <1>s, <2>1 DEF StreamType, Errors
  <2>3. QED
    BY <2>2, FieldTyping DEF StreamOK
<1>4. CASE n \in ReadCancelled(s) \cup ReadErr(s) \cup ReadClosed(s)
  <2>1. n = Exit(s) \/ n = Failed(s)
    BY <1>4 DEF ReadCancelled, ReadErr, ReadClosed
  <2>2. QED
    BY <2>1, ExitTyping, FailedTyping
<1>5. CASE n \in Wait(s)
  <2> DEFINE w == [s EXCEPT !.phase = "started"]
  <2>1. s.phase = "wait" /\ (n = w \/ n = Exit(s))
    BY <1>5 DEF Wait
  <2>2. /\ w \in StreamType /\ w.buf = s.buf /\ w.out = s.out /\ w.attempt = s.attempt
    BY <1>s DEF StreamType, Phases
  <2> HIDE DEF w
  <2>3. StreamOK(w)
    BY <2>1, <2>2, FieldTyping DEF StreamOK
  <2>4. QED
    BY <2>1, <2>3, ExitTyping
<1>6. QED
  BY <1>1, <1>2, <1>3, <1>4, <1>5 DEF Silent

(* The retry decision and the start of the next attempt.                    *)
LEMMA LoggedTyping ==
    ASSUME NEW s, StreamOK(s), NEW n \in Logged(s)
    PROVE  StreamOK(n)
<1>s. s \in StreamType
  BY DEF StreamOK
<1>1. CASE s.phase = "failed"
  <2> DEFINE f == [s EXCEPT !.outErr = TRUE]
             w == [s EXCEPT !.phase = "wait"]
  <2>1. n = IF Retryable(s) THEN w ELSE Exit(f)
    BY <1>1 DEF Logged
  <2>2. f \in StreamType /\ f.buf = s.buf /\ f.out = s.out /\ f.phase = "failed"
    BY <1>s, <1>1 DEF StreamType
  <2>3. w \in StreamType /\ w.buf = s.buf /\ w.out = s.out /\ w.attempt = s.attempt
    BY <1>s DEF StreamType, Phases
  <2> HIDE DEF f, w
  <2>4. StreamOK(f) /\ (Retryable(s) => StreamOK(w))
    BY <2>2, <2>3, FieldTyping DEF Retryable
  <2>5. QED
    BY <2>1, <2>4, ExitTyping
<1>2. CASE s.phase = "started"
  <2>1. /\ n = [s EXCEPT !.phase = "open", !.attempt = s.attempt + 1, !.err = "none"]
        /\ s.attempt + 1 \in 0 .. MaxRetries
    BY <1>s, <1>2, ConstantTyping DEF Logged, StreamOK, StreamType
  <2>2. n \in StreamType /\ n.buf = s.buf /\ n.out = s.out /\ n.phase = "open"
    BY <1>s, <2>1 DEF StreamType, Phases, Errors
  <2>3. QED
    BY <2>2, FieldTyping
<1>3. QED
  BY <1>1, <1>2 DEF Logged

(* A goroutine the actor abandons, and what it does afterwards.             *)
LEMMA AbandonTyping ==
    ASSUME StreamsOK, Abandon
    PROVE  StreamsOK'
<1>1. StreamOK(stream') /\ stream' = NoStream
  BY NewStreamTyping DEF Abandon
<1>2. OrphanOK(Orphan(stream))
  BY DEF StreamsOK, StreamOK, StreamType, OrphanOK, OrphanType, Orphan, Phases
<1>3. \A s \in orphans' : OrphanOK(s)
  BY <1>2 DEF Abandon, StreamsOK
<1>4. QED
  BY <1>1, <1>3 DEF StreamsOK

(* Whatever an orphan does.                                                 *)
LEMMA OrphanTyping ==
    ASSUME NEW s, OrphanOK(s), NEW n \in OrphanSilent(s) \cup OrphanLogged(s)
    PROVE  OrphanOK(n)
<1>s. s \in OrphanType
  BY DEF OrphanOK
<1>1. CASE n \in OrphanSilent(s)
  <2>1. \/ \E p \in {"blocked", "exited"} : n = [s EXCEPT !.phase = p]
        \/ \E e \in Failures : n = [[s EXCEPT !.phase = "failed"] EXCEPT !.err = e]
        \/ s.phase = "wait" /\ n = [s EXCEPT !.phase = "started"]
    BY <1>1 DEF OrphanSilent
  <2>2. n \in OrphanType
    BY <1>s, <2>1 DEF OrphanType, Phases, Errors
  <2>3. n.phase \in {"wait", "started"} => s.phase = "wait" /\ n.attempt = s.attempt
    BY <1>s, <2>1 DEF OrphanType
  <2>4. QED
    BY <2>2, <2>3 DEF OrphanOK
<1>2. CASE n \in OrphanLogged(s)
  <2>1. CASE s.phase = "failed"
    <3>1. n = [s EXCEPT !.phase = IF Retryable(s) THEN "wait" ELSE "exited"]
      BY <1>2, <2>1 DEF OrphanLogged
    <3>2. n \in OrphanType /\ n.attempt = s.attempt /\ (n.phase = "wait" => Retryable(s))
          /\ n.phase # "started"
      BY <1>s, <3>1 DEF OrphanType, Phases
    <3>3. QED
      BY <3>2 DEF OrphanOK, Retryable
  <2>2. CASE s.phase = "started"
    <3>1. n = [s EXCEPT !.phase = "read", !.attempt = s.attempt + 1, !.err = "none"]
      BY <1>2, <2>2 DEF OrphanLogged
    <3>2. s.attempt + 1 \in 0 .. MaxRetries
      BY <1>s, <2>2, ConstantTyping DEF OrphanOK, OrphanType
    <3>3. n \in OrphanType /\ n.phase = "read"
      BY <1>s, <3>1, <3>2 DEF OrphanType, Phases, Errors
    <3>4. QED
      BY <3>3 DEF OrphanOK
  <2>3. QED
    BY <1>2, <2>1, <2>2 DEF OrphanLogged
<1>3. QED
  BY <1>1, <1>2

(* Whichever of them moves, the rest stay as they are.                      *)
LEMMA ReplaceTyping ==
    ASSUME StreamsOK, NEW s \in orphans, NEW n \in OrphanSilent(s) \cup OrphanLogged(s),
           Replace(s, n), stream' = stream
    PROVE  StreamsOK'
<1>1. OrphanOK(n)
  BY OrphanTyping DEF StreamsOK
<1>2. QED
  BY <1>1 DEF StreamsOK, Replace

-----------------------------------------------------------------------------
(* Every step keeps the types. *)

(* The channels: only a caller adds to them, only the actor takes.          *)
LEMMA InputsFrame ==
    ASSUME [Next]_vars
    PROVE  \/ PostUserMessage \/ PostNextStep \/ TakeMessage \/ DrainInterrupt \/ PollInterrupt
           \/ UNCHANGED inputs
<1> USE DEF callers, others
<1>1. ASSUME \/ ExitActor \/ BeginTurn \/ LogUserMessage \/ DrainEnd \/ LogInterrupt
             \/ LoopTopAbort \/ BeginStep \/ Request \/ SelectDone \/ SelectErr \/ SelectChunk
             \/ SelectClosed
      PROVE  UNCHANGED inputs
  BY <1>1 DEF ExitActor, BeginTurn, LogUserMessage, DrainEnd, LogInterrupt, LoopTopAbort,
     BeginStep, Request, SelectDone, SelectErr, SelectChunk, SelectClosed
<1>2. ASSUME \/ FatalStepEnd \/ FatalTurnEnd \/ TruncateReply \/ TruncateStep
             \/ ReplyError \/ Reply \/ CallTool \/ AnswerTool \/ EndStep \/ EndTurn \/ AfterTurn
             \/ FinishStep \/ FinishTurn
      PROVE  UNCHANGED inputs
  BY <1>2 DEF FatalStepEnd, FatalTurnEnd, TruncateReply, TruncateStep, ReplyError, Reply,
     CallTool, AnswerTool, EndStep, EndTurn, AfterTurn, FinishStep, FinishTurn
<1>3. ASSUME AbortTurn \/ Stop \/ Streams \/ Orphans \/ UNCHANGED vars
      PROVE  UNCHANGED inputs
  BY <1>3 DEF AbortTurn, Stop, Streams, StreamSilent, StreamLogged, Orphans, OrphanReads,
     OrphanLogs, vars
<1>4. QED
  BY <1>1, <1>2, <1>3 DEF Next, Actor

(* The channels and the counters of what was posted.                        *)
LEMMA InputsStep ==
    ASSUME TypeInv, [Next]_vars
    PROVE  InputsOK'
<1>t. InputsOK
  BY DEF TypeInv
<1>1. CASE PostUserMessage
  BY <1>1, <1>t, ConstantTyping DEF PostUserMessage, InputsOK
<1>2. CASE PostNextStep
  BY <1>2, <1>t, ConstantTyping DEF PostNextStep, InputsOK
<1>3. CASE TakeMessage
  BY <1>3, <1>t, ConstantTyping, HeadTailProperties DEF TakeMessage, InputsOK
<1>4. CASE DrainInterrupt \/ PollInterrupt
  <2>1. UNCHANGED <<inbox, posted, postedSteps>>
        /\ (interrupts' = interrupts \/ (interrupts # <<>> /\ interrupts' = Tail(interrupts)))
    BY <1>4 DEF DrainInterrupt, PollInterrupt
  <2>2. QED
    <3>1. interrupts # <<>> => /\ Tail(interrupts) \in Seq(Nat)
                               /\ Len(Tail(interrupts)) = Len(interrupts) - 1
      BY <1>t, HeadTailProperties DEF InputsOK
    <3>2. Len(interrupts) \in Nat /\ Len(interrupts) <= StepCap
      BY <1>t DEF InputsOK
    <3>3. interrupts' \in Seq(Nat) /\ Len(interrupts') <= StepCap
      <4>1. CASE interrupts' = interrupts
        BY <1>t, <4>1 DEF InputsOK
      <4>2. CASE interrupts # <<>> /\ interrupts' = Tail(interrupts)
        <5>1. Len(Tail(interrupts)) <= StepCap
          BY <3>1, <3>2, <4>2, ConstantTyping
        <5>2. QED
          BY <3>1, <4>2, <5>1
      <4>3. QED
        BY <2>1, <4>1, <4>2
    <3>4. QED
      BY <1>t, <2>1, <3>3 DEF InputsOK
<1>5. CASE UNCHANGED inputs
  BY <1>5, <1>t DEF inputs, InputsOK
<1>6. QED
  BY <1>1, <1>2, <1>3, <1>4, <1>5, InputsFrame

(* The contexts and isRunning.                                              *)
LEMMA FlagsStep ==
    ASSUME TypeInv, [Next]_vars
    PROVE  FlagsOK'
<1> USE DEF callers, others
<1>t. FlagsOK
  BY DEF TypeInv
<1>1. CASE AbortTurn \/ Stop \/ PostUserMessage \/ PostNextStep
  BY <1>1, <1>t DEF AbortTurn, Stop, PostUserMessage, PostNextStep, FlagsOK
<1>2. CASE TakeMessage \/ EndTurn
  BY <1>2, <1>t DEF TakeMessage, EndTurn, FlagsOK
<1>3. CASE FatalTurnEnd \/ AfterTurn \/ FinishTurn
  BY <1>3, <1>t DEF FatalTurnEnd, AfterTurn, FinishTurn, Release, FlagsOK
<1>4. CASE \/ ExitActor \/ BeginTurn \/ LogUserMessage \/ DrainInterrupt \/ DrainEnd \/ LogInterrupt
           \/ LoopTopAbort \/ BeginStep \/ Request \/ PollInterrupt \/ SelectDone \/ SelectErr
           \/ SelectChunk \/ SelectClosed
  BY <1>4, <1>t DEF ExitActor, BeginTurn, LogUserMessage, DrainInterrupt, DrainEnd, LogInterrupt,
     LoopTopAbort, BeginStep, Request, PollInterrupt, SelectDone, SelectErr, SelectChunk,
     SelectClosed, FlagsOK
<1>5. CASE \/ FatalStepEnd \/ TruncateReply \/ TruncateStep \/ ReplyError \/ Reply \/ CallTool
           \/ AnswerTool \/ EndStep \/ FinishStep
  BY <1>5, <1>t DEF FatalStepEnd, TruncateReply, TruncateStep, ReplyError, Reply,
     CallTool, AnswerTool, EndStep, FinishStep, FlagsOK
<1>6. CASE Streams \/ Orphans \/ UNCHANGED vars
  BY <1>6, <1>t DEF Streams, StreamSilent, StreamLogged, Orphans, OrphanReads, OrphanLogs, vars,
     FlagsOK
<1>7. QED
  BY <1>1, <1>2, <1>3, <1>4, <1>5, <1>6 DEF Next, Actor

(* Every append the loop makes is one of a few kinds.                       *)
LEMMA PersistFrame ==
    ASSUME [Next]_vars
    PROVE  \/ TakeMessage
           \/ \E type \in Boundaries, kind \in EndKinds \cup {"none"} : EmitBoundary(type, kind)
           \/ FinishTurn
           \/ \E type \in EventNames : EmitEvent(type)
           \/ EmitLogOnly
           \/ LogUserMessage \/ LogInterrupt
           \/ UNCHANGED <<machine, persist>>
<1> USE DEF others
<1>1. CASE \/ BeginTurn \/ DrainEnd \/ BeginStep \/ FatalStepEnd \/ FatalTurnEnd \/ TruncateStep
           \/ EndStep \/ EndTurn \/ FinishStep
  BY <1>1 DEF BeginTurn, DrainEnd, BeginStep, FatalStepEnd, FatalTurnEnd, TruncateStep,
     EndStep, EndTurn, FinishStep, Boundaries, EndKinds
<1>2. CASE SelectChunk \/ Reply \/ ReplyError \/ CallTool \/ AnswerTool \/ TruncateReply
  BY <1>2 DEF SelectChunk, Reply, ReplyError, CallTool, AnswerTool, TruncateReply, EventNames
<1>3. CASE Request \/ AfterTurn
  BY <1>3 DEF Request, AfterTurn
<1>4. CASE StreamLogged \/ OrphanLogs
  BY <1>4 DEF StreamLogged, OrphanLogs, EmitLogOnly
<1>5. CASE \/ PostUserMessage \/ PostNextStep \/ AbortTurn \/ Stop \/ ExitActor \/ DrainInterrupt
           \/ LoopTopAbort \/ PollInterrupt \/ SelectDone \/ SelectErr \/ SelectClosed
           \/ StreamSilent \/ OrphanReads \/ UNCHANGED vars
  BY <1>5 DEF PostUserMessage, PostNextStep, AbortTurn, Stop, ExitActor, DrainInterrupt,
     LoopTopAbort, PollInterrupt, SelectDone, SelectErr, SelectClosed, StreamSilent, OrphanReads,
     vars
<1>6. QED
  BY <1>1, <1>2, <1>3, <1>4, <1>5 DEF Next, Actor, Streams, Orphans

(* The machine and the store.                                               *)
LEMMA PersistStep ==
    ASSUME TypeInv, [Next]_vars
    PROVE  PersistOK'
<1>t. /\ PersistOK /\ turn \in Nat /\ step \in Nat /\ hand \in Seq(Nat)
      /\ reason \in EndKinds \cup {"none"}
  BY DEF TypeInv, LocalsOK, EndKinds
<1>1. CASE TakeMessage
  BY <1>1, <1>t DEF TakeMessage, PersistOK, Machine, persist
<1>2. CASE FinishTurn
  BY <1>2, <1>t, BoundaryTyping DEF FinishTurn, Boundaries
<1>3. CASE LogUserMessage \/ LogInterrupt
  BY <1>3, <1>t, EmitTyping DEF LogUserMessage, LogInterrupt
<1>4. QED
  BY <1>1, <1>2, <1>3, <1>t, PersistFrame, BoundaryTyping, EmitTyping

(* The actor's own state.                                                   *)
LEMMA LocalsStep ==
    ASSUME TypeInv, [Next]_vars, PersistOK'
    PROVE  LocalsOK'
<1> USE DEF callers, others, locals
<1>t. /\ InputsOK /\ LocalsOK /\ StreamOK(stream)
      /\ machine'.activeTurn \in Nat /\ machine'.activeStep \in Nat
      /\ <<>> \in Seq(Nat) /\ EmptyAsm \in AsmType
  BY DEF TypeInv, PersistOK, Machine, StreamsOK, EmptyAsm, AsmType
<1>1. CASE \/ PostUserMessage \/ PostNextStep \/ AbortTurn \/ Stop \/ Streams \/ Orphans
           \/ UNCHANGED vars
  BY <1>1, <1>t DEF PostUserMessage, PostNextStep, AbortTurn, Stop, Streams, StreamSilent,
     StreamLogged, Orphans, OrphanReads, OrphanLogs, vars, LocalsOK
<1>2. CASE ExitActor
  BY <1>2, <1>t DEF ExitActor, Goto, LocalsOK, Pcs, Afters
<1>3. CASE TakeMessage \/ DrainInterrupt \/ PollInterrupt
  <2>1. UNCHANGED <<turn, step, finished, sticky, reason, after, asm>>
        /\ pc' \in {"turnStart", "drainEnd", "truncMsg", "select"}
    BY <1>3 DEF TakeMessage, DrainInterrupt, PollInterrupt, Goto
  <2>2. \/ inbox # <<>> /\ hand' = <<Head(inbox)>>
        \/ interrupts # <<>> /\ hand' = <<Head(interrupts)>>
        \/ hand' = hand
    BY <1>3 DEF TakeMessage, DrainInterrupt, PollInterrupt
  <2>3. hand' \in Seq(Nat)
    <3>1. inbox # <<>> => Head(inbox) \in Nat
      BY <1>t, HeadTailProperties DEF InputsOK
    <3>2. interrupts # <<>> => Head(interrupts) \in Nat
      BY <1>t, HeadTailProperties DEF InputsOK
    <3>3. \A n \in Nat : <<n>> \in Seq(Nat)
      OBVIOUS
    <3>4. QED
      BY <1>t, <2>2, <3>1, <3>2, <3>3 DEF LocalsOK
  <2>4. QED
    BY <1>t, <2>1, <2>3 DEF LocalsOK, Pcs, Afters
<1>4. CASE BeginTurn \/ DrainEnd \/ FatalStepEnd \/ LoopTopAbort \/ SelectDone
  BY <1>4, <1>t DEF BeginTurn, DrainEnd, FatalStepEnd, LoopTopAbort, SelectDone, Finish, Goto,
     LocalsOK, Pcs, Afters
<1>5. CASE LogUserMessage \/ LogInterrupt \/ BeginStep
  BY <1>5, <1>t DEF LogUserMessage, LogInterrupt, BeginStep, Goto, LocalsOK, Pcs, Afters
<1>6. CASE Request
  BY <1>6, <1>t DEF Request, Goto, LocalsOK, Pcs, Afters
<1>7. CASE SelectErr \/ SelectClosed
  BY <1>7, <1>t DEF SelectErr, SelectClosed, RouteStepFatal, Finish, Goto, LocalsOK, Pcs, Afters
<1>8. CASE SelectChunk
  <2>1. Head(stream.out) \in Chunk
    BY <1>8, <1>t, HeadTailProperties DEF SelectChunk, StreamOK, StreamType
  <2>2. asm' \in AsmType
    BY <1>8, <1>t, <2>1, IngestTyping DEF SelectChunk, LocalsOK
  <2>3. QED
    BY <1>8, <1>t, <2>2 DEF SelectChunk, Goto, LocalsOK, Pcs, Afters
<1>9. CASE TruncateReply \/ CallTool \/ EndTurn \/ FinishStep
  BY <1>9, <1>t DEF TruncateReply, CallTool, EndTurn, FinishStep, Goto, LocalsOK, Pcs, Afters
<1>10. CASE TruncateStep \/ EndStep
  BY <1>10, <1>t DEF TruncateStep, EndStep, Finish, Abandon, Goto, LocalsOK, Pcs, Afters
<1>11. CASE ReplyError
  BY <1>11, <1>t DEF ReplyError, Finish, LocalsOK, Pcs, Afters
<1>12. CASE Reply
  <2>1. asm' \in AsmType
    <3>1. asm.tools \in Int
      BY <1>t DEF LocalsOK, AsmType
    <3>2. QED
      BY <1>12, <1>t, <3>1 DEF Reply, AsmType, EmptyAsm
  <2>2. sticky' \in BOOLEAN /\ finished' \in BOOLEAN
    BY <1>12, <1>t DEF Reply, LocalsOK
  <2>3. UNCHANGED <<turn, step, hand, reason, after>> /\ pc' \in {"toolCall", "stepEnd"}
    BY <1>12 DEF Reply, Goto
  <2>4. QED
    BY <1>t, <2>1, <2>2, <2>3 DEF LocalsOK, Pcs
<1>13. CASE AnswerTool
  <2>1. asm' \in AsmType
    <3>1. asm.tools - 1 \in Int /\ asm' = [asm EXCEPT !.tools = asm.tools - 1]
      BY <1>13, <1>t DEF AnswerTool, LocalsOK, AsmType
    <3>2. QED
      BY <1>t, <3>1 DEF AsmType, LocalsOK
  <2>2. UNCHANGED <<turn, step, finished, sticky, hand>>
    BY <1>13 DEF AnswerTool, Finish
  <2>3. /\ pc' \in {"finishStep", "toolCall", "stepEnd"}
        /\ reason' \in {reason, "aborted"} /\ after' \in {after, "exited", "idle"}
        /\ pc' = "finishStep" => after' \in {"exited", "idle"}
    BY <1>13 DEF AnswerTool, Finish, Goto
  <2>4. turn' \in Nat /\ step' \in Nat /\ finished' \in BOOLEAN /\ sticky' \in BOOLEAN
        /\ hand' \in Seq(Nat)
    BY <1>t, <2>2 DEF LocalsOK
  <2>5. reason' \in {"none", "aborted", "error"} /\ after' \in Afters \cup {"none"}
    BY <1>t, <2>3 DEF LocalsOK, Afters
  <2>6. QED
    BY <2>1, <2>3, <2>4, <2>5 DEF LocalsOK, Pcs, Afters
<1>14. CASE FatalTurnEnd \/ AfterTurn \/ FinishTurn
  <2>1. PICK p \in Afters : Release(p)
    BY <1>14, <1>t DEF FatalTurnEnd, AfterTurn, FinishTurn, LocalsOK, Afters
  <2>2. /\ pc' \in Afters /\ turn' = 0 /\ step' = 0 /\ finished' = FALSE /\ sticky' = FALSE
        /\ hand' = <<>> /\ reason' = "none" /\ after' = "none" /\ asm' = EmptyAsm
    BY <2>1 DEF Release, Abandon
  <2>3. hand' \in Seq(Nat) /\ asm' \in AsmType /\ turn' \in Nat /\ step' \in Nat
    BY <1>t, <2>2
  <2>4. QED
    BY <2>2, <2>3 DEF LocalsOK, Pcs, Afters
<1>16. QED
  BY <1>1, <1>2, <1>3, <1>4, <1>5, <1>6, <1>7, <1>8, <1>9, <1>10, <1>11, <1>12, <1>13, <1>14
     DEF Next, Actor

(* The goroutines, the channels they fill and those nobody reads any more.  *)
LEMMA StreamsStep ==
    ASSUME TypeInv, [Next]_vars
    PROVE  StreamsOK'
<1>t. StreamsOK /\ LocalsOK /\ StreamOK(stream)
  BY DEF TypeInv, StreamsOK
<1>1. CASE StreamSilent \/ StreamLogged
  <2>1. stream' \in Silent(stream) \cup Logged(stream) /\ orphans' = orphans
    BY <1>1 DEF StreamSilent, StreamLogged
  <2>2. StreamOK(stream')
    BY <1>t, <2>1, SilentTyping, LoggedTyping
  <2>3. QED
    BY <1>t, <2>1, <2>2 DEF StreamsOK
<1>2. CASE OrphanReads \/ OrphanLogs
  <2>1. /\ stream' = stream
        /\ \E s \in orphans : \E n \in OrphanSilent(s) \cup OrphanLogged(s) : Replace(s, n)
    BY <1>2 DEF OrphanReads, OrphanLogs, others
  <2>2. QED
    BY <1>t, <2>1, ReplaceTyping
<1>3. CASE Request
  <2>1. stream' = NewStream(turn, step) /\ orphans' = orphans
    BY <1>3 DEF Request
  <2>2. StreamOK(stream')
    BY <1>t, <2>1, NewStreamTyping DEF LocalsOK
  <2>3. QED
    BY <1>t, <2>1, <2>2 DEF StreamsOK
<1>4. CASE Reply
  <2>1. stream' = NoStream /\ orphans' = orphans
    BY <1>4 DEF Reply
  <2>2. QED
    BY <1>t, <2>1, NewStreamTyping DEF StreamsOK
<1>5. CASE SelectChunk
  <2>1. /\ stream' = [stream EXCEPT !.out = Tail(stream.out)] /\ stream.out # <<>>
        /\ orphans' = orphans /\ stream.out \in Seq(Chunk) /\ stream \in StreamType
    BY <1>5, <1>t DEF SelectChunk, StreamOK, StreamType
  <2> DEFINE o == Tail(stream.out)
  <2>2. o \in Seq(Chunk) /\ Len(o) = Len(stream.out) - 1 /\ Len(stream.out) <= ChunkCap
    BY <1>t, <2>1, HeadTailProperties DEF StreamOK
  <2> HIDE DEF o
  <2>3. /\ stream' \in StreamType /\ stream'.out = o /\ stream'.buf = stream.buf
        /\ stream'.phase = stream.phase /\ stream'.attempt = stream.attempt
    BY <2>1, <2>2 DEF StreamType, o
  <2>4. Len(o) <= ChunkCap
    BY <2>1, <2>2, ConstantTyping
  <2>5. StreamOK(stream')
    BY <1>t, <2>3, <2>4 DEF StreamOK
  <2>6. QED
    BY <1>t, <2>1, <2>5 DEF StreamsOK
<1>6. CASE FatalTurnEnd \/ AfterTurn \/ FinishTurn
  BY <1>6, <1>t, AbandonTyping DEF FatalTurnEnd, AfterTurn, FinishTurn, Release
<1>7. CASE TruncateStep \/ EndStep
  <2>1. Abandon \/ UNCHANGED <<stream, orphans>>
    BY <1>7 DEF TruncateStep, EndStep
  <2>2. QED
    BY <1>t, <2>1, AbandonTyping DEF StreamsOK
<1>8. CASE \/ PostUserMessage \/ PostNextStep \/ AbortTurn \/ Stop \/ UNCHANGED vars
           \/ ExitActor \/ TakeMessage \/ BeginTurn \/ LogUserMessage \/ DrainInterrupt
           \/ DrainEnd \/ LogInterrupt \/ LoopTopAbort \/ BeginStep
  BY <1>8, <1>t DEF PostUserMessage, PostNextStep, AbortTurn, Stop, vars, ExitActor, TakeMessage,
     BeginTurn, LogUserMessage, DrainInterrupt, DrainEnd, LogInterrupt, LoopTopAbort, BeginStep,
     StreamsOK
<1>9. CASE \/ PollInterrupt \/ SelectDone \/ SelectErr \/ SelectClosed \/ FatalStepEnd
           \/ TruncateReply \/ ReplyError \/ CallTool \/ AnswerTool \/ EndTurn \/ FinishStep
  BY <1>9, <1>t DEF PollInterrupt, SelectDone, SelectErr, SelectClosed, FatalStepEnd,
     TruncateReply, ReplyError, CallTool, AnswerTool, EndTurn, FinishStep, StreamsOK
<1>10. QED
  BY <1>1, <1>2, <1>3, <1>4, <1>5, <1>6, <1>7, <1>8, <1>9 DEF Next, Actor, Streams, Orphans

(* All of it together.                                                      *)
LEMMA TypeStep ==
    ASSUME TypeInv, [Next]_vars
    PROVE  TypeInv'
<1>1. PersistOK'
  BY PersistStep
<1>2. QED
  BY <1>1, InputsStep, FlagsStep, LocalsStep, StreamsStep DEF TypeInv

(* Every variable of the loop has its type and every channel keeps its      *)
(* capacity, whatever the callers post, the provider streams and the store  *)
(* refuses (actorLoop, llmRetry).                                           *)
THEOREM TypeCorrect == Spec => []TypeOK
<1>1. TypeInv /\ [Next]_vars => TypeInv'
  BY TypeStep
<1>2. Spec => []TypeInv
  BY <1>1, TypeInit, PTL DEF Spec
<1>3. QED
  BY <1>2, TypeCovered, PTL

-----------------------------------------------------------------------------
(* What an append does. *)

(* It adds d to the log, or the store misses it and every later one.        *)
LEMMA Appended ==
    ASSUME PersistOK, NEW d, Persist(d)
    PROVE  /\ gap' \in BOOLEAN /\ (gap => gap')
           /\ durable' = IF gap' THEN durable ELSE d
<1>1. CASE ~gap /\ durable' = d /\ UNCHANGED <<gap, faults>>
  BY <1>1 DEF PersistOK
<1>2. CASE ~gap /\ faults < MaxFaults /\ gap' = TRUE /\ faults' = faults + 1 /\ UNCHANGED durable
  BY <1>2 DEF PersistOK
<1>3. CASE gap /\ UNCHANGED persist
  BY <1>3 DEF PersistOK, persist
<1>4. QED
  BY <1>1, <1>2, <1>3 DEF Persist

(* The four boundaries, as the machine and the log see them.                *)
LEMMA TurnStarts ==
    ASSUME PersistOK, machine.activeTurn = 0, EmitBoundary(TurnStart, "none")
    PROVE  /\ machine' = [activeTurn |-> machine.turnNumber + 1, activeStep |-> 0,
                          turnNumber |-> machine.turnNumber + 1, stepNumber |-> machine.stepNumber]
           /\ gap' \in BOOLEAN /\ (gap => gap') /\ (BoundaryOK(TurnStart) <=> ~gap')
           /\ durable' = IF gap' THEN durable
                         ELSE Reduce(durable, Event(TurnStart, machine.turnNumber + 1, 0, "none"))
<1> USE DEF TurnStart, TurnEnd, StepStart, StepEnd
<1>1. Admissible(machine, TurnStart)
  BY DEF Admissible
<1>2. /\ Transit(machine, TurnStart) =
            [activeTurn |-> machine.turnNumber + 1, activeStep |-> 0,
             turnNumber |-> machine.turnNumber + 1, stepNumber |-> machine.stepNumber]
      /\ StampTurn(machine, TurnStart) = machine.turnNumber + 1
  BY DEF Transit, StampTurn
<1>3. Persist(Reduce(durable, Event(TurnStart, machine.turnNumber + 1, 0, "none")))
  BY <1>1, <1>2 DEF EmitBoundary
<1>4. QED
  BY <1>1, <1>2, <1>3, Appended DEF EmitBoundary, BoundaryOK

(* BeginStep: step/start while a turn is open.                              *)
LEMMA StepStarts ==
    ASSUME PersistOK, machine.activeTurn # 0, machine.activeStep = 0, EmitBoundary(StepStart, "none")
    PROVE  /\ machine' = [activeTurn |-> machine.activeTurn, activeStep |-> machine.stepNumber + 1,
                          turnNumber |-> machine.turnNumber, stepNumber |-> machine.stepNumber + 1]
           /\ gap' \in BOOLEAN /\ (gap => gap')
           /\ durable' = IF gap' THEN durable
                         ELSE Reduce(durable, Event(StepStart, machine.activeTurn,
                                                    machine.stepNumber + 1, "none"))
<1> USE DEF TurnStart, TurnEnd, StepStart, StepEnd
<1>1. Admissible(machine, StepStart)
  BY DEF Admissible
<1>2. /\ Transit(machine, StepStart) =
            [activeTurn |-> machine.activeTurn, activeStep |-> machine.stepNumber + 1,
             turnNumber |-> machine.turnNumber, stepNumber |-> machine.stepNumber + 1]
      /\ StampTurn(machine, StepStart) = machine.activeTurn
      /\ StampStep(machine, StepStart) = machine.stepNumber + 1
  BY DEF Transit, StampTurn, StampStep
<1>3. Persist(Reduce(durable, Event(StepStart, machine.activeTurn, machine.stepNumber + 1, "none")))
  BY <1>1, <1>2 DEF EmitBoundary
<1>4. QED
  BY <1>1, <1>2, <1>3, Appended DEF EmitBoundary

(* A step/end; without an open step it is rejected and changes nothing.     *)
LEMMA StepEnds ==
    ASSUME PersistOK, EmitBoundary(StepEnd, "none")
    PROVE  /\ machine' = [machine EXCEPT !.activeStep = 0]
           /\ gap' \in BOOLEAN /\ (gap => gap')
           /\ BoundaryOK(StepEnd) <=> machine.activeStep = 0 \/ ~gap'
           /\ durable' = IF gap' \/ machine.activeStep = 0 THEN durable
                         ELSE Reduce(durable, Event(StepEnd, machine.activeTurn,
                                                    machine.activeStep, "none"))
           /\ machine.activeStep = 0 => gap' = gap
<1> USE DEF TurnStart, TurnEnd, StepStart, StepEnd
<1>1. CASE machine.activeStep = 0
  <2>1. ~Admissible(machine, StepEnd)
    BY <1>1 DEF Admissible
  <2>2. UNCHANGED <<machine, gap, durable>>
    BY <2>1 DEF EmitBoundary, persist
  <2>3. machine = [machine EXCEPT !.activeStep = 0]
    BY <1>1 DEF PersistOK, Machine
  <2>4. QED
    BY <1>1, <2>1, <2>2, <2>3 DEF BoundaryOK, PersistOK
<1>2. CASE machine.activeStep # 0
  <2>1. Admissible(machine, StepEnd)
    BY <1>2 DEF Admissible
  <2>2. /\ Transit(machine, StepEnd) = [machine EXCEPT !.activeStep = 0]
        /\ StampTurn(machine, StepEnd) = machine.activeTurn
        /\ StampStep(machine, StepEnd) = machine.activeStep
    BY DEF Transit, StampTurn, StampStep
  <2>3. Persist(Reduce(durable, Event(StepEnd, machine.activeTurn, machine.activeStep, "none")))
    BY <2>1, <2>2 DEF EmitBoundary
  <2>4. QED
    BY <1>2, <2>1, <2>2, <2>3, Appended DEF EmitBoundary, BoundaryOK
<1>3. QED
  BY <1>1, <1>2

(* A turn/end; without an open turn it is rejected and changes nothing.     *)
LEMMA TurnEnds ==
    ASSUME PersistOK, machine.activeStep = 0, NEW kind, EmitBoundary(TurnEnd, kind)
    PROVE  /\ machine' = [machine EXCEPT !.activeTurn = 0]
           /\ gap' \in BOOLEAN /\ (gap => gap')
           /\ durable' = IF gap' \/ machine.activeTurn = 0 THEN durable
                         ELSE Reduce(durable, Event(TurnEnd, machine.activeTurn, 0, kind))
<1> USE DEF TurnStart, TurnEnd, StepStart, StepEnd
<1>1. CASE machine.activeTurn = 0
  <2>1. ~Admissible(machine, TurnEnd)
    BY <1>1 DEF Admissible
  <2>2. UNCHANGED <<machine, gap, durable>>
    BY <2>1 DEF EmitBoundary, persist
  <2>3. machine = [machine EXCEPT !.activeTurn = 0]
    BY <1>1 DEF PersistOK, Machine
  <2>4. QED
    BY <1>1, <2>1, <2>2, <2>3 DEF PersistOK
<1>2. CASE machine.activeTurn # 0
  <2>1. Admissible(machine, TurnEnd)
    BY <1>2 DEF Admissible
  <2>2. /\ Transit(machine, TurnEnd) = [machine EXCEPT !.activeTurn = 0]
        /\ StampTurn(machine, TurnEnd) = machine.activeTurn
    BY DEF Transit, StampTurn
  <2>3. Persist(Reduce(durable, Event(TurnEnd, machine.activeTurn, 0, kind)))
    BY <2>1, <2>2 DEF EmitBoundary
  <2>4. QED
    BY <1>2, <2>1, <2>2, <2>3, Appended DEF EmitBoundary
<1>3. QED
  BY <1>1, <1>2

(* The events the machine does not track leave it alone.                    *)
LEMMA EventEmitted ==
    ASSUME PersistOK, NEW type, EmitEvent(type)
    PROVE  /\ machine' = machine /\ gap' \in BOOLEAN /\ (gap => gap')
           /\ durable' = IF gap' THEN durable
                         ELSE Reduce(durable, Event(type, turn, step, "none"))
  BY Appended DEF EmitEvent

(* A log-only event leaves the reader's view of the log as it is.           *)
LEMMA LogOnlyEmitted ==
    ASSUME PersistOK, Persist(durable)
    PROVE  gap' \in BOOLEAN /\ (gap => gap') /\ durable' = durable
  BY Appended

(* A human message changes nothing of the log but the messages and its end. *)
LEMMA MessageEmitted ==
    ASSUME PersistOK, NEW d, EmitUserMessage(d)
    PROVE  /\ machine' = machine /\ gap' \in BOOLEAN /\ (gap => gap')
           /\ durable' = IF gap' THEN durable ELSE Reduce(d, Event(UserMessage, 0, 0, "none"))
  BY Appended DEF EmitUserMessage

-----------------------------------------------------------------------------
(* The brackets of the machine. *)

(* Where the actor is says which brackets are open; its locals name them.   *)
(* Only a turn whose step/end the store refused is looped through once more *)
(* without one, and then its context is gone.                               *)
InStep == {"request", "stream", "select", "fatalStepEnd", "truncMsg", "truncEnd", "reply",
           "toolCall", "toolResult", "stepEnd"}
Between == {"userMsg", "loopTop", "drainEnd", "drainMsg", "fatalTurnEnd", "turnEnd"}
Closed == {"idle", "exited", "turnStart", "afterTurn"}

BracketInv ==
    /\ pc \in Closed => machine.activeTurn = 0 /\ machine.activeStep = 0
    /\ pc \in {"idle", "exited"} => ~running /\ turnCtx = "none"
    /\ pc = "turnStart" => machine.stepNumber = 0
    /\ pc \in Between => machine.activeStep = 0
    /\ pc \in Between \cup InStep => turn = machine.activeTurn
    /\ pc \in {"userMsg", "fatalTurnEnd", "turnEnd"} => machine.activeTurn # 0
    /\ pc \in {"loopTop", "drainEnd", "drainMsg"} =>
          machine.activeTurn # 0 \/ (gap /\ turnCtx = "none")
    /\ pc \in InStep =>
          machine.activeTurn # 0 /\ machine.activeStep # 0 /\ step = machine.activeStep
    /\ pc = "finishTurn" => machine.activeStep = 0
    /\ pc \in {"finishStep", "finishTurn"} =>
          reason \in {"aborted", "error"} /\ (after = "loopTop" => gap)

(* At the start every bracket is closed.                                    *)
LEMMA BracketInit == Init => BracketInv
  BY DEF Init, BracketInv, Closed, Between, InStep, FreshMachine

(* The retry goroutines and the callers open and close no bracket.          *)
LEMMA Bystanders ==
    ASSUME TypeInv,
           \/ PostUserMessage \/ PostNextStep \/ AbortTurn \/ Stop
           \/ StreamSilent \/ StreamLogged \/ OrphanReads \/ OrphanLogs \/ UNCHANGED vars
    PROVE  /\ UNCHANGED <<machine, running, pc, locals, asm, durable>>
           /\ gap' \in BOOLEAN /\ (gap => gap')
           /\ turnCtx' = turnCtx \/ (turnCtx = "live" /\ turnCtx' = "cancelled")
<1>p. PersistOK /\ gap \in BOOLEAN
  BY DEF TypeInv, PersistOK
<1> USE DEF others, persist, inputs
<1>1. CASE PostUserMessage \/ PostNextStep \/ AbortTurn \/ Stop
  BY <1>1, <1>p DEF PostUserMessage, PostNextStep, AbortTurn, Stop
<1>2. CASE StreamSilent \/ OrphanReads
  BY <1>2, <1>p DEF StreamSilent, OrphanReads
<1>3. CASE StreamLogged \/ OrphanLogs
  BY <1>3, <1>p, LogOnlyEmitted DEF StreamLogged, OrphanLogs
<1>4. CASE UNCHANGED vars
  BY <1>4, <1>p DEF vars
<1>5. QED
  BY <1>1, <1>2, <1>3, <1>4

(* Every step of the loop keeps the brackets where pc says they are.        *)
LEMMA BracketStep ==
    ASSUME TypeInv, BracketInv, [Next]_vars
    PROVE  BracketInv'
<1>p. PersistOK /\ gap \in BOOLEAN /\ machine \in Machine /\ LocalsOK
  BY DEF TypeInv, PersistOK
<1>m. /\ machine.activeTurn \in Nat /\ machine.activeStep \in Nat
      /\ machine.turnNumber \in Nat /\ machine.stepNumber \in Nat
  BY <1>p DEF Machine
<1> USE DEF Closed, Between, InStep
<1>1. CASE \/ PostUserMessage \/ PostNextStep \/ AbortTurn \/ Stop
           \/ StreamSilent \/ StreamLogged \/ OrphanReads \/ OrphanLogs \/ UNCHANGED vars
  BY <1>1, Bystanders DEF BracketInv, locals
<1>2. CASE ExitActor
  BY <1>2 DEF ExitActor, Goto, BracketInv
<1>3. CASE TakeMessage
  BY <1>3, <1>p DEF TakeMessage, Goto, BracketInv, Machine
<1>4. CASE BeginTurn
  <2>1. pc = "turnStart" /\ EmitBoundary(TurnStart, "none") /\ machine.activeTurn = 0
    BY <1>4 DEF BeginTurn, BracketInv
  <2>2. /\ machine'.activeTurn = machine.turnNumber + 1 /\ machine'.activeStep = 0
        /\ BoundaryOK(TurnStart) <=> ~gap'
    BY <1>p, <2>1, TurnStarts
  <2>3. CASE ~gap'
    BY <1>4, <1>m, <2>2, <2>3 DEF BeginTurn, Goto, BracketInv
  <2>4. CASE gap'
    BY <1>4, <2>2, <2>4 DEF BeginTurn, Finish, BracketInv
  <2>5. QED
    BY <2>3, <2>4
<1>5. CASE LogUserMessage
  <2>1. machine' = machine /\ pc = "userMsg" /\ pc' = "loopTop" /\ turn' = turn
    BY <1>5 DEF LogUserMessage, EmitUserMessage, Goto
  <2>2. QED
    BY <2>1 DEF BracketInv
<1>6. CASE DrainInterrupt
  BY <1>6 DEF DrainInterrupt, Goto, BracketInv, persist
<1>7. CASE DrainEnd
  <2>1. pc = "drainEnd" /\ EmitBoundary(StepEnd, "none") /\ machine.activeStep = 0
    BY <1>7 DEF DrainEnd, BracketInv
  <2>2. machine' = [machine EXCEPT !.activeStep = 0] /\ BoundaryOK(StepEnd) /\ gap' = gap
    BY <1>p, <2>1, StepEnds
  <2>3. machine'.activeTurn = machine.activeTurn /\ machine'.activeStep = 0
    BY <1>p, <2>2 DEF Machine
  <2>4. QED
    BY <1>7, <2>2, <2>3 DEF DrainEnd, Goto, locals, BracketInv
<1>8. CASE LogInterrupt
  <2>1. /\ machine' = machine /\ pc = "drainMsg" /\ pc' = "loopTop" /\ turn' = turn
        /\ turnCtx' = turnCtx /\ EmitUserMessage([durable EXCEPT !.interrupts = @ \o hand])
    BY <1>8 DEF LogInterrupt, EmitUserMessage, Goto
  <2>2. gap => gap'
    BY <1>p, <2>1, MessageEmitted
  <2>3. QED
    BY <2>1, <2>2 DEF BracketInv
<1>9. CASE LoopTopAbort
  BY <1>9 DEF LoopTopAbort, Finish, BracketInv
<1>10. CASE BeginStep
  <2>1. /\ pc = "loopTop" /\ EmitBoundary(StepStart, "none") /\ turnCtx = "live"
        /\ step' = machine'.activeStep /\ pc' = "request" /\ turn' = turn
    BY <1>10 DEF BeginStep, TurnDone, Goto
  <2>2. machine.activeTurn # 0 /\ machine.activeStep = 0 /\ turn = machine.activeTurn
    BY <2>1 DEF BracketInv
  <2>3. /\ machine'.activeTurn = machine.activeTurn
        /\ machine'.activeStep = machine.stepNumber + 1
    BY <1>p, <2>1, <2>2, StepStarts
  <2>4. QED
    BY <1>m, <2>1, <2>2, <2>3 DEF BracketInv
<1>11. CASE Request
  BY <1>11 DEF Request, EmitLogOnly, Goto, locals, BracketInv
<1>12. CASE PollInterrupt
  BY <1>12 DEF PollInterrupt, Goto, BracketInv
<1>13. CASE SelectDone \/ SelectErr \/ SelectClosed
  BY <1>13 DEF SelectDone, SelectErr, SelectClosed, RouteStepFatal, Finish, Goto, locals, BracketInv
<1>14. CASE SelectChunk \/ TruncateReply \/ CallTool
  BY <1>14 DEF SelectChunk, TruncateReply, CallTool, EmitEvent, Goto, locals, BracketInv
<1>15. CASE FatalStepEnd
  <2>1. pc = "fatalStepEnd" /\ EmitBoundary(StepEnd, "none")
    BY <1>15 DEF FatalStepEnd
  <2>2. machine' = [machine EXCEPT !.activeStep = 0]
    BY <1>p, <2>1, StepEnds
  <2>3. machine'.activeTurn = machine.activeTurn /\ machine'.activeStep = 0
    BY <1>p, <2>2 DEF Machine
  <2>4. QED
    BY <1>15, <2>3 DEF FatalStepEnd, Finish, Goto, locals, BracketInv
<1>16. CASE TruncateStep
  <2>1. pc = "truncEnd" /\ EmitBoundary(StepEnd, "none")
    BY <1>16 DEF TruncateStep
  <2>2. machine' = [machine EXCEPT !.activeStep = 0]
    BY <1>p, <2>1, StepEnds
  <2>3. machine'.activeTurn = machine.activeTurn /\ machine'.activeStep = 0
    BY <1>p, <2>2 DEF Machine
  <2>4. QED
    BY <1>16, <2>3 DEF TruncateStep, Finish, Goto, locals, BracketInv
<1>17. CASE ReplyError
  BY <1>17 DEF ReplyError, EmitEvent, Finish, BracketInv
<1>18. CASE Reply
  BY <1>18 DEF Reply, EmitEvent, Goto, BracketInv
<1>19. CASE AnswerTool
  BY <1>19 DEF AnswerTool, EmitEvent, Finish, Goto, locals, BracketInv
<1>20. CASE EndStep
  <2>1. pc = "stepEnd" /\ EmitBoundary(StepEnd, "none")
    BY <1>20 DEF EndStep
  <2>2. /\ machine' = [machine EXCEPT !.activeStep = 0]
        /\ machine.activeStep # 0 => (BoundaryOK(StepEnd) <=> ~gap')
    BY <1>p, <2>1, StepEnds
  <2>3. machine'.activeTurn = machine.activeTurn /\ machine'.activeStep = 0
    BY <1>p, <2>2 DEF Machine
  <2>4. QED
    BY <1>20, <2>2, <2>3 DEF EndStep, Finish, Goto, locals, BracketInv
<1>21. CASE EndTurn
  <2>1. /\ pc = "turnEnd" /\ pc' = "afterTurn" /\ machine.activeStep = 0
        /\ \E kind : EmitBoundary(TurnEnd, kind)
    BY <1>21 DEF EndTurn, Goto, BracketInv
  <2>2. machine' = [machine EXCEPT !.activeTurn = 0]
    BY <1>p, <2>1, TurnEnds
  <2>3. machine'.activeTurn = 0 /\ machine'.activeStep = 0
    BY <1>p, <2>1, <2>2 DEF Machine
  <2>4. QED
    BY <2>1, <2>3 DEF BracketInv
<1>22. CASE AfterTurn
  <2>1. machine' = machine /\ pc = "afterTurn" /\ Release("idle")
    BY <1>22 DEF AfterTurn, EmitLogOnly
  <2>2. QED
    BY <2>1 DEF Release, BracketInv
<1>23. CASE FinishStep
  <2>1. /\ EmitBoundary(StepEnd, "none") /\ pc = "finishStep" /\ pc' = "finishTurn"
        /\ UNCHANGED <<reason, after>>
    BY <1>23 DEF FinishStep, Goto, locals
  <2>2. machine' = [machine EXCEPT !.activeStep = 0] /\ (gap => gap')
    BY <1>p, <2>1, StepEnds
  <2>3. machine'.activeStep = 0
    BY <1>p, <2>2 DEF Machine
  <2>4. QED
    BY <2>1, <2>2, <2>3 DEF BracketInv
<1>24. CASE FatalTurnEnd \/ FinishTurn
  <2>1. PICK p \in Afters : Release(p) /\ (p = "loopTop" => gap)
    BY <1>24, <1>p DEF FatalTurnEnd, FinishTurn, Afters, LocalsOK, BracketInv
  <2>2. machine.activeStep = 0 /\ \E kind : EmitBoundary(TurnEnd, kind)
    BY <1>24 DEF FatalTurnEnd, FinishTurn, BracketInv
  <2>3. machine' = [machine EXCEPT !.activeTurn = 0] /\ (gap => gap')
    BY <1>p, <2>2, TurnEnds
  <2>4. machine'.activeTurn = 0 /\ machine'.activeStep = 0
    BY <1>p, <2>2, <2>3 DEF Machine
  <2>5. QED
    BY <2>1, <2>3, <2>4 DEF Release, Afters, BracketInv
<1>25. QED
  BY <1>1, <1>2, <1>3, <1>4, <1>5, <1>6, <1>7, <1>8, <1>9, <1>10, <1>11, <1>12, <1>13, <1>14,
     <1>15, <1>16, <1>17, <1>18, <1>19, <1>20, <1>21, <1>22, <1>23, <1>24
     DEF Next, Actor, Streams, Orphans

-----------------------------------------------------------------------------
(* The durable log mirrors the machine. *)

(* The fold of each event of the loop, its fields one by one.               *)
LogWith(d, t, s, called, ts, ss, ev) ==
    [turn |-> t, step |-> s, call |-> called, turns |-> ts, steps |-> ss, last |-> ev,
     messages |-> d.messages, interrupts |-> d.interrupts]

(* What each event of the loop does to the reader's view of the log.        *)
LEMMA Folded ==
    ASSUME NEW d, NEW t, NEW s, NEW kind
    PROVE
    /\ LET ev == Event(TurnStart, t, s, kind)
       IN  Reduce(d, ev) = LogWith(d, t, d.step, d.call, t, 0, ev)
    /\ LET ev == Event(TurnEnd, t, s, kind)
       IN  Reduce(d, ev) = LogWith(d, 0, d.step, d.call, d.turns, d.steps, ev)
    /\ LET ev == Event(StepStart, t, s, kind)
       IN  Reduce(d, ev) = LogWith(d, d.turn, s, d.call, d.turns, s, ev)
    /\ LET ev == Event(StepEnd, t, s, kind)
       IN  Reduce(d, ev) = LogWith(d, d.turn, 0, d.call, d.turns, d.steps, ev)
    /\ LET ev == Event(ToolCall, t, s, kind)
       IN  Reduce(d, ev) = LogWith(d, d.turn, d.step, TRUE, d.turns, d.steps, ev)
    /\ LET ev == Event(ToolResult, t, s, kind)
       IN  Reduce(d, ev) = LogWith(d, d.turn, d.step, FALSE, d.turns, d.steps, ev)
    /\ \A type \in {UserMessage, AssistantChunk, AssistantMessage} :
       LET ev == Event(type, t, s, kind)
       IN  Reduce(d, ev) = LogWith(d, d.turn, d.step, d.call, d.turns, d.steps, ev)
<1> USE DEF Event, Reduce, LogWith, TurnStart, TurnEnd, StepStart, StepEnd, ToolCall, ToolResult
<1>1. LET ev == Event(TurnStart, t, s, kind)
     IN  Reduce(d, ev) = LogWith(d, t, d.step, d.call, t, 0, ev)
  OBVIOUS
<1>2. LET ev == Event(TurnEnd, t, s, kind)
     IN  Reduce(d, ev) = LogWith(d, 0, d.step, d.call, d.turns, d.steps, ev)
  OBVIOUS
<1>3. LET ev == Event(StepStart, t, s, kind)
     IN  Reduce(d, ev) = LogWith(d, d.turn, s, d.call, d.turns, s, ev)
  OBVIOUS
<1>4. LET ev == Event(StepEnd, t, s, kind)
     IN  Reduce(d, ev) = LogWith(d, d.turn, 0, d.call, d.turns, d.steps, ev)
  OBVIOUS
<1>5. LET ev == Event(ToolCall, t, s, kind)
     IN  Reduce(d, ev) = LogWith(d, d.turn, d.step, TRUE, d.turns, d.steps, ev)
  OBVIOUS
<1>6. LET ev == Event(ToolResult, t, s, kind)
     IN  Reduce(d, ev) = LogWith(d, d.turn, d.step, FALSE, d.turns, d.steps, ev)
  OBVIOUS
<1>7. ASSUME NEW type \in {UserMessage, AssistantChunk, AssistantMessage}
      PROVE  LET ev == Event(type, t, s, kind)
             IN  Reduce(d, ev) = LogWith(d, d.turn, d.step, d.call, d.turns, d.steps, ev)
  BY DEF UserMessage, AssistantChunk, AssistantMessage
<1> HIDE DEF Event, Reduce, LogWith, TurnStart, TurnEnd, StepStart, StepEnd, ToolCall, ToolResult
<1>8. QED
  BY <1>1, <1>2, <1>3, <1>4, <1>5, <1>6, <1>7

(* While the store misses nothing, the log a reader folds has the machine's *)
(* brackets and counters, a call is unanswered only while its tool runs,    *)
(* and the loop reaches its turn/end right after a step/end.                *)
Mirrored ==
    /\ durable.turn = machine.activeTurn /\ durable.step = machine.activeStep
    /\ durable.turns = machine.turnNumber
    /\ machine.activeTurn # 0 => durable.steps = machine.stepNumber
MirrorInv ==
    ~gap =>
        /\ Mirrored
        /\ durable.call <=> pc = "toolResult"
        /\ pc = "turnEnd" => durable.last.type = StepEnd

(* The empty log mirrors the fresh machine.                                 *)
LEMMA MirrorInit == Init => MirrorInv
  BY DEF Init, MirrorInv, Mirrored, EmptyLog, FreshMachine

(* An unchanged log is a stuttering step of the protocol.                   *)
LEMMA LogSame ==
    ASSUME durable' = durable
    PROVE  UNCHANGED Protocol!vars
  BY DEF Protocol!vars

(* A step/end closes the step in the log, or finds none open.               *)
LEMMA StepEndMirrored ==
    ASSUME PersistOK, MirrorInv, pc # "toolResult", EmitBoundary(StepEnd, "none")
    PROVE  /\ ~gap' => /\ Mirrored' /\ durable'.call = FALSE
                       /\ machine.activeStep # 0 => durable'.last.type = StepEnd
           /\ [Protocol!Next]_(Protocol!vars)
<1> DEFINE ev == Event(StepEnd, machine.activeTurn, machine.activeStep, "none")
<1>1. /\ machine' = [machine EXCEPT !.activeStep = 0] /\ (gap => gap')
      /\ durable' = IF gap' \/ machine.activeStep = 0 THEN durable ELSE Reduce(durable, ev)
  BY StepEnds
<1>2. /\ machine'.activeTurn = machine.activeTurn /\ machine'.activeStep = 0
      /\ machine'.turnNumber = machine.turnNumber /\ machine'.stepNumber = machine.stepNumber
  BY <1>1 DEF PersistOK, Machine
<1>3. CASE gap' \/ machine.activeStep = 0
  <2>1. durable' = durable
    BY <1>1, <1>3
  <2>2. ~gap' => Mirrored' /\ durable'.call = FALSE
    BY <1>1, <1>2, <1>3, <2>1 DEF MirrorInv, Mirrored, PersistOK, LogType
  <2>3. QED
    BY <1>3, <2>1, <2>2, LogSame
<1>4. CASE ~gap' /\ machine.activeStep # 0
  <2>1. Mirrored /\ ~durable.call
    BY <1>1, <1>4 DEF MirrorInv
  <2>2. durable' = LogWith(durable, durable.turn, 0, durable.call, durable.turns, durable.steps, ev)
    <3>1. Reduce(durable, ev) =
            LogWith(durable, durable.turn, 0, durable.call, durable.turns, durable.steps, ev)
      BY Folded DEF LogWith
    <3>2. QED
      BY <1>1, <1>4, <3>1
  <2>3. /\ durable'.turn = durable.turn /\ durable'.step = 0 /\ durable'.call = durable.call
        /\ durable'.turns = durable.turns /\ durable'.steps = durable.steps /\ durable'.last = ev
    BY <2>2 DEF LogWith
  <2>4. Mirrored' /\ durable'.call = FALSE /\ durable'.last.type = StepEnd
    BY <1>2, <2>1, <2>3 DEF Mirrored, Event, PersistOK, LogType
  <2>5. Protocol!EndStep
    BY <1>4, <2>1, <2>3 DEF Protocol!EndStep, Mirrored, Event, Protocol!Event, StepEnd,
       Protocol!StepEnd
  <2>6. QED
    BY <2>4, <2>5 DEF Protocol!Next
<1>5. QED
  BY <1>3, <1>4

(* A turn/end closes the turn in the log, or finds none open.               *)
LEMMA TurnEndMirrored ==
    ASSUME PersistOK, MirrorInv, pc # "toolResult", machine.activeStep = 0,
           NEW kind \in EndKinds, EmitBoundary(TurnEnd, kind),
           kind \in {"completed", "max-tokens"} => pc = "turnEnd"
    PROVE  /\ ~gap' => Mirrored' /\ durable'.call = FALSE
           /\ [Protocol!Next]_(Protocol!vars)
<1> DEFINE ev == Event(TurnEnd, machine.activeTurn, 0, kind)
<1>1. /\ machine' = [machine EXCEPT !.activeTurn = 0] /\ (gap => gap')
      /\ durable' = IF gap' \/ machine.activeTurn = 0 THEN durable ELSE Reduce(durable, ev)
  BY TurnEnds
<1>2. /\ machine'.activeTurn = 0 /\ machine'.activeStep = machine.activeStep
      /\ machine'.turnNumber = machine.turnNumber /\ machine'.stepNumber = machine.stepNumber
  BY <1>1 DEF PersistOK, Machine
<1>3. CASE gap' \/ machine.activeTurn = 0
  <2>1. durable' = durable
    BY <1>1, <1>3
  <2>2. ~gap' => Mirrored' /\ durable'.call = FALSE
    BY <1>1, <1>2, <1>3, <2>1 DEF MirrorInv, Mirrored, PersistOK, LogType
  <2>3. QED
    BY <2>1, <2>2, LogSame
<1>4. CASE ~gap' /\ machine.activeTurn # 0
  <2>1. Mirrored /\ ~durable.call /\ (pc = "turnEnd" => durable.last.type = StepEnd)
    BY <1>1, <1>4 DEF MirrorInv
  <2>2. durable' = LogWith(durable, 0, durable.step, durable.call, durable.turns, durable.steps, ev)
    <3>1. Reduce(durable, ev) =
            LogWith(durable, 0, durable.step, durable.call, durable.turns, durable.steps, ev)
      BY Folded DEF LogWith
    <3>2. QED
      BY <1>1, <1>4, <3>1
  <2>3. /\ durable'.turn = 0 /\ durable'.step = durable.step /\ durable'.call = durable.call
        /\ durable'.turns = durable.turns /\ durable'.steps = durable.steps /\ durable'.last = ev
    BY <2>2 DEF LogWith
  <2>4. Mirrored' /\ durable'.call = FALSE
    BY <1>2, <2>1, <2>3 DEF Mirrored, PersistOK, LogType
  <2>5. Protocol!EndTurn(kind)
    BY <1>4, <2>1, <2>3 DEF Protocol!EndTurn, Mirrored, Event, Protocol!Event, TurnEnd,
       Protocol!TurnEnd, StepEnd, Protocol!StepEnd
  <2>6. QED
    BY <2>4, <2>5 DEF Protocol!Next, EndKinds, Protocol!EndKinds
<1>5. QED
  BY <1>3, <1>4

(* A turn/start opens the next turn of the log.                             *)
LEMMA TurnStartMirrored ==
    ASSUME PersistOK, MirrorInv, pc # "toolResult", machine.activeTurn = 0,
           machine.activeStep = 0, machine.stepNumber = 0, EmitBoundary(TurnStart, "none")
    PROVE  /\ ~gap' => Mirrored' /\ durable'.call = FALSE
           /\ [Protocol!Next]_(Protocol!vars)
<1> DEFINE n == machine.turnNumber + 1
           ev == Event(TurnStart, n, 0, "none")
<1>1. /\ machine' = [activeTurn |-> n, activeStep |-> 0, turnNumber |-> n,
                     stepNumber |-> machine.stepNumber]
      /\ (gap => gap') /\ durable' = IF gap' THEN durable ELSE Reduce(durable, ev)
  BY TurnStarts
<1>2. CASE gap'
  BY <1>1, <1>2, LogSame
<1>3. CASE ~gap'
  <2>1. Mirrored /\ ~durable.call
    BY <1>1, <1>3 DEF MirrorInv
  <2>2. durable' = LogWith(durable, n, durable.step, durable.call, n, 0, ev)
    <3>1. Reduce(durable, ev) = LogWith(durable, n, durable.step, durable.call, n, 0, ev)
      BY Folded DEF LogWith
    <3>2. QED
      BY <1>1, <1>3, <3>1
  <2>3. /\ durable'.turn = n /\ durable'.step = durable.step /\ durable'.call = durable.call
        /\ durable'.turns = n /\ durable'.steps = 0 /\ durable'.last = ev
    BY <2>2 DEF LogWith
  <2>4. Mirrored' /\ durable'.call = FALSE
    BY <1>1, <2>1, <2>3 DEF Mirrored, PersistOK, LogType
  <2>5. Protocol!StartTurn
    BY <2>1, <2>3 DEF Protocol!StartTurn, Mirrored, Event, Protocol!Event, TurnStart,
       Protocol!TurnStart
  <2>6. QED
    BY <2>4, <2>5 DEF Protocol!Next
<1>4. QED
  BY <1>2, <1>3

(* A step/start opens the next step of the open turn.                       *)
LEMMA StepStartMirrored ==
    ASSUME PersistOK, MirrorInv, pc # "toolResult", machine.activeTurn # 0,
           machine.activeStep = 0, EmitBoundary(StepStart, "none")
    PROVE  /\ ~gap' => Mirrored' /\ durable'.call = FALSE
           /\ [Protocol!Next]_(Protocol!vars)
<1> DEFINE n == machine.stepNumber + 1
           ev == Event(StepStart, machine.activeTurn, n, "none")
<1>1. /\ machine' = [activeTurn |-> machine.activeTurn, activeStep |-> n,
                     turnNumber |-> machine.turnNumber, stepNumber |-> n]
      /\ (gap => gap') /\ durable' = IF gap' THEN durable ELSE Reduce(durable, ev)
  BY StepStarts
<1>2. CASE gap'
  BY <1>1, <1>2, LogSame
<1>3. CASE ~gap'
  <2>1. Mirrored /\ ~durable.call
    BY <1>1, <1>3 DEF MirrorInv
  <2>2. durable' = LogWith(durable, durable.turn, n, durable.call, durable.turns, n, ev)
    <3>1. Reduce(durable, ev) = LogWith(durable, durable.turn, n, durable.call, durable.turns, n, ev)
      BY Folded DEF LogWith
    <3>2. QED
      BY <1>1, <1>3, <3>1
  <2>3. /\ durable'.turn = durable.turn /\ durable'.step = n /\ durable'.call = durable.call
        /\ durable'.turns = durable.turns /\ durable'.steps = n /\ durable'.last = ev
    BY <2>2 DEF LogWith
  <2>4. Mirrored' /\ durable'.call = FALSE
    BY <1>1, <2>1, <2>3 DEF Mirrored, PersistOK, LogType
  <2>5. Protocol!StartStep
    BY <2>1, <2>3 DEF Protocol!StartStep, Mirrored, Event, Protocol!Event, StepStart,
       Protocol!StepStart
  <2>6. QED
    BY <2>4, <2>5 DEF Protocol!Next
<1>4. QED
  BY <1>2, <1>3

(* A human message enters an open turn between its steps.                   *)
LEMMA MessageMirrored ==
    ASSUME PersistOK, MirrorInv, pc # "toolResult", gap \/ machine.activeTurn # 0,
           machine.activeStep = 0, NEW d, EmitUserMessage(d),
           d.turn = durable.turn, d.step = durable.step, d.call = durable.call,
           d.turns = durable.turns, d.steps = durable.steps
    PROVE  /\ ~gap' => Mirrored' /\ durable'.call = FALSE
           /\ [Protocol!Next]_(Protocol!vars)
<1> DEFINE ev == Event(UserMessage, 0, 0, "none")
<1>1. /\ machine' = machine /\ (gap => gap')
      /\ durable' = IF gap' THEN durable ELSE Reduce(d, ev)
  BY MessageEmitted
<1>2. CASE gap'
  BY <1>1, <1>2, LogSame
<1>3. CASE ~gap'
  <2>1. Mirrored /\ ~durable.call /\ machine.activeTurn # 0
    BY <1>1, <1>3 DEF MirrorInv
  <2>2. durable' = LogWith(d, d.turn, d.step, d.call, d.turns, d.steps, ev)
    <3>1. Reduce(d, ev) = LogWith(d, d.turn, d.step, d.call, d.turns, d.steps, ev)
      BY Folded DEF LogWith
    <3>2. QED
      BY <1>1, <1>3, <3>1
  <2>3. /\ durable'.turn = durable.turn /\ durable'.step = durable.step
        /\ durable'.call = durable.call /\ durable'.turns = durable.turns
        /\ durable'.steps = durable.steps /\ durable'.last = ev
    BY <2>2 DEF LogWith
  <2>4. Mirrored' /\ durable'.call = FALSE
    BY <1>1, <2>1, <2>3 DEF Mirrored, PersistOK, LogType
  <2>5. Protocol!HumanMessage
    BY <2>1, <2>3 DEF Protocol!HumanMessage, Mirrored, Event, Protocol!Event, UserMessage,
       Protocol!UserMessage
  <2>6. QED
    BY <2>4, <2>5 DEF Protocol!Next
<1>4. QED
  BY <1>2, <1>3

(* Model output and tool traffic enter the open step under its numbers.     *)
LEMMA StepEventMirrored ==
    ASSUME PersistOK, MirrorInv, machine.activeTurn # 0, machine.activeStep # 0,
           turn = machine.activeTurn, step = machine.activeStep,
           NEW type \in {AssistantChunk, AssistantMessage, ToolCall, ToolResult}, EmitEvent(type),
           type = ToolResult <=> pc = "toolResult"
    PROVE  /\ ~gap' => Mirrored' /\ durable'.call = (type = ToolCall)
           /\ [Protocol!Next]_(Protocol!vars)
<1> DEFINE ev == Event(type, turn, step, "none")
           c == CASE type = ToolCall -> TRUE [] type = ToolResult -> FALSE [] OTHER -> durable.call
<1>1. /\ machine' = machine /\ (gap => gap')
      /\ durable' = IF gap' THEN durable ELSE Reduce(durable, ev)
  BY EventEmitted
<1>2. CASE gap'
  BY <1>1, <1>2, LogSame
<1>3. CASE ~gap'
  <2>1. Mirrored /\ (durable.call <=> pc = "toolResult") /\ durable.call \in BOOLEAN
    BY <1>1, <1>3 DEF MirrorInv, PersistOK, LogType
  <2>2. /\ durable'.turn = durable.turn /\ durable'.step = durable.step
        /\ durable'.turns = durable.turns /\ durable'.steps = durable.steps /\ durable'.last = ev
        /\ durable'.call = (type = ToolCall)
    <3>1. durable' = Reduce(durable, ev)
      BY <1>1, <1>3
    <3>2. QED
      BY <2>1, <3>1 DEF Reduce, Event, TurnStart, TurnEnd, StepStart, StepEnd, ToolCall, ToolResult,
         AssistantChunk, AssistantMessage
  <2>3. Mirrored'
    BY <1>1, <2>1, <2>2 DEF Mirrored
  <2>4. CASE type = ToolCall
    <3>1. Protocol!CallTool
      BY <2>1, <2>2, <2>4 DEF Protocol!CallTool, Mirrored, Event, Protocol!Event, ToolCall, ToolResult,
         Protocol!ToolCall
    <3>2. QED
      BY <2>2, <2>3, <3>1 DEF Protocol!Next
  <2>5. CASE type = ToolResult
    <3>1. Protocol!AnswerTool
      BY <2>1, <2>2, <2>5 DEF Protocol!AnswerTool, Mirrored, Event, Protocol!Event, ToolCall,
         ToolResult, Protocol!ToolResult
    <3>2. QED
      BY <2>2, <2>3, <3>1 DEF Protocol!Next
  <2>6. CASE type \in {AssistantChunk, AssistantMessage}
    <3>1. Protocol!ModelOutput(type)
      BY <2>1, <2>2, <2>6 DEF Protocol!ModelOutput, Mirrored, Event, Protocol!Event, ToolCall,
         ToolResult, AssistantChunk, AssistantMessage
    <3>2. QED
      BY <2>2, <2>3, <2>6, <3>1 DEF Protocol!Next, AssistantChunk, AssistantMessage,
         Protocol!AssistantChunk, Protocol!AssistantMessage
  <2>7. QED
    BY <2>4, <2>5, <2>6
<1>4. QED
  BY <1>2, <1>3

(* A step that appends nothing the log shows, and runs no tool.             *)
LEMMA SilentMirrored ==
    ASSUME MirrorInv, durable' = durable, gap => gap', pc # "toolResult", pc' # "toolResult",
           pc' # "turnEnd", UNCHANGED <<machine>>
    PROVE  MirrorInv' /\ [Protocol!Next]_(Protocol!vars)
  BY LogSame DEF MirrorInv, Mirrored

(* Every step of the loop is a step of the protocol, or one it cannot see.  *)
LEMMA MirrorStep ==
    ASSUME TypeInv, BracketInv, MirrorInv, [Next]_vars
    PROVE  MirrorInv' /\ [Protocol!Next]_(Protocol!vars)
<1>p. PersistOK /\ gap \in BOOLEAN /\ machine \in Machine /\ LocalsOK
  BY DEF TypeInv, PersistOK
<1> USE DEF Goto, locals
<1>1. CASE \/ PostUserMessage \/ PostNextStep \/ AbortTurn \/ Stop
           \/ StreamSilent \/ StreamLogged \/ OrphanReads \/ OrphanLogs \/ UNCHANGED vars
  <2>1. UNCHANGED <<machine, pc, durable>> /\ (gap => gap')
    BY <1>1, Bystanders
  <2>2. QED
    BY <2>1, LogSame DEF MirrorInv, Mirrored
<1>2. CASE \/ ExitActor \/ DrainInterrupt \/ LoopTopAbort \/ PollInterrupt \/ SelectDone
           \/ SelectErr \/ SelectClosed
  <2>1. /\ UNCHANGED <<machine, persist>> /\ pc # "toolResult"
        /\ pc' \notin {"toolResult", "turnEnd"}
    BY <1>2 DEF ExitActor, DrainInterrupt, LoopTopAbort, PollInterrupt, SelectDone,
       SelectErr, SelectClosed, RouteStepFatal, Finish
  <2>2. QED
    BY <2>1, SilentMirrored DEF persist
<1>3. CASE TakeMessage
  <2>1. /\ machine' = [machine EXCEPT !.stepNumber = 0] /\ UNCHANGED persist
        /\ pc = "idle" /\ pc' = "turnStart"
    BY <1>3 DEF TakeMessage
  <2>2. /\ machine'.activeTurn = 0 /\ machine.activeTurn = 0
        /\ machine'.activeStep = machine.activeStep /\ machine'.turnNumber = machine.turnNumber
    BY <1>p, <2>1 DEF Machine, BracketInv, Closed
  <2>3. QED
    BY <2>1, <2>2, LogSame DEF persist, MirrorInv, Mirrored
<1>4. CASE Request \/ AfterTurn
  <2>1. machine' = machine /\ durable' = durable /\ (gap => gap')
    BY <1>4, <1>p, LogOnlyEmitted DEF Request, AfterTurn, EmitLogOnly
  <2>2. pc # "toolResult" /\ pc' \notin {"toolResult", "turnEnd"}
    BY <1>4 DEF Request, AfterTurn, Release
  <2>3. QED
    BY <2>1, <2>2, SilentMirrored
<1>5. CASE BeginTurn
  <2>1. /\ EmitBoundary(TurnStart, "none") /\ pc = "turnStart"
        /\ pc' \in {"userMsg", "finishStep"}
    BY <1>5 DEF BeginTurn, Finish
  <2>2. machine.activeTurn = 0 /\ machine.activeStep = 0 /\ machine.stepNumber = 0
    BY <2>1 DEF BracketInv, Closed
  <2>3. QED
    BY <1>p, <2>1, <2>2, TurnStartMirrored DEF MirrorInv
<1>6. CASE LogUserMessage \/ LogInterrupt
  <2>1. PICK d \in {[durable EXCEPT !.messages = @ \o hand],
                    [durable EXCEPT !.interrupts = @ \o hand]} : EmitUserMessage(d)
    BY <1>6 DEF LogUserMessage, LogInterrupt
  <2>2. /\ d.turn = durable.turn /\ d.step = durable.step /\ d.call = durable.call
        /\ d.turns = durable.turns /\ d.steps = durable.steps
    BY <1>p, <2>1 DEF PersistOK, LogType
  <2>3. pc \in {"userMsg", "drainMsg"} /\ pc' = "loopTop"
    BY <1>6 DEF LogUserMessage, LogInterrupt
  <2>4. machine.activeStep = 0 /\ (gap \/ machine.activeTurn # 0)
    BY <2>3 DEF BracketInv, Between
  <2>5. QED
    BY <1>p, <2>1, <2>2, <2>3, <2>4, MessageMirrored DEF MirrorInv
<1>7. CASE BeginStep
  <2>1. /\ EmitBoundary(StepStart, "none") /\ pc = "loopTop" /\ pc' = "request"
        /\ turnCtx = "live"
    BY <1>7 DEF BeginStep, TurnDone
  <2>2. machine.activeTurn # 0 /\ machine.activeStep = 0
    BY <2>1 DEF BracketInv, Between
  <2>3. QED
    BY <1>p, <2>1, <2>2, StepStartMirrored DEF MirrorInv
<1>8. CASE DrainEnd \/ FatalStepEnd \/ TruncateStep \/ FinishStep
  <2>1. /\ EmitBoundary(StepEnd, "none") /\ pc # "toolResult"
        /\ pc' \notin {"toolResult", "turnEnd"}
    BY <1>8 DEF DrainEnd, FatalStepEnd, TruncateStep, FinishStep, Finish
  <2>2. QED
    BY <1>p, <2>1, StepEndMirrored DEF MirrorInv
<1>9. CASE EndStep
  <2>1. EmitBoundary(StepEnd, "none") /\ pc = "stepEnd" /\ pc' # "toolResult"
    BY <1>9 DEF EndStep, Finish
  <2>2. machine.activeStep # 0
    BY <2>1 DEF BracketInv, InStep
  <2>3. QED
    BY <1>p, <2>1, <2>2, StepEndMirrored DEF MirrorInv
<1>10. CASE FatalTurnEnd \/ EndTurn \/ FinishTurn
  <2>1. PICK kind \in EndKinds :
            /\ EmitBoundary(TurnEnd, kind)
            /\ kind \in {"completed", "max-tokens"} => pc = "turnEnd"
    BY <1>10 DEF FatalTurnEnd, EndTurn, FinishTurn, EndKinds, BracketInv
  <2>2. pc \in {"fatalTurnEnd", "turnEnd", "finishTurn"}
    BY <1>10 DEF FatalTurnEnd, EndTurn, FinishTurn
  <2>3. pc' \notin {"toolResult", "turnEnd"}
    BY <1>10, <1>p DEF FatalTurnEnd, EndTurn, FinishTurn, Release, LocalsOK, Afters
  <2>4. machine.activeStep = 0
    BY <2>2 DEF BracketInv, Between
  <2>5. QED
    BY <1>p, <2>1, <2>2, <2>3, <2>4, TurnEndMirrored DEF MirrorInv
<1>11. CASE \/ SelectChunk \/ TruncateReply \/ ReplyError \/ Reply \/ CallTool \/ AnswerTool
  <2>1. pc \in InStep
    BY <1>11 DEF SelectChunk, TruncateReply, ReplyError, Reply, CallTool, AnswerTool, InStep
  <2>2. /\ machine.activeTurn # 0 /\ machine.activeStep # 0
        /\ turn = machine.activeTurn /\ step = machine.activeStep
    BY <2>1 DEF BracketInv
  <2>3. CASE UNCHANGED <<machine, persist>> /\ (TruncateReply \/ ReplyError)
    <3>1. pc # "toolResult" /\ pc' \notin {"toolResult", "turnEnd"}
      BY <2>3 DEF TruncateReply, ReplyError, Finish
    <3>2. QED
      BY <2>3, <3>1, SilentMirrored DEF persist
  <2>4. ASSUME NEW type \in {AssistantChunk, AssistantMessage, ToolCall, ToolResult},
               EmitEvent(type), type = ToolResult <=> pc = "toolResult",
               type = ToolCall <=> pc' = "toolResult", pc' # "turnEnd"
        PROVE  MirrorInv' /\ [Protocol!Next]_(Protocol!vars)
    BY <1>p, <2>2, <2>4, StepEventMirrored DEF MirrorInv
  <2>5. \/ UNCHANGED <<machine, persist>> /\ (TruncateReply \/ ReplyError)
        \/ \E type \in {AssistantChunk, AssistantMessage, ToolCall, ToolResult} :
              /\ EmitEvent(type)
              /\ type = ToolResult <=> pc = "toolResult"
              /\ type = ToolCall <=> pc' = "toolResult"
              /\ pc' # "turnEnd"
    <3> USE DEF AssistantChunk, AssistantMessage, ToolCall, ToolResult, Finish
    <3>1. CASE SelectChunk
      BY <3>1 DEF SelectChunk
    <3>2. CASE TruncateReply \/ ReplyError
      BY <3>2 DEF TruncateReply, ReplyError
    <3>3. CASE Reply
      BY <3>3 DEF Reply
    <3>4. CASE CallTool
      BY <3>4 DEF CallTool
    <3>5. CASE AnswerTool
      BY <3>5 DEF AnswerTool
    <3>6. QED
      BY <1>11, <3>1, <3>2, <3>3, <3>4, <3>5
  <2>6. QED
    BY <2>3, <2>4, <2>5
<1>12. QED
  BY <1>1, <1>2, <1>3, <1>4, <1>5, <1>6, <1>7, <1>8, <1>9, <1>10, <1>11
     DEF Next, Actor, Streams, Orphans

(* Types, brackets and the mirrored log hold throughout.                    *)
LEMMA LoopInv == Spec => [](TypeInv /\ BracketInv /\ MirrorInv)
<1>1. TypeInv /\ BracketInv /\ MirrorInv /\ [Next]_vars =>
          TypeInv' /\ BracketInv' /\ MirrorInv'
  BY TypeStep, BracketStep, MirrorStep
<1>2. QED
  BY <1>1, TypeInit, BracketInit, MirrorInit, PTL DEF Spec

(* Whenever the actor is back at its inbox or has exited, it is not         *)
(* running, every bracket is closed in the machine and, unless the store    *)
(* failed, in the durable log, and no turn context is left to abort: every  *)
(* path out of a turn goes through finishTurnReason or its own turn/end.    *)
THEOREM TurnsAreClosed == Spec => []IdleClosed
<1>1. BracketInv /\ MirrorInv => IdleClosed
  BY DEF BracketInv, MirrorInv, Mirrored, IdleClosed, Closed
<1>2. QED
  BY <1>1, LoopInv, PTL

(* actorLoop implements the turn protocol: every event it appends, in       *)
(* whatever order streams fail and close and aborts, stops, interrupts and  *)
(* store failures arrive, is one TurnProtocol allows at that point.         *)
THEOREM LoopImplementsProtocol == Spec => ImplementsProtocol
<1>1. Init => Protocol!Init
  BY DEF Init, Protocol!Init, EmptyLog, NoEvent, Protocol!NoEvent, Event, Protocol!Event
<1>2. TypeInv /\ BracketInv /\ MirrorInv /\ [Next]_vars => [Protocol!Next]_(Protocol!vars)
  BY MirrorStep
<1>3. QED
  BY <1>1, <1>2, LoopInv, PTL DEF Spec, ImplementsProtocol, Protocol!Spec

-----------------------------------------------------------------------------
(* No message is lost, repeated or overtaken. *)

(* What the actor holds of each channel: taken, and not yet in the log.     *)
MessageInHand == IF pc \in {"turnStart", "userMsg"} THEN hand ELSE <<>>
InterruptInHand == IF pc \in {"drainEnd", "drainMsg", "truncMsg", "truncEnd"} THEN hand ELSE <<>>

(* Concatenation is associative.                                            *)
LEMMA Reassociate ==
    ASSUME NEW a \in Seq(Nat), NEW b \in Seq(Nat), NEW c \in Seq(Nat)
    PROVE  (a \o b) \o c = a \o (b \o c)
  BY ConcatAssociative

(* Taking the head of a queue, logging what is in hand, and posting the     *)
(* next number, for the sequence log, hand, queue taken together.           *)
LEMMA TakingKeepsOrder ==
    ASSUME NEW m \in Seq(Nat), NEW q \in Seq(Nat), q # <<>>
    PROVE  m \o <<Head(q)>> \o Tail(q) = m \o <<>> \o q
<1>1. /\ Head(q) \in Nat /\ Tail(q) \in Seq(Nat) /\ Len(Tail(q)) = Len(q) - 1
      /\ \A i \in 1 .. Len(Tail(q)) : Tail(q)[i] = q[i + 1]
  BY HeadTailProperties
<1> DEFINE h == <<Head(q)>>
           c == h \o Tail(q)
<1>2. h \in Seq(Nat) /\ Len(h) = 1 /\ h[1] = Head(q)
  BY <1>1
<1>3. /\ c \in Seq(Nat) /\ Len(c) = 1 + Len(Tail(q))
      /\ \A i \in 1 .. 1 + Len(Tail(q)) : c[i] = IF i <= 1 THEN h[i] ELSE Tail(q)[i - 1]
  BY <1>1, <1>2, ConcatProperties
<1>4. Len(q) \in Nat /\ Len(q) # 0 /\ Head(q) = q[1]
  OBVIOUS
<1>5. Len(c) = Len(q)
  BY <1>1, <1>3, <1>4
<1> HIDE DEF h
<1>6. ASSUME NEW i \in 1 .. Len(q) PROVE c[i] = q[i]
  <2>1. CASE i = 1
    BY <1>1, <1>2, <1>3, <1>4, <2>1
  <2>2. CASE i # 1
    <3>1. i - 1 \in 1 .. Len(Tail(q)) /\ i \in 1 .. 1 + Len(Tail(q)) /\ ~(i <= 1) /\ (i - 1) + 1 = i
      BY <1>1, <1>4, <2>2
    <3>2. c[i] = Tail(q)[i - 1]
      BY <1>3, <3>1
    <3>3. QED
      BY <1>1, <3>1, <3>2
  <2>3. QED
    BY <2>1, <2>2
<1>7. c = q
  <2> HIDE DEF c
  <2>1. QED
    BY <1>3, <1>5, <1>6, SeqEqual
<1>8. m \o h \o Tail(q) = m \o c
  <2> DEFINE t == Tail(q)
  <2>1. t \in Seq(Nat)
    BY <1>1
  <2> HIDE DEF t
  <2>2. (m \o h) \o t = m \o (h \o t)
    BY <1>2, <2>1, Reassociate
  <2>3. QED
    BY <2>2 DEF t
<1>9. m \o <<>> = m
  BY ConcatEmptySeq
<1>10. QED
  BY <1>7, <1>8, <1>9 DEF h

(* What is in hand moves to the end of the log.                             *)
LEMMA LoggingKeepsOrder ==
    ASSUME NEW m \in Seq(Nat), NEW h \in Seq(Nat), NEW q \in Seq(Nat)
    PROVE  (m \o h) \o <<>> \o q = m \o h \o q
<1>1. m \o h \in Seq(Nat)
  BY ConcatProperties
<1>2. QED
  BY <1>1, ConcatEmptySeq

(* What is posted goes to the end of the queue.                             *)
LEMMA PostingKeepsOrder ==
    ASSUME NEW m \in Seq(Nat), NEW h \in Seq(Nat), NEW q \in Seq(Nat), NEW n \in Nat,
           m \o h \o q = Upto(n)
    PROVE  m \o h \o Append(q, n + 1) = Upto(n + 1)
<1>1. m \o h \in Seq(Nat)
  BY ConcatProperties
<1>2. <<n + 1>> \in Seq(Nat) /\ Append(q, n + 1) = q \o <<n + 1>>
  BY AppendIsConcat
<1>3. m \o h \o (q \o <<n + 1>>) = (m \o h \o q) \o <<n + 1>>
  <2> DEFINE a == m \o h
             z == <<n + 1>>
  <2>1. a \in Seq(Nat) /\ z \in Seq(Nat)
    BY <1>1, <1>2
  <2> HIDE DEF a, z
  <2>2. (a \o q) \o z = a \o (q \o z)
    BY <2>1, Reassociate
  <2>3. QED
    BY <2>2 DEF a, z
<1>4. Upto(n) \in Seq(Nat) /\ Upto(n + 1) \in Seq(Nat) /\ Len(Upto(n)) = n
  BY DEF Upto
<1>5. Upto(n) \o <<n + 1>> = Append(Upto(n), n + 1)
  BY <1>4, AppendIsConcat
<1>6. Append(Upto(n), n + 1) = Upto(n + 1)
  BY DEF Upto
<1>7. QED
  BY <1>2, <1>3, <1>5, <1>6

(* Only the two user/message emissions add a message to the log.            *)
LEMMA MessagesFrame ==
    ASSUME TypeInv, [Next]_vars
    PROVE  /\ gap => gap'
           /\ \/ LogUserMessage \/ LogInterrupt
              \/ durable'.messages = durable.messages /\ durable'.interrupts = durable.interrupts
<1>p. PersistOK
  BY DEF TypeInv
<1> DEFINE Kept == /\ gap => gap'
                   /\ durable'.messages = durable.messages
                   /\ durable'.interrupts = durable.interrupts
<1>1. ASSUME NEW ev, Persist(Reduce(durable, ev)) PROVE Kept
  BY <1>1, <1>p, Appended DEF Reduce
<1>2. ASSUME Persist(durable) \/ UNCHANGED <<machine, persist>> PROVE Kept
  BY <1>2, <1>p, Appended DEF persist
<1>3. ASSUME NEW type, NEW kind, EmitBoundary(type, kind) PROVE Kept
  <2>1. CASE Admissible(machine, type)
    <3>1. PICK ev : Persist(Reduce(durable, ev))
      BY <1>3, <2>1 DEF EmitBoundary
    <3>2. QED
      BY <1>1, <3>1
  <2>2. CASE ~Admissible(machine, type)
    BY <1>3, <2>2 DEF EmitBoundary, persist
  <2>3. QED
    BY <2>1, <2>2
<1>4. ASSUME TakeMessage \/ FinishTurn PROVE Kept
  <2>1. UNCHANGED persist \/ EmitBoundary(TurnEnd, reason)
    BY <1>4 DEF TakeMessage, FinishTurn
  <2>2. QED
    BY <1>3, <2>1 DEF persist
<1>5. CASE LogUserMessage \/ LogInterrupt
  <2>1. \E d : Persist(d)
    BY <1>5 DEF LogUserMessage, LogInterrupt, EmitUserMessage
  <2>2. QED
    BY <1>5, <1>p, <2>1, Appended
<1>6. ASSUME NEW type, EmitEvent(type) PROVE Kept
  BY <1>1, <1>6 DEF EmitEvent
<1>7. ASSUME EmitLogOnly PROVE Kept
  BY <1>2, <1>7 DEF EmitLogOnly
<1>8. Kept \/ LogUserMessage \/ LogInterrupt
  <2>1. \/ TakeMessage \/ FinishTurn
        \/ \E type \in Boundaries, kind \in EndKinds \cup {"none"} : EmitBoundary(type, kind)
        \/ \E type \in EventNames : EmitEvent(type)
        \/ EmitLogOnly \/ UNCHANGED <<machine, persist>>
        \/ LogUserMessage \/ LogInterrupt
    BY PersistFrame
  <2>2. ASSUME UNCHANGED <<machine, persist>> PROVE Kept
    BY <2>2 DEF persist
  <2>3. ASSUME NEW type \in EventNames, EmitEvent(type) PROVE Kept
    BY <1>6, <2>3
  <2>4. ASSUME NEW type \in Boundaries, NEW kind \in EndKinds \cup {"none"},
               EmitBoundary(type, kind)
        PROVE  Kept
    BY <1>3, <2>4
  <2> HIDE DEF Kept
  <2>5. QED
    BY <1>4, <1>7, <2>1, <2>2, <2>3, <2>4
<1>9. QED
  BY <1>5, <1>8 DEF Kept

(* Only five steps change what the actor holds, but for a turn or a step    *)
(* given up because the store failed.                                       *)
LEMMA HandFrame ==
    ASSUME TypeInv, [Next]_vars
    PROVE  \/ TakeMessage \/ LogUserMessage \/ DrainInterrupt \/ PollInterrupt \/ LogInterrupt
           \/ gap'
           \/ MessageInHand' = MessageInHand /\ InterruptInHand' = InterruptInHand
<1> DEFINE Kept == MessageInHand' = MessageInHand /\ InterruptInHand' = InterruptInHand
           Taken == {"turnStart", "userMsg", "drainEnd", "drainMsg", "truncMsg", "truncEnd"}
<1> USE DEF Goto, Finish, locals
<1>1. CASE \/ PostUserMessage \/ PostNextStep \/ AbortTurn \/ Stop \/ Streams \/ Orphans
           \/ UNCHANGED vars
  <2>1. UNCHANGED <<pc, hand>>
    BY <1>1 DEF PostUserMessage, PostNextStep, AbortTurn, Stop, Streams, StreamSilent, StreamLogged,
       Orphans, OrphanReads, OrphanLogs, others, vars
  <2>2. QED
    BY <2>1 DEF MessageInHand, InterruptInHand
<1>2. CASE BeginTurn
  <2>1. gap' \/ (pc' = "userMsg" /\ hand' = hand)
    BY <1>2 DEF BeginTurn, BoundaryOK
  <2>2. QED
    BY <1>2, <2>1 DEF BeginTurn, MessageInHand, InterruptInHand
<1>3. CASE DrainEnd \/ TruncateReply \/ TruncateStep
  <2>1. /\ gap' \/ (pc' \in {"drainMsg", "truncEnd"} /\ hand' = hand)
        /\ pc \in {"drainEnd", "truncMsg", "truncEnd"}
    BY <1>3 DEF DrainEnd, TruncateReply, TruncateStep, BoundaryOK
  <2>2. QED
    BY <2>1 DEF MessageInHand, InterruptInHand
<1>4. CASE \/ ExitActor \/ LoopTopAbort \/ BeginStep \/ Request \/ SelectDone \/ SelectErr
           \/ SelectChunk \/ SelectClosed \/ FatalStepEnd \/ FatalTurnEnd \/ ReplyError \/ Reply
           \/ CallTool \/ AnswerTool \/ EndStep \/ EndTurn \/ AfterTurn \/ FinishStep \/ FinishTurn
  <2>1. pc \notin Taken /\ pc' \notin Taken
    <3>1. CASE \/ ExitActor \/ LoopTopAbort \/ BeginStep \/ Request \/ SelectDone \/ SelectErr
               \/ SelectChunk \/ SelectClosed \/ FatalStepEnd
      BY <3>1 DEF ExitActor, LoopTopAbort, BeginStep, Request, SelectDone, SelectErr, SelectChunk,
         SelectClosed, RouteStepFatal, FatalStepEnd
    <3>2. CASE \/ ReplyError \/ Reply \/ CallTool \/ AnswerTool \/ EndStep \/ EndTurn
               \/ FinishStep
      BY <3>2 DEF ReplyError, Reply, CallTool, AnswerTool, EndStep, EndTurn, FinishStep
    <3>3. CASE FatalTurnEnd \/ AfterTurn \/ FinishTurn
      BY <3>3 DEF FatalTurnEnd, AfterTurn, FinishTurn, Release, TypeInv, LocalsOK, Afters
    <3>4. QED
      BY <1>4, <3>1, <3>2, <3>3
  <2>2. QED
    BY <2>1 DEF MessageInHand, InterruptInHand
<1>5. QED
  BY <1>1, <1>2, <1>3, <1>4 DEF Next, Actor

(* Every step keeps each of the two orders.                                 *)
LEMMA MessagesStep ==
    ASSUME TypeInv, MessagesConserved, [Next]_vars
    PROVE  MessagesConserved'
<1> DEFINE M == durable.messages
           I == durable.interrupts
<1>t. /\ M \in Seq(Nat) /\ I \in Seq(Nat) /\ hand \in Seq(Nat)
      /\ inbox \in Seq(Nat) /\ interrupts \in Seq(Nat) /\ posted \in Nat /\ postedSteps \in Nat
      /\ <<>> \in Seq(Nat)
  BY DEF TypeInv, PersistOK, LogType, LocalsOK, InputsOK
<1>h. MessageInHand \in Seq(Nat) /\ InterruptInHand \in Seq(Nat)
  BY <1>t DEF MessageInHand, InterruptInHand
<1>e. MessagesConserved <=>
         (~gap => /\ M \o MessageInHand \o inbox = Upto(posted)
                  /\ I \o InterruptInHand \o interrupts = Upto(postedSteps))
  BY DEF MessagesConserved, MessageInHand, InterruptInHand
<1>f. MessagesConserved' <=>
         (~gap' => /\ M' \o MessageInHand' \o inbox' = Upto(posted')
                   /\ I' \o InterruptInHand' \o interrupts' = Upto(postedSteps'))
  BY DEF MessagesConserved, MessageInHand, InterruptInHand
<1> HIDE DEF M, I
<1> SUFFICES ASSUME ~gap'
             PROVE  /\ M' \o MessageInHand' \o inbox' = Upto(posted')
                    /\ I' \o InterruptInHand' \o interrupts' = Upto(postedSteps')
  BY <1>f
<1>c. /\ M \o MessageInHand \o inbox = Upto(posted)
      /\ I \o InterruptInHand \o interrupts = Upto(postedSteps)
  BY <1>e, MessagesFrame
<1>o. \A m, h, q \in Seq(Nat) : \A n \in Nat :
          m \o h \o q = Upto(n) => m \o h \o Append(q, n + 1) = Upto(n + 1)
  BY PostingKeepsOrder, Zenon
<1>k. LogUserMessage \/ LogInterrupt \/ (M' = M /\ I' = I)
  BY MessagesFrame DEF M, I
<1>1. CASE PostUserMessage
  <2>1. /\ inbox' = Append(inbox, posted + 1) /\ posted' = posted + 1
        /\ UNCHANGED <<interrupts, postedSteps, pc, hand, durable>>
    BY <1>1 DEF PostUserMessage, locals, persist
  <2>2. M' = M /\ I' = I /\ MessageInHand' = MessageInHand /\ InterruptInHand' = InterruptInHand
    BY <2>1 DEF M, I, MessageInHand, InterruptInHand
  <2>3. M \o MessageInHand \o Append(inbox, posted + 1) = Upto(posted + 1)
    <3>1. M \in Seq(Nat) /\ inbox \in Seq(Nat) /\ posted \in Nat
      BY <1>t, Zenon
    <3>2. MessageInHand \in Seq(Nat) /\ M \o MessageInHand \o inbox = Upto(posted)
      BY <1>h, <1>c, Zenon
    <3>3. QED
      BY <1>o, <3>1, <3>2, Zenon
  <2>4. M' \o MessageInHand' \o inbox' = Upto(posted')
    BY <2>1, <2>2, <2>3, Zenon
  <2>5. QED
    BY <1>c, <2>1, <2>2, <2>4, Zenon
<1>2. CASE PostNextStep
  <2>1. /\ interrupts' = Append(interrupts, postedSteps + 1) /\ postedSteps' = postedSteps + 1
        /\ UNCHANGED <<inbox, posted, pc, hand, durable>>
    BY <1>2 DEF PostNextStep, locals, persist
  <2>2. M' = M /\ I' = I /\ MessageInHand' = MessageInHand /\ InterruptInHand' = InterruptInHand
    BY <2>1 DEF M, I, MessageInHand, InterruptInHand
  <2>3. I \o InterruptInHand \o Append(interrupts, postedSteps + 1) = Upto(postedSteps + 1)
    <3>1. I \in Seq(Nat) /\ interrupts \in Seq(Nat) /\ postedSteps \in Nat
      BY <1>t, Zenon
    <3>2. InterruptInHand \in Seq(Nat) /\ I \o InterruptInHand \o interrupts = Upto(postedSteps)
      BY <1>h, <1>c, Zenon
    <3>3. QED
      BY <1>o, <3>1, <3>2, Zenon
  <2>4. I' \o InterruptInHand' \o interrupts' = Upto(postedSteps')
    BY <2>1, <2>2, <2>3, Zenon
  <2>5. QED
    BY <1>c, <2>1, <2>2, <2>4, Zenon
<1>3. CASE TakeMessage
  <2>1. /\ inbox # <<>> /\ hand' = <<Head(inbox)>> /\ inbox' = Tail(inbox)
        /\ pc = "idle" /\ pc' = "turnStart"
        /\ UNCHANGED <<interrupts, posted, postedSteps, durable>>
    BY <1>3 DEF TakeMessage, Goto, persist
  <2>2. /\ MessageInHand = <<>> /\ MessageInHand' = <<Head(inbox)>>
        /\ InterruptInHand = <<>> /\ InterruptInHand' = <<>> /\ M' = M /\ I' = I
    BY <2>1 DEF MessageInHand, InterruptInHand, M, I
  <2>3. M \o <<Head(inbox)>> \o Tail(inbox) = M \o <<>> \o inbox
    BY <1>t, <2>1, TakingKeepsOrder
  <2>4. M' \o MessageInHand' \o inbox' = M \o MessageInHand \o inbox
    BY <2>1, <2>2, <2>3, Zenon
  <2>5. I' \o InterruptInHand' \o interrupts' = I \o InterruptInHand \o interrupts
    BY <2>1, <2>2, Zenon
  <2>6. posted' = posted /\ postedSteps' = postedSteps
    BY <2>1
  <2>7. QED
    BY <1>c, <2>4, <2>5, <2>6, Zenon
<1>4. CASE DrainInterrupt \/ (PollInterrupt /\ interrupts # <<>>)
  <2>1. /\ interrupts # <<>> /\ hand' = <<Head(interrupts)>> /\ interrupts' = Tail(interrupts)
        /\ pc \in {"loopTop", "stream"} /\ pc' \in {"drainEnd", "truncMsg"}
        /\ UNCHANGED <<inbox, posted, postedSteps, durable>>
    BY <1>4 DEF DrainInterrupt, PollInterrupt, Goto, persist
  <2>2. /\ InterruptInHand = <<>> /\ InterruptInHand' = <<Head(interrupts)>>
        /\ MessageInHand = <<>> /\ MessageInHand' = <<>> /\ M' = M /\ I' = I
    BY <2>1 DEF MessageInHand, InterruptInHand, M, I
  <2>3. I \o <<Head(interrupts)>> \o Tail(interrupts) = I \o <<>> \o interrupts
    BY <1>t, <2>1, TakingKeepsOrder
  <2>4. I' \o InterruptInHand' \o interrupts' = I \o InterruptInHand \o interrupts
    BY <2>1, <2>2, <2>3, Zenon
  <2>5. M' \o MessageInHand' \o inbox' = M \o MessageInHand \o inbox
    BY <2>1, <2>2, Zenon
  <2>6. posted' = posted /\ postedSteps' = postedSteps
    BY <2>1
  <2>7. QED
    BY <1>c, <2>4, <2>5, <2>6, Zenon
<1>5. CASE PollInterrupt /\ interrupts = <<>>
  <2>1. pc = "stream" /\ pc' = "select" /\ UNCHANGED <<inputs, durable>>
    BY <1>5 DEF PollInterrupt, Goto, persist, inputs
  <2>2. /\ InterruptInHand' = InterruptInHand /\ MessageInHand' = MessageInHand
        /\ M' = M /\ I' = I
    BY <2>1 DEF MessageInHand, InterruptInHand, M, I
  <2>3. QED
    BY <1>c, <2>1, <2>2 DEF inputs
<1>6. CASE LogUserMessage
  <2>1. /\ pc = "userMsg" /\ pc' = "loopTop" /\ UNCHANGED inputs
        /\ Persist(Reduce([durable EXCEPT !.messages = @ \o hand],
                          Event(UserMessage, 0, 0, "none")))
    BY <1>6 DEF LogUserMessage, EmitUserMessage, Goto, callers
  <2>2. durable' = Reduce([durable EXCEPT !.messages = @ \o hand], Event(UserMessage, 0, 0, "none"))
    BY <2>1, Appended DEF TypeInv
  <2>3. M' = M \o hand /\ I' = I
    BY <2>2 DEF Reduce, M, I, TypeInv, PersistOK, LogType
  <2>4. /\ MessageInHand = hand /\ MessageInHand' = <<>>
        /\ InterruptInHand = <<>> /\ InterruptInHand' = <<>>
    BY <2>1 DEF MessageInHand, InterruptInHand
  <2>5. M' \o <<>> \o inbox = M \o hand \o inbox
    BY <1>t, <2>3, LoggingKeepsOrder
  <2>6. QED
    BY <1>c, <2>1, <2>3, <2>4, <2>5 DEF inputs
<1>7. CASE LogInterrupt
  <2>1. /\ pc = "drainMsg" /\ pc' = "loopTop" /\ UNCHANGED inputs
        /\ Persist(Reduce([durable EXCEPT !.interrupts = @ \o hand],
                          Event(UserMessage, 0, 0, "none")))
    BY <1>7 DEF LogInterrupt, EmitUserMessage, Goto, callers
  <2>2. durable' = Reduce([durable EXCEPT !.interrupts = @ \o hand],
                          Event(UserMessage, 0, 0, "none"))
    BY <2>1, Appended DEF TypeInv
  <2>3. I' = I \o hand /\ M' = M
    BY <2>2 DEF Reduce, M, I, TypeInv, PersistOK, LogType
  <2>4. /\ InterruptInHand = hand /\ InterruptInHand' = <<>>
        /\ MessageInHand = <<>> /\ MessageInHand' = <<>>
    BY <2>1 DEF MessageInHand, InterruptInHand
  <2>5. I' \o <<>> \o interrupts = I \o hand \o interrupts
    BY <1>t, <2>3, LoggingKeepsOrder
  <2>6. QED
    BY <1>c, <2>1, <2>3, <2>4, <2>5 DEF inputs
<1>8. CASE /\ UNCHANGED inputs /\ M' = M /\ I' = I
           /\ MessageInHand' = MessageInHand /\ InterruptInHand' = InterruptInHand
  BY <1>8, <1>c DEF inputs
<1>9. QED
  BY <1>1, <1>2, <1>3, <1>4, <1>5, <1>6, <1>7, <1>8, <1>k, HandFrame, InputsFrame

(* Unless the store failed, every posted message and every interrupt is     *)
(* exactly once in its channel, in the actor's hand or in the durable log,  *)
(* and in the order it was posted: across aborts, stops, interrupted and    *)
(* truncated steps and fatal streams (PostUserMessage, actorLoop).          *)
THEOREM MessagesAreKept == Spec => []MessagesConserved
<1>1. Init => MessagesConserved
  <2> SUFFICES ASSUME Init PROVE MessagesConserved
    OBVIOUS
  <2>1. <<>> \o <<>> \o <<>> = Upto(0)
    BY DEF Upto
  <2>2. QED
    BY <2>1 DEF Init, EmptyLog, MessagesConserved
<1>2. TypeInv /\ MessagesConserved /\ [Next]_vars => MessagesConserved'
  BY MessagesStep
<1>3. QED
  BY <1>1, <1>2, LoopInv, PTL DEF Spec

-----------------------------------------------------------------------------
(* What an accepted reply stands for. *)

(* Some chunk of a channel is a finish chunk.                               *)
HasFinish(q) == \E i \in 1 .. Len(q) : q[i].kind \in Finishes

(* The adapter works only for a goroutine that reads; an error is recorded  *)
(* before the adapter's channels close, and no clean end follows one.       *)
GoroutineInv(s) ==
    /\ s.ad # "off" => s.phase = "read"
    /\ s.ad = "off" => s.buf = <<>>
    /\ s.phase = "open" \/ s.ad \in {"open", "finished"} \/ s.ended = "clean" => s.err = "none"
    /\ s.ad = "erred" \/ s.phase \in {"failed", "wait", "started"} => s.err # "none"
    /\ s.ad = "closed" /\ s.err = "none" => s.ended = "clean"

(* The finish chunk of an attempt that ended cleanly was read, or is still  *)
(* in one of the two channels.                                              *)
FinishKept(a, s) ==
    s.ad = "finished" \/ s.ended = "clean" =>
        a.finish # "none" \/ HasFinish(s.out) \/ HasFinish(s.buf)

(* A goroutine that left without an error left a clean end.                 *)
CleanExit(s) == Exited(s) /\ ~s.outErr => s.ended = "clean"

StreamInv ==
    /\ GoroutineInv(stream)
    /\ pc \in {"stream", "select"} =>
          stream.turn = turn /\ (~TurnDone => FinishKept(asm, stream) /\ CleanExit(stream))
    /\ NoFalseCompletion

(* A finish chunk stays in a channel to which chunks are added, and leaves  *)
(* it only at its head.                                                     *)
LEMMA FinishAppended ==
    ASSUME NEW q \in Seq(Chunk), NEW c \in Chunk
    PROVE  HasFinish(Append(q, c)) <=> HasFinish(q) \/ c.kind \in Finishes
<1>1. /\ Append(q, c) \in Seq(Chunk) /\ Len(Append(q, c)) = Len(q) + 1 /\ Len(q) \in Nat
      /\ \A i \in 1 .. Len(q) : Append(q, c)[i] = q[i]
      /\ Append(q, c)[Len(q) + 1] = c
  BY AppendProperties
<1> DEFINE a == Append(q, c)
<1> HIDE DEF a
<1>2. /\ Len(a) = Len(q) + 1 /\ Len(q) \in Nat
      /\ \A i \in 1 .. Len(q) : a[i] = q[i]
      /\ a[Len(q) + 1] = c
  BY <1>1 DEF a
<1>3. HasFinish(q) => HasFinish(a)
  BY <1>2 DEF HasFinish
<1>4. c.kind \in Finishes => HasFinish(a)
  BY <1>2 DEF HasFinish
<1>5. ASSUME HasFinish(a) PROVE HasFinish(q) \/ c.kind \in Finishes
  <2>1. PICK i \in 1 .. Len(q) + 1 : a[i].kind \in Finishes
    BY <1>2, <1>5 DEF HasFinish
  <2>2. i \in 1 .. Len(q) \/ i = Len(q) + 1
    BY <1>2
  <2>3. QED
    BY <1>2, <2>1, <2>2 DEF HasFinish
<1>6. QED
  BY <1>3, <1>4, <1>5 DEF a

(* Taking the head of a channel loses a finish chunk only to the taker.     *)
LEMMA FinishTaken ==
    ASSUME NEW q \in Seq(Chunk), q # <<>>
    PROVE  HasFinish(q) => Head(q).kind \in Finishes \/ HasFinish(Tail(q))
<1>1. /\ Len(Tail(q)) = Len(q) - 1 /\ Len(q) \in Nat /\ Head(q) = q[1]
      /\ \A i \in 1 .. Len(Tail(q)) : Tail(q)[i] = q[i + 1]
  BY HeadTailProperties
<1> DEFINE t == Tail(q)
<1> HIDE DEF t
<1>2. /\ Len(t) = Len(q) - 1 /\ \A i \in 1 .. Len(t) : t[i] = q[i + 1]
  BY <1>1 DEF t
<1>3. ASSUME HasFinish(q), ~(Head(q).kind \in Finishes) PROVE HasFinish(t)
  <2>1. PICK i \in 1 .. Len(q) : q[i].kind \in Finishes
    BY <1>3 DEF HasFinish
  <2>2. i # 1
    BY <1>1, <1>3, <2>1
  <2>3. i - 1 \in 1 .. Len(t) /\ (i - 1) + 1 = i
    BY <1>1, <1>2, <2>2
  <2>4. t[i - 1] = q[i]
    BY <1>2, <2>3
  <2>5. QED
    BY <2>1, <2>3, <2>4 DEF HasFinish
<1>4. QED
  BY <1>3 DEF t

(* A goroutine that exits or fails: only its adapter is dropped.            *)
LEMMA ExitFields ==
    ASSUME NEW s \in StreamType
    PROVE  /\ LET n == Exit(s)
              IN  /\ n.phase = "exited" /\ n.ad = "off" /\ n.buf = <<>> /\ n.turn = s.turn
                  /\ n.err = s.err /\ n.out = s.out /\ n.outErr = s.outErr /\ n.ended = s.ended
           /\ LET n == Failed(s)
              IN  /\ n.phase = "failed" /\ n.ad = "off" /\ n.buf = <<>> /\ n.turn = s.turn
                  /\ n.err = s.err /\ n.out = s.out /\ n.outErr = s.outErr /\ n.ended = s.ended
  BY DEF Exit, Failed, StreamType

(* What a successor of a goroutine keeps, while the turn lasts.             *)
Kept(a, s, n) ==
    /\ GoroutineInv(n) /\ n.turn = s.turn
    /\ ~CtxDone(s) => /\ FinishKept(a, s) => FinishKept(a, n)
                      /\ CleanExit(s) => CleanExit(n)

(* The adapter opens, produces, fails and closes.                           *)
LEMMA AdapterKeeps ==
    ASSUME NEW a, NEW s, StreamOK(s), GoroutineInv(s),
           NEW n \in OpenAttempt(s) \cup Produce(s) \cup AdapterFails(s) \cup AdapterCloses(s)
    PROVE  Kept(a, s, n)
<1>s. s \in StreamType
  BY DEF StreamOK
<1>1. CASE n \in OpenAttempt(s)
  <2> DEFINE f == [s EXCEPT !.outErr = TRUE, !.ended = "failed"]
             o == [s EXCEPT !.phase = "read", !.ad = "open", !.ended = "no"]
  <2>1. s.phase = "open" /\ (n = Exit(f) \/ n = o)
    BY <1>1 DEF OpenAttempt
  <2>2. CASE n = Exit(f)
    <3>1. f \in StreamType /\ f.outErr /\ f.ended = "failed" /\ f.err = s.err /\ f.turn = s.turn
      BY <1>s DEF StreamType
    <3> HIDE DEF f
    <3>2. /\ n.phase = "exited" /\ n.ad = "off" /\ n.buf = <<>> /\ n.turn = s.turn
          /\ n.outErr /\ n.ended = "failed"
      BY <2>2, <3>1, ExitFields
    <3>3. QED
      BY <3>2 DEF Kept, GoroutineInv, FinishKept, CleanExit, Exited
  <2>3. CASE n = o
    <3>1. /\ n.phase = "read" /\ n.ad = "open" /\ n.ended = "no" /\ n.turn = s.turn
          /\ n.err = s.err
      BY <1>s, <2>3 DEF StreamType
    <3>2. QED
      BY <2>1, <3>1 DEF Kept, GoroutineInv, FinishKept, CleanExit, Exited
  <2>4. QED
    BY <2>1, <2>2, <2>3
<1>2. CASE n \in Produce(s)
  <2>1. s.ad = "open"
    BY <1>2 DEF Produce
  <2>2. PICK k \in Contents \cup Finishes :
            LET c == [kind |-> k, attempt |-> s.attempt]
            IN  \/ n = [s EXCEPT !.buf = Append(@, c), !.made = @ + 1]
                \/ k \in Finishes /\ n = [s EXCEPT !.buf = Append(@, c), !.ad = "finished"]
    BY <1>2, <2>1, Zenon DEF Produce
  <2> DEFINE c == [kind |-> k, attempt |-> s.attempt]
             b == Append(s.buf, c)
  <2>3. c \in Chunk /\ c.kind = k /\ s.buf \in Seq(Chunk)
    BY <1>s DEF Chunk, StreamType
  <2>4. HasFinish(b) <=> HasFinish(s.buf) \/ k \in Finishes
    <3> HIDE DEF c
    <3>1. QED
      BY <2>3, FinishAppended
  <2>5. \/ n = [s EXCEPT !.buf = b, !.made = s.made + 1]
        \/ k \in Finishes /\ n = [s EXCEPT !.buf = b, !.ad = "finished"]
    BY <2>2
  <2> HIDE DEF b
  <2>6. /\ n.phase = s.phase /\ n.turn = s.turn /\ n.err = s.err /\ n.out = s.out
        /\ n.outErr = s.outErr /\ n.ended = s.ended /\ n.buf = b
        /\ n.ad = "open" \/ (n.ad = "finished" /\ k \in Finishes)
    BY <1>s, <2>1, <2>5 DEF StreamType
  <2>7. GoroutineInv(n)
    BY <2>1, <2>6 DEF GoroutineInv
  <2>8. FinishKept(a, s) => FinishKept(a, n)
    BY <2>4, <2>6 DEF FinishKept
  <2>9. QED
    BY <2>6, <2>7, <2>8 DEF Kept, CleanExit, Exited
<1>3. CASE n \in AdapterFails(s)
  <2>1. PICK e \in Failures : s.ad = "open" /\ n = [s EXCEPT !.ad = "erred", !.err = e, !.ended = "failed"]
    BY <1>3 DEF AdapterFails
  <2>2. /\ n.phase = s.phase /\ n.turn = s.turn /\ n.err # "none" /\ n.ad = "erred"
        /\ n.ended = "failed" /\ s.phase = "read"
    BY <1>s, <2>1 DEF StreamType, Failures, GoroutineInv
  <2>3. QED
    BY <2>2 DEF Kept, GoroutineInv, FinishKept, CleanExit, Exited
<1>4. CASE n \in AdapterCloses(s)
  <2>1. \/ s.ad = "finished" /\ n = [s EXCEPT !.ad = "closed", !.ended = "clean"]
        \/ s.ad = "erred" /\ n = [s EXCEPT !.ad = "closed"]
    BY <1>4 DEF AdapterCloses
  <2>2. /\ n.phase = s.phase /\ n.turn = s.turn /\ n.err = s.err /\ n.out = s.out
        /\ n.buf = s.buf /\ n.ad = "closed" /\ s.phase = "read"
        /\ n.ended = IF s.ad = "finished" THEN "clean" ELSE s.ended
    BY <1>s, <2>1 DEF StreamType, GoroutineInv
  <2>3. QED
    BY <2>1, <2>2 DEF Kept, GoroutineInv, FinishKept, CleanExit, Exited
<1>5. QED
  BY <1>1, <1>2, <1>3, <1>4

(* The goroutine reads, forwards, gives up, waits and tries again.          *)
LEMMA RetryKeeps ==
    ASSUME NEW a, NEW s, StreamOK(s), GoroutineInv(s),
           NEW n \in ReadCancelled(s) \cup Forward(s) \cup ReadErr(s) \cup ReadClosed(s)
                     \cup Wait(s) \cup Logged(s)
    PROVE  Kept(a, s, n)
<1>s. s \in StreamType
  BY DEF StreamOK
<1>1. CASE n \in ReadCancelled(s)
  <2>1. CtxDone(s) /\ n = Exit(s)
    BY <1>1 DEF ReadCancelled
  <2>2. QED
    BY <1>s, <2>1, ExitFields DEF Kept, GoroutineInv
<1>2. CASE n \in Forward(s)
  <2>1. /\ s.buf # <<>> /\ s.buf \in Seq(Chunk) /\ s.out \in Seq(Chunk) /\ s.phase = "read"
        /\ n = [s EXCEPT !.buf = Tail(s.buf), !.out = Append(s.out, Head(s.buf))]
    BY <1>2, <1>s DEF Forward, StreamType
  <2> DEFINE b == Tail(s.buf)
             h == Head(s.buf)
             o == Append(s.out, h)
  <2>2. h \in Chunk
    BY <2>1, HeadTailProperties
  <2>3. HasFinish(s.buf) => h.kind \in Finishes \/ HasFinish(b)
    BY <2>1, FinishTaken
  <2>4. HasFinish(o) <=> HasFinish(s.out) \/ h.kind \in Finishes
    <3> HIDE DEF h
    <3>1. QED
      BY <2>1, <2>2, FinishAppended
  <2>5. n = [s EXCEPT !.buf = b, !.out = o]
    BY <2>1
  <2> HIDE DEF b, o, h
  <2>6. /\ n.phase = s.phase /\ n.turn = s.turn /\ n.err = s.err /\ n.out = o /\ n.ad = s.ad
        /\ n.outErr = s.outErr /\ n.ended = s.ended /\ n.buf = b
    BY <1>s, <2>5 DEF StreamType
  <2>7. GoroutineInv(n)
    BY <2>1, <2>6 DEF GoroutineInv
  <2>8. FinishKept(a, s) => FinishKept(a, n)
    BY <2>3, <2>4, <2>6 DEF FinishKept
  <2>9. QED
    BY <2>6, <2>7, <2>8 DEF Kept, CleanExit, Exited
<1>3. CASE n \in ReadErr(s)
  <2>1. s.err # "none" /\ n = Failed(s)
    BY <1>3 DEF ReadErr
  <2>2. QED
    BY <1>s, <2>1, ExitFields DEF Kept, GoroutineInv, FinishKept, CleanExit, Exited
<1>4. CASE n \in ReadClosed(s)
  <2>1. /\ s.ad = "closed" /\ s.buf = <<>>
        /\ n = IF ~CtxDone(s) /\ s.err # "none" THEN Failed(s) ELSE Exit(s)
    BY <1>4 DEF ReadClosed
  <2>2. CASE ~CtxDone(s) /\ s.err # "none"
    BY <1>s, <2>1, <2>2, ExitFields DEF Kept, GoroutineInv, FinishKept, CleanExit, Exited
  <2>3. CASE CtxDone(s) \/ s.err = "none"
    <3>1. /\ n.phase = "exited" /\ n.ad = "off" /\ n.buf = s.buf /\ n.turn = s.turn
          /\ n.err = s.err /\ n.out = s.out /\ n.outErr = s.outErr /\ n.ended = s.ended
      BY <1>s, <2>1, <2>3, ExitFields
    <3>2. QED
      BY <2>1, <2>3, <3>1 DEF Kept, GoroutineInv, FinishKept, CleanExit, Exited
  <2>4. QED
    BY <2>2, <2>3
<1>5. CASE n \in Wait(s)
  <2>1. /\ s.phase = "wait"
        /\ n = [s EXCEPT !.phase = "started"] \/ (CtxDone(s) /\ n = Exit(s))
    BY <1>5 DEF Wait
  <2>2. CASE n = [s EXCEPT !.phase = "started"]
    <3>1. /\ n.phase = "started" /\ n.ad = s.ad /\ n.buf = s.buf /\ n.turn = s.turn
          /\ n.err = s.err /\ n.out = s.out /\ n.outErr = s.outErr /\ n.ended = s.ended
      BY <1>s, <2>2 DEF StreamType
    <3>2. QED
      BY <2>1, <3>1 DEF Kept, GoroutineInv, FinishKept, CleanExit, Exited
  <2>3. CASE CtxDone(s) /\ n = Exit(s)
    BY <1>s, <2>3, ExitFields DEF Kept, GoroutineInv
  <2>4. QED
    BY <2>1, <2>2, <2>3
<1>6. CASE n \in Logged(s)
  <2> DEFINE f == [s EXCEPT !.outErr = TRUE]
  <2>1. \/ s.phase = "failed" /\ n = [s EXCEPT !.phase = "wait"]
        \/ s.phase = "failed" /\ n = Exit(f)
        \/ s.phase = "started" /\ n = [s EXCEPT !.phase = "open", !.attempt = @ + 1, !.err = "none"]
    BY <1>6 DEF Logged
  <2>2. /\ s.phase \in {"failed", "started"} /\ s.err # "none" /\ s.ended # "clean"
        /\ s.ad = "off" /\ s.buf = <<>>
    BY <2>1 DEF GoroutineInv
  <2>3. CASE n = Exit(f)
    <3>1. f \in StreamType /\ f.outErr /\ f.ended = s.ended /\ f.err = s.err /\ f.turn = s.turn
      BY <1>s DEF StreamType
    <3> HIDE DEF f
    <3>2. /\ n.phase = "exited" /\ n.ad = "off" /\ n.buf = <<>> /\ n.turn = s.turn
          /\ n.outErr /\ n.ended = s.ended /\ n.err = s.err
      BY <2>3, <3>1, ExitFields
    <3>3. QED
      BY <2>2, <3>2 DEF Kept, GoroutineInv, FinishKept, CleanExit, Exited
  <2>4. CASE n = [s EXCEPT !.phase = "wait"] /\ s.phase = "failed"
    <3>1. /\ n.phase = "wait" /\ n.ad = s.ad /\ n.buf = s.buf /\ n.turn = s.turn
          /\ n.err = s.err /\ n.ended = s.ended
      BY <1>s, <2>4 DEF StreamType
    <3>2. QED
      BY <2>2, <3>1 DEF Kept, GoroutineInv, FinishKept, CleanExit, Exited
  <2>5. CASE n = [s EXCEPT !.phase = "open", !.attempt = @ + 1, !.err = "none"]
    <3>1. /\ n.phase = "open" /\ n.ad = s.ad /\ n.buf = s.buf /\ n.turn = s.turn
          /\ n.err = "none" /\ n.ended = s.ended
      BY <1>s, <2>5 DEF StreamType
    <3>2. QED
      BY <2>2, <3>1 DEF Kept, GoroutineInv, FinishKept, CleanExit, Exited
  <2>6. QED
    BY <2>1, <2>3, <2>4, <2>5
<1>7. QED
  BY <1>1, <1>2, <1>3, <1>4, <1>5, <1>6

(* A goroutine that has exited never moves again.                           *)
LEMMA ExitedRests ==
    ASSUME NEW s, GoroutineInv(s), Exited(s)
    PROVE  Silent(s) = {} /\ Logged(s) = {}
<1>1. s.phase = "exited" /\ s.ad = "off"
  BY DEF GoroutineInv, Exited
<1>2. /\ OpenAttempt(s) = {} /\ Produce(s) = {} /\ AdapterFails(s) = {} /\ AdapterCloses(s) = {}
      /\ ReadCancelled(s) = {} /\ Forward(s) = {} /\ ReadErr(s) = {} /\ ReadClosed(s) = {}
      /\ Wait(s) = {} /\ Logged(s) = {}
  BY <1>1 DEF OpenAttempt, Produce, AdapterFails, AdapterCloses, ReadCancelled, Forward, ReadErr,
     ReadClosed, Wait, Logged
<1>3. QED
  BY <1>2 DEF Silent

(* Initially no step runs.                                                  *)
LEMMA StreamInit == Init => StreamInv
<1>1. GoroutineInv(NoStream)
  BY DEF GoroutineInv, NoStream, NewStream
<1>2. QED
  BY <1>1 DEF Init, StreamInv, NoFalseCompletion

(* Every step keeps what the goroutine and the two selects rely on.         *)
LEMMA StreamStep ==
    ASSUME TypeInv, StreamInv, [Next]_vars
    PROVE  StreamInv'
<1>t. StreamOK(stream) /\ stream \in StreamType /\ asm \in AsmType /\ stopped \in BOOLEAN
  BY DEF TypeInv, StreamsOK, StreamOK, LocalsOK, FlagsOK
<1>n. GoroutineInv(NoStream) /\ GoroutineInv(stream)
  BY DEF GoroutineInv, NoStream, NewStream, StreamInv
<1> USE DEF Goto, locals
<1>1. CASE StreamSilent \/ StreamLogged
  <2>1. /\ stream' \in Silent(stream) \cup Logged(stream)
        /\ UNCHANGED <<pc, turn, asm, stopped, turnCtx>>
    BY <1>1 DEF StreamSilent, StreamLogged, others
  <2>2. Kept(asm, stream, stream')
    BY <1>t, <1>n, <2>1, AdapterKeeps, RetryKeeps DEF Silent
  <2>3. pc # "reply"
    BY <1>n, <2>1, ExitedRests DEF StreamInv, NoFalseCompletion
  <2>4. pc \in {"stream", "select"} =>
           /\ stream'.turn = turn
           /\ ~TurnDone => FinishKept(asm, stream') /\ CleanExit(stream')
    BY <2>2 DEF Kept, StreamInv, CtxDone
  <2>5. QED
    BY <2>1, <2>2, <2>3, <2>4 DEF StreamInv, Kept, TurnDone, NoFalseCompletion
<1>2. CASE \/ PostUserMessage \/ PostNextStep \/ AbortTurn \/ Stop \/ Orphans \/ UNCHANGED vars
  <2>1. UNCHANGED <<pc, turn, asm, stream>> /\ (TurnDone => TurnDone')
    BY <1>2 DEF PostUserMessage, PostNextStep, AbortTurn, Stop, Orphans, OrphanReads, OrphanLogs,
       others, vars, TurnDone
  <2>2. QED
    BY <2>1 DEF StreamInv, NoFalseCompletion
<1>3. CASE Request
  <2>1. stream' = NewStream(turn, step) /\ turn' = turn /\ pc' = "stream"
    BY <1>3 DEF Request
  <2>2. /\ stream'.turn = turn /\ stream'.phase = "open" /\ stream'.ad = "off"
        /\ stream'.buf = <<>> /\ stream'.err = "none" /\ stream'.ended = "no"
    BY <2>1 DEF NewStream
  <2>3. QED
    BY <2>1, <2>2 DEF StreamInv, GoroutineInv, FinishKept, CleanExit, Exited, NoFalseCompletion
<1>4. CASE PollInterrupt
  <2>1. /\ UNCHANGED <<turn, asm, stream, stopped, turnCtx>>
        /\ pc = "stream" /\ pc' \in {"truncMsg", "select"}
    BY <1>4 DEF PollInterrupt
  <2>2. QED
    BY <2>1 DEF StreamInv, NoFalseCompletion, TurnDone
<1>5. CASE SelectChunk
  <2>1. /\ pc = "select" /\ pc' = "stream" /\ UNCHANGED <<turn, stopped, turnCtx>>
        /\ stream.out # <<>> /\ stream.out \in Seq(Chunk)
        /\ asm' = Ingest(asm, Head(stream.out))
        /\ stream' = [stream EXCEPT !.out = Tail(stream.out)]
    BY <1>5, <1>t DEF SelectChunk, callers, StreamType
  <2> DEFINE h == Head(stream.out)
             o == Tail(stream.out)
  <2>2. HasFinish(stream.out) => h.kind \in Finishes \/ HasFinish(o)
    BY <2>1, FinishTaken
  <2>3. asm'.finish = IF h.kind \in Finishes THEN h.kind ELSE asm.finish
    BY <2>1 DEF Ingest
  <2>4. stream' = [stream EXCEPT !.out = o]
    BY <2>1
  <2> HIDE DEF h, o
  <2>5. /\ stream'.out = o /\ stream'.buf = stream.buf /\ stream'.ad = stream.ad
        /\ stream'.phase = stream.phase /\ stream'.err = stream.err
        /\ stream'.ended = stream.ended /\ stream'.outErr = stream.outErr
        /\ stream'.turn = stream.turn
    BY <1>t, <2>4 DEF StreamType
  <2>6. GoroutineInv(stream')
    BY <1>n, <2>5 DEF GoroutineInv
  <2>7. FinishKept(asm, stream) => FinishKept(asm', stream')
    BY <2>2, <2>3, <2>5 DEF FinishKept, Finishes
  <2>8. CleanExit(stream) => CleanExit(stream')
    BY <2>5 DEF CleanExit, Exited
  <2>9. QED
    BY <2>1, <2>5, <2>6, <2>7, <2>8 DEF StreamInv, NoFalseCompletion, TurnDone
<1>6. CASE SelectClosed
  <2>1. /\ pc = "select" /\ UNCHANGED <<asm, stream>>
        /\ Exited(stream) /\ stream.out = <<>>
        /\ \/ pc' = "reply" /\ ~stream.outErr /\ ~TurnDone
           \/ pc' \in {"finishStep", "fatalStepEnd"}
    BY <1>6, <1>t DEF SelectClosed, RouteStepFatal, Finish
  <2>2. stream.buf = <<>>
    BY <1>n, <2>1 DEF GoroutineInv, Exited
  <2>3. ~HasFinish(stream.out) /\ ~HasFinish(stream.buf)
    BY <2>1, <2>2 DEF HasFinish
  <2>4. pc' = "reply" => stream.ended = "clean" /\ asm.finish # "none"
    BY <2>1, <2>3 DEF StreamInv, FinishKept, CleanExit
  <2>5. QED
    BY <1>n, <2>1, <2>4 DEF StreamInv, NoFalseCompletion
<1>7. ASSUME stream' \in {stream, NoStream}, pc' \notin {"stream", "select", "reply"}
      PROVE  StreamInv'
  BY <1>7, <1>n DEF StreamInv, NoFalseCompletion
<1>8. CASE \/ ExitActor \/ TakeMessage \/ BeginTurn \/ LogUserMessage \/ DrainInterrupt \/ DrainEnd
           \/ LogInterrupt \/ LoopTopAbort \/ BeginStep \/ SelectDone \/ SelectErr \/ FatalStepEnd
  <2>1. stream' = stream /\ pc' \notin {"stream", "select", "reply"}
    BY <1>8 DEF ExitActor, TakeMessage, BeginTurn, LogUserMessage, DrainInterrupt, DrainEnd,
       LogInterrupt, LoopTopAbort, BeginStep, SelectDone, SelectErr, RouteStepFatal, FatalStepEnd,
       Finish
  <2>2. QED
    BY <1>7, <2>1
<1>9. CASE \/ TruncateReply \/ TruncateStep \/ ReplyError \/ Reply \/ CallTool \/ AnswerTool
           \/ EndStep \/ EndTurn \/ FinishStep
  <2>1. stream' \in {stream, NoStream} /\ pc' \notin {"stream", "select", "reply"}
    BY <1>9 DEF TruncateReply, TruncateStep, ReplyError, Reply, CallTool, AnswerTool,
       EndStep, EndTurn, FinishStep, Finish, Abandon
  <2>2. QED
    BY <1>7, <2>1
<1>10. CASE FatalTurnEnd \/ AfterTurn \/ FinishTurn
  <2>1. PICK p \in Afters : Release(p)
    BY <1>10 DEF FatalTurnEnd, AfterTurn, FinishTurn, TypeInv, LocalsOK, Afters
  <2>2. stream' = NoStream /\ pc' \notin {"stream", "select", "reply"}
    BY <2>1 DEF Release, Abandon, Afters
  <2>3. QED
    BY <1>7, <2>2
<1>11. QED
  BY <1>1, <1>2, <1>3, <1>4, <1>5, <1>6, <1>8, <1>9, <1>10 DEF Next, Actor, Streams

(* A reply is accepted, and its tools run and its turn completes, only if   *)
(* the adapter ended that very attempt cleanly and its finish chunk was     *)
(* read: whichever ready case the selects of llmRetry and actorLoop pick,   *)
(* no failed, aborted or truncated stream passes for a success.             *)
THEOREM RepliesAreComplete == Spec => []NoFalseCompletion
<1>1. TypeInv /\ StreamInv /\ [Next]_vars => StreamInv'
  BY StreamStep
<1>2. StreamInv => NoFalseCompletion
  BY DEF StreamInv
<1>3. QED
  BY <1>1, <1>2, StreamInit, LoopInv, PTL DEF Spec
==============================================================================
