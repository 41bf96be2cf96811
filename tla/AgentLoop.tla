----------------------------- MODULE AgentLoop -------------------------------
(***************************************************************************)
(* One agent session of backend/pkg/agent/loop.go: the actor goroutine     *)
(* (actorLoop), the goroutines llmRetry starts for every step, the         *)
(* provider adapter behind them (llm/sse.go startStream), and the callers  *)
(* that post messages, interrupt, abort and stop.                          *)
(*                                                                         *)
(* The channels are the shared state.  A Go select over several ready      *)
(* cases is a nondeterministic choice; a priority select (with default) is *)
(* a guard.  Every EmitEvent is one atomic step here: what its stages do   *)
(* to each other is the subject of SessionLog.                             *)
(***************************************************************************)
EXTENDS Lifecycle, Integers, Sequences

CONSTANTS
    TurnCap,        \* capacity of nextTurnChan (16)
    StepCap,        \* capacity of nextStepChan (32)
    ChunkCap,       \* capacity of the chunk channels (64)
    MaxRetries,     \* defaultRetryMax (5)
    MaxMessages,    \* bound: user messages posted
    MaxInterrupts,  \* bound: next-step interrupts posted
    MaxSteps,       \* bound: step number from which replies call no tool
    MaxChunks,      \* bound: content chunks per attempt
    MaxFaults       \* bound: injected store failures

ASSUME CapsAssumption == {TurnCap, StepCap, ChunkCap} \subseteq Nat \ {0}
ASSUME BoundsAssumption ==
    {MaxRetries, MaxMessages, MaxInterrupts, MaxSteps, MaxChunks, MaxFaults} \subseteq Nat

VARIABLES
    inbox,          \* nextTurnChan
    interrupts,     \* nextStepChan
    posted,         \* user messages posted so far; message k is the number k
    postedSteps,    \* interrupts posted so far
    stopped,        \* a.ctx is cancelled
    turnCtx,        \* the per-turn context: "none", "live" or "cancelled"
    running,        \* isRunning
    machine,        \* the lifecycle machine
    gap,            \* the store misses a sequence number: it refuses the rest
    faults,         \* bound counter
    durable,        \* the durable log as a reader folds it (Reduce)
    pc,             \* where the actor is
    turn, step,     \* actorLoop's locals
    finished,       \* turnFinished
    sticky,         \* stickyMaxTokens
    hand,           \* the message or interrupt the actor took and not yet emitted
    reason, after,  \* finishTurnReason: its kind, and where the actor goes next
    asm,            \* the step's BlockAssembler
    stream,         \* the step's llmRetry goroutine with its channels
    orphans         \* llmRetry goroutines the actor no longer reads from

inputs == <<inbox, interrupts, posted, postedSteps>>
persist == <<gap, faults, durable>>
locals == <<turn, step, finished, sticky, hand, reason, after>>
vars == <<inputs, stopped, turnCtx, running, machine, persist, pc, locals, asm,
          stream, orphans>>

-----------------------------------------------------------------------------
(* DATA *)

(* The reader's view of the durable log.  Reduce folds in one event as it   *)
(* is, legal or not; whether the result is legal is TurnProtocol's say.     *)
EmptyLog == [turn |-> 0, step |-> 0, call |-> FALSE, turns |-> 0, steps |-> 0,
             last |-> NoEvent, messages |-> <<>>, interrupts |-> <<>>]

Reduce(d, ev) ==
    [turn |-> CASE ev.type = TurnStart -> ev.turn [] ev.type = TurnEnd -> 0 [] OTHER -> d.turn,
     step |-> CASE ev.type = StepStart -> ev.step [] ev.type = StepEnd -> 0 [] OTHER -> d.step,
     call |-> CASE ev.type = ToolCall -> TRUE [] ev.type = ToolResult -> FALSE [] OTHER -> d.call,
     turns |-> IF ev.type = TurnStart THEN ev.turn ELSE d.turns,
     steps |-> CASE ev.type = TurnStart -> 0 [] ev.type = StepStart -> ev.step [] OTHER -> d.steps,
     last |-> ev, messages |-> d.messages, interrupts |-> d.interrupts]

(* Stream chunks, each tagged with the attempt that produced it: a delta of *)
(* the text block, the deltas of the reply's tool-call blocks (a parallel   *)
(* pair), or a finish chunk.                                                *)
Contents == {"text", "tools"}
Finishes == {"stop", "max-tokens", "error"}
Chunk == [kind : Contents \cup Finishes, attempt : 0 .. MaxRetries]
ParallelCalls == 2

(* BlockAssembler: whether it holds text, how many tool calls, the finish   *)
(* reason and, for the properties, the attempts whose content went into it. *)
(* The adapter numbers the tool-call blocks of every attempt from 0, so the *)
(* deltas of a later attempt go into the blocks of the earlier one.         *)
EmptyAsm == [text |-> FALSE, tools |-> 0, finish |-> "none", attempts |-> {}]
Ingest(a, c) ==
    [text     |-> a.text \/ c.kind = "text",
     tools    |-> IF c.kind = "tools" THEN ParallelCalls ELSE a.tools,
     finish   |-> IF c.kind \in Finishes THEN c.kind ELSE a.finish,
     attempts |-> IF c.kind \in Contents THEN a.attempts \cup {c.attempt} ELSE a.attempts]
HasBlocks(a) == a.text \/ a.tools > 0

(* An llmRetry goroutine (phase, attempt), the adapter it reads from (ad,   *)
(* buf, err, made) and the channels it returned (out, outErr).  ended       *)
(* records how the adapter finished the attempt.                            *)
NewStream(t, s) ==
    [turn |-> t, step |-> s, phase |-> "open", attempt |-> 0,
     ad |-> "off", buf |-> <<>>, err |-> "none", made |-> 0,
     out |-> <<>>, outErr |-> FALSE, ended |-> "no"]
NoStream == [NewStream(0, 0) EXCEPT !.phase = "exited"]

(* The goroutine leaves; whatever the adapter still had is dropped.         *)
Exit(s) == [s EXCEPT !.phase = "exited", !.ad = "off", !.buf = <<>>, !.made = 0]
Exited(s) == s.phase = "exited"

(* A goroutine nobody reads from: of its adapter and channels only matters  *)
(* that it reads on ("read") or is stuck on its full channel ("blocked").   *)
Orphan(s) ==
    [turn |-> s.turn, step |-> s.step, attempt |-> s.attempt, err |-> s.err,
     phase |-> IF s.phase \in {"open", "read"} THEN "read" ELSE s.phase]

(* The contexts.  turnCtx is a child of a.ctx.                              *)
TurnDone == stopped \/ turnCtx # "live"
CtxDone(s) == TurnDone \/ s.turn # turn

Pcs == {"idle", "turnStart", "userMsg", "loopTop", "drainEnd", "drainMsg", "request",
        "stream", "select", "fatalStepEnd", "fatalTurnEnd", "truncMsg", "truncEnd",
        "reply", "toolCall", "toolResult", "stepEnd", "turnEnd", "afterTurn",
        "finishStep", "finishTurn", "exited"}

Init ==
    /\ inbox = <<>> /\ interrupts = <<>> /\ posted = 0 /\ postedSteps = 0
    /\ stopped = FALSE /\ turnCtx = "none" /\ running = FALSE
    /\ machine = FreshMachine(0)
    /\ gap = FALSE /\ faults = 0 /\ durable = EmptyLog
    /\ pc = "idle"
    /\ turn = 0 /\ step = 0 /\ finished = FALSE /\ sticky = FALSE
    /\ hand = <<>> /\ reason = "none" /\ after = "none"
    /\ asm = EmptyAsm /\ stream = NoStream /\ orphans = {}

-----------------------------------------------------------------------------
(* EMITTING *)

(* AppendEvents accepts d as the new log, or fails.  A failed append has    *)
(* consumed its sequence number, so the store refuses every later one.      *)
Persist(d) ==
    \/ ~gap /\ durable' = d /\ UNCHANGED <<gap, faults>>
    \/ ~gap /\ faults < MaxFaults /\ gap' = TRUE /\ faults' = faults + 1 /\ UNCHANGED durable
    \/ gap /\ UNCHANGED persist

(* EmitEvent of a type the machine does not track.                          *)
EmitEvent(type) ==
    Persist(Reduce(durable, Event(type, turn, step, "none"))) /\ UNCHANGED machine
EmitUserMessage(d) ==
    Persist(Reduce(d, Event(UserMessage, 0, 0, "none"))) /\ UNCHANGED machine
EmitLogOnly == Persist(durable) /\ UNCHANGED machine

(* EmitEvent of a boundary: a rejected one changes nothing; an admitted one *)
(* moves the machine whether or not the append then succeeds.               *)
EmitBoundary(type, kind) ==
    IF Admissible(machine, type)
    THEN /\ machine' = Transit(machine, type)
         /\ Persist(Reduce(durable, Event(type, StampTurn(machine, type),
                             IF type \in {StepStart, StepEnd} THEN StampStep(machine, type) ELSE 0,
                             kind)))
    ELSE UNCHANGED <<machine, persist>>

(* emitBoundary reports false on a persist failure, true on a rejection.    *)
BoundaryOK(type) == Admissible(machine, type) => ~gap'

-----------------------------------------------------------------------------
(* CALLERS *)

PostUserMessage ==
    /\ posted < MaxMessages /\ Len(inbox) < TurnCap
    /\ posted' = posted + 1
    /\ inbox' = Append(inbox, posted')
    /\ UNCHANGED <<interrupts, postedSteps, stopped, turnCtx, running, machine, persist,
                   pc, locals, asm, stream, orphans>>

PostNextStep ==
    /\ postedSteps < MaxInterrupts /\ Len(interrupts) < StepCap
    /\ postedSteps' = postedSteps + 1
    /\ interrupts' = Append(interrupts, postedSteps')
    /\ UNCHANGED <<inbox, posted, stopped, turnCtx, running, machine, persist,
                   pc, locals, asm, stream, orphans>>

(* AbortTurn: a no-op when no turn context exists.                          *)
AbortTurn ==
    /\ turnCtx = "live"
    /\ turnCtx' = "cancelled"
    /\ UNCHANGED <<inputs, stopped, running, machine, persist, pc, locals, asm,
                   stream, orphans>>

Stop ==
    /\ ~stopped
    /\ stopped' = TRUE
    /\ UNCHANGED <<inputs, turnCtx, running, machine, persist, pc, locals, asm,
                   stream, orphans>>

-----------------------------------------------------------------------------
(* THE ACTOR *)

callers == <<inputs, stopped>>

(* The actor moves to another point of actorLoop and keeps its locals.      *)
Goto(p) == pc' = p

(* finishTurnReason(kind), then release the turn and go on at next.         *)
Finish(kind, next) ==
    /\ pc' = "finishStep" /\ reason' = kind /\ after' = next
    /\ UNCHANGED <<turn, step, finished, sticky, hand>>

(* The step's stream is read no more; a goroutine still running lives on.   *)
Abandon ==
    /\ orphans' = IF Exited(stream) THEN orphans ELSE orphans \cup {Orphan(stream)}
    /\ stream' = NoStream /\ asm' = EmptyAsm

(* isRunning.Store(false), clearTurnCtx, and out of the turn.               *)
Release(p) ==
    /\ running' = FALSE /\ turnCtx' = "none" /\ pc' = p
    /\ turn' = 0 /\ step' = 0 /\ finished' = FALSE /\ sticky' = FALSE
    /\ hand' = <<>> /\ reason' = "none" /\ after' = "none"
    /\ Abandon

(* Wrong variant: the idle actor looks at its context only between messages.*)
ExitActorOnMessage ==
    /\ pc = "idle" /\ stopped /\ inbox # <<>>
    /\ Goto("exited")
    /\ UNCHANGED <<callers, turnCtx, running, machine, persist, locals, asm, stream, orphans>>

(* The idle select, and the beginning of a turn.                            *)
ExitActor ==
    /\ pc = "idle" /\ stopped
    /\ Goto("exited")
    /\ UNCHANGED <<callers, turnCtx, running, machine, persist, locals, asm, stream, orphans>>

(* Wrong variant: the step numbers of the last turn are carried on.         *)
TakeMessageKeepsSteps ==
    /\ pc = "idle" /\ inbox # <<>>
    /\ hand' = <<Head(inbox)>> /\ inbox' = Tail(inbox)
    /\ running' = TRUE
    /\ turnCtx' = "live"
    /\ Goto("turnStart")
    /\ UNCHANGED <<interrupts, posted, postedSteps, stopped, machine, persist, turn, step,
                   finished, sticky, reason, after, asm, stream, orphans>>

TakeMessage ==
    /\ pc = "idle" /\ inbox # <<>>
    /\ hand' = <<Head(inbox)>> /\ inbox' = Tail(inbox)
    /\ running' = TRUE
    /\ machine' = [machine EXCEPT !.stepNumber = 0]
    /\ turnCtx' = "live"
    /\ Goto("turnStart")
    /\ UNCHANGED <<interrupts, posted, postedSteps, stopped, persist, turn, step, finished,
                   sticky, reason, after, asm, stream, orphans>>

BeginTurn ==
    /\ pc = "turnStart"
    /\ EmitBoundary(TurnStart, "none")
    /\ IF BoundaryOK(TurnStart)
       THEN /\ Goto("userMsg")
            /\ turn' = machine'.activeTurn
            /\ UNCHANGED <<step, finished, sticky, hand, reason, after>>
       ELSE Finish("error", "idle")
    /\ UNCHANGED <<callers, turnCtx, running, asm, stream, orphans>>

(* Wrong variant: an early abort discards the message.                      *)
LogUserMessageUnlessAborted ==
    /\ pc = "userMsg"
    /\ IF TurnDone THEN UNCHANGED <<machine, persist>>
                   ELSE EmitUserMessage([durable EXCEPT !.messages = @ \o hand])
    /\ hand' = <<>>
    /\ Goto("loopTop")
    /\ UNCHANGED <<callers, turnCtx, running, turn, step, finished, sticky, reason, after,
                   asm, stream, orphans>>

LogUserMessage ==
    /\ pc = "userMsg"
    /\ EmitUserMessage([durable EXCEPT !.messages = @ \o hand])
    /\ hand' = <<>>
    /\ Goto("loopTop")
    /\ UNCHANGED <<callers, turnCtx, running, turn, step, finished, sticky, reason, after,
                   asm, stream, orphans>>

(* The top of the step loop: interrupts first, then the contexts.           *)
DrainInterrupt ==
    /\ pc = "loopTop" /\ interrupts # <<>>
    /\ hand' = <<Head(interrupts)>> /\ interrupts' = Tail(interrupts)
    /\ Goto("drainEnd")
    /\ UNCHANGED <<inbox, posted, postedSteps, stopped, turnCtx, running, machine, persist,
                   turn, step, finished, sticky, reason, after, asm, stream, orphans>>

DrainEnd ==
    /\ pc = "drainEnd"
    /\ EmitBoundary(StepEnd, "none")
    /\ IF BoundaryOK(StepEnd) THEN Goto("drainMsg") /\ UNCHANGED locals
                              ELSE Finish("error", "idle")
    /\ UNCHANGED <<callers, turnCtx, running, asm, stream, orphans>>

LogInterrupt ==
    /\ pc = "drainMsg"
    /\ EmitUserMessage([durable EXCEPT !.interrupts = @ \o hand])
    /\ hand' = <<>>
    /\ Goto("loopTop")
    /\ UNCHANGED <<callers, turnCtx, running, turn, step, finished, sticky, reason, after,
                   asm, stream, orphans>>

(* Both Done cases are ready once the agent is stopped.                     *)
LoopTopAbort ==
    /\ pc = "loopTop" /\ interrupts = <<>> /\ TurnDone
    /\ \/ stopped /\ Finish("aborted", "exited")
       \/ Finish("aborted", "idle")
    /\ UNCHANGED <<callers, turnCtx, running, machine, persist, asm, stream, orphans>>

BeginStep ==
    /\ pc = "loopTop" /\ interrupts = <<>> /\ ~TurnDone
    /\ EmitBoundary(StepStart, "none")
    /\ step' = machine'.activeStep
    /\ Goto("request")
    /\ UNCHANGED <<callers, turnCtx, running, turn, finished, sticky, hand, reason, after,
                   asm, stream, orphans>>

(* request/header is log-only; llmRetry starts the step's goroutine.        *)
Request ==
    /\ pc = "request"
    /\ EmitLogOnly
    /\ stream' = NewStream(turn, step)
    /\ asm' = EmptyAsm
    /\ Goto("stream")
    /\ UNCHANGED <<callers, turnCtx, running, locals, orphans>>

(* Each round first polls the interrupts, then blocks in the select, which  *)
(* does not listen to them.                                                 *)
PollInterrupt ==
    /\ pc = "stream"
    /\ IF interrupts # <<>>
       THEN /\ hand' = <<Head(interrupts)>> /\ interrupts' = Tail(interrupts)
            /\ Goto("truncMsg")
       ELSE /\ Goto("select")
            /\ UNCHANGED <<hand, interrupts>>
    /\ UNCHANGED <<inbox, posted, postedSteps, stopped, turnCtx, running, machine, persist,
                   turn, step, finished, sticky, reason, after, asm, stream, orphans>>

SelectDone ==
    /\ pc = "select" /\ TurnDone
    /\ Finish("aborted", IF stopped THEN "exited" ELSE "idle")
    /\ UNCHANGED <<callers, turnCtx, running, machine, persist, asm, stream, orphans>>

(* routeStepFatal: cancellation beats the failure.                          *)
RouteStepFatal ==
    \/ TurnDone /\ Finish("aborted", IF stopped THEN "exited" ELSE "idle")
    \/ ~TurnDone /\ Goto("fatalStepEnd") /\ UNCHANGED locals

SelectErr ==
    /\ pc = "select" /\ stream.outErr
    /\ RouteStepFatal
    /\ UNCHANGED <<callers, turnCtx, running, machine, persist, asm, stream, orphans>>

SelectChunk ==
    /\ pc = "select" /\ stream.out # <<>>
    /\ asm' = Ingest(asm, Head(stream.out))
    /\ stream' = [stream EXCEPT !.out = Tail(@)]
    /\ EmitEvent(AssistantChunk)
    /\ Goto("stream")
    /\ UNCHANGED <<callers, turnCtx, running, locals, orphans>>

(* The chunk channel is closed: drain the error channel, then let a         *)
(* cancellation win, and only then accept the end of the stream.            *)
SelectClosed ==
    /\ pc = "select" /\ Exited(stream) /\ stream.out = <<>>
    /\ IF stream.outErr \/ TurnDone THEN RouteStepFatal
                                    ELSE Goto("reply") /\ UNCHANGED locals
    /\ UNCHANGED <<callers, turnCtx, running, machine, persist, asm, stream, orphans>>

FatalStepEnd ==
    /\ pc = "fatalStepEnd"
    /\ EmitBoundary(StepEnd, "none")
    /\ IF BoundaryOK(StepEnd) THEN Goto("fatalTurnEnd") /\ UNCHANGED locals
                              ELSE Finish("error", "idle")
    /\ UNCHANGED <<callers, turnCtx, running, asm, stream, orphans>>

(* turnEndError; finishTurnReason after a failure finds the turn closed.    *)
FatalTurnEnd ==
    /\ pc = "fatalTurnEnd"
    /\ EmitBoundary(TurnEnd, "error")
    /\ Release("idle")
    /\ UNCHANGED callers

(* Interrupted: log the truncated reply if some block was committed, close  *)
(* the step, and drive the next step with the interrupt.                    *)
TruncateReply ==
    /\ pc = "truncMsg"
    /\ \/ HasBlocks(asm) /\ EmitEvent(AssistantMessage)
       \/ UNCHANGED <<machine, persist>>
    /\ Goto("truncEnd")
    /\ UNCHANGED <<callers, turnCtx, running, locals, asm, stream, orphans>>

(* Wrong variant: the interrupt that cut the step short is not replayed.    *)
TruncateStepForgets ==
    /\ pc = "truncEnd"
    /\ EmitBoundary(StepEnd, "none")
    /\ hand' = <<>> /\ Goto("loopTop")
    /\ Abandon
    /\ UNCHANGED <<callers, turnCtx, running, turn, step, finished, sticky, reason, after>>

(* Wrong variant: the interrupted step is left open.                        *)
TruncateStepLeavesOpen ==
    /\ pc = "truncEnd"
    /\ Goto("drainMsg") /\ Abandon
    /\ UNCHANGED <<callers, turnCtx, running, machine, persist, locals>>

TruncateStep ==
    /\ pc = "truncEnd"
    /\ EmitBoundary(StepEnd, "none")
    /\ IF BoundaryOK(StepEnd) THEN Goto("drainMsg") /\ UNCHANGED locals /\ Abandon
                              ELSE Finish("error", "idle") /\ UNCHANGED <<asm, stream, orphans>>
    /\ UNCHANGED <<callers, turnCtx, running>>

(* Finish routing.  A provider finish "error" closes the turn at once.      *)
ReplyError ==
    /\ pc = "reply" /\ asm.finish = "error"
    /\ IF HasBlocks(asm) THEN EmitEvent(AssistantMessage) ELSE UNCHANGED <<machine, persist>>
    /\ Finish("error", "idle")
    /\ UNCHANGED <<callers, turnCtx, running, asm, stream, orphans>>

(* From here on only the reply's tool calls are still needed.               *)
Reply ==
    /\ pc = "reply" /\ asm.finish # "error"
    /\ EmitEvent(AssistantMessage)
    /\ sticky' = (sticky \/ asm.finish = "max-tokens")
    /\ finished' = (asm.tools = 0)
    /\ Goto(IF asm.tools > 0 THEN "toolCall" ELSE "stepEnd")
    /\ asm' = [EmptyAsm EXCEPT !.tools = asm.tools]
    /\ stream' = NoStream
    /\ UNCHANGED <<callers, turnCtx, running, turn, step, hand, reason, after, orphans>>

CallTool ==
    /\ pc = "toolCall"
    /\ EmitEvent(ToolCall)
    /\ Goto("toolResult")
    /\ UNCHANGED <<callers, turnCtx, running, locals, asm, stream, orphans>>

(* The pipeline returned (or a hook blocked the call): log the result, then *)
(* look at the turn's context before the next call.                         *)
AnswerTool ==
    /\ pc = "toolResult"
    /\ EmitEvent(ToolResult)
    /\ asm' = [asm EXCEPT !.tools = @ - 1]
    /\ IF TurnDone
       THEN Finish("aborted", IF stopped THEN "exited" ELSE "idle")
       ELSE Goto(IF asm'.tools > 0 THEN "toolCall" ELSE "stepEnd") /\ UNCHANGED locals
    /\ UNCHANGED <<callers, turnCtx, running, stream, orphans>>

(* After a failed step/end the loop is left only if the turn was finished;  *)
(* otherwise it runs into its own cancelled context at the top.             *)
EndStep ==
    /\ pc = "stepEnd"
    /\ EmitBoundary(StepEnd, "none")
    /\ IF BoundaryOK(StepEnd)
       THEN Goto(IF finished THEN "turnEnd" ELSE "loopTop") /\ UNCHANGED locals /\ Abandon
       ELSE Finish("error", IF finished THEN "idle" ELSE "loopTop")
            /\ UNCHANGED <<asm, stream, orphans>>
    /\ UNCHANGED <<callers, turnCtx, running>>

EndTurn ==
    /\ pc = "turnEnd"
    /\ EmitBoundary(TurnEnd, IF sticky THEN "max-tokens" ELSE "completed")
    /\ running' = FALSE
    /\ Goto("afterTurn")
    /\ UNCHANGED <<callers, turnCtx, locals, asm, stream, orphans>>

(* The title and the compaction brackets are log-only; both are skipped     *)
(* when turn/end failed.                                                    *)
AfterTurn ==
    /\ pc = "afterTurn"
    /\ EmitLogOnly
    /\ Release("idle")
    /\ UNCHANGED callers

(* Wrong variant: the turn is closed without closing its open step.         *)
FinishStepSkipped ==
    /\ pc = "finishStep"
    /\ Goto("finishTurn")
    /\ UNCHANGED <<callers, turnCtx, running, machine, persist, locals, asm, stream, orphans>>

(* finishTurnReason: both emissions are best effort.                        *)
FinishStep ==
    /\ pc = "finishStep"
    /\ EmitBoundary(StepEnd, "none")
    /\ Goto("finishTurn")
    /\ UNCHANGED <<callers, turnCtx, running, locals, asm, stream, orphans>>

(* Wrong variant: the turn's context is not cleared.                        *)
FinishTurnKeepsCtx ==
    /\ pc = "finishTurn"
    /\ EmitBoundary(TurnEnd, reason)
    /\ running' = FALSE /\ pc' = after
    /\ turn' = 0 /\ step' = 0 /\ finished' = FALSE /\ sticky' = FALSE
    /\ hand' = <<>> /\ reason' = "none" /\ after' = "none"
    /\ Abandon
    /\ UNCHANGED <<callers, turnCtx>>

FinishTurn ==
    /\ pc = "finishTurn"
    /\ EmitBoundary(TurnEnd, reason)
    /\ Release(after)
    /\ UNCHANGED callers

Actor ==
    \/ ExitActor \/ TakeMessage \/ BeginTurn \/ LogUserMessage
    \/ DrainInterrupt \/ DrainEnd \/ LogInterrupt \/ LoopTopAbort \/ BeginStep \/ Request
    \/ PollInterrupt \/ SelectDone \/ SelectErr \/ SelectChunk \/ SelectClosed
    \/ FatalStepEnd \/ FatalTurnEnd \/ TruncateReply \/ TruncateStep
    \/ ReplyError \/ Reply \/ CallTool \/ AnswerTool \/ EndStep \/ EndTurn \/ AfterTurn
    \/ FinishStep \/ FinishTurn

-----------------------------------------------------------------------------
(* THE RETRY GOROUTINES AND THEIR ADAPTERS, as successors of one record *)

(* liveAdapter: none plugged in, or Stream opens a new attempt.             *)
OpenAttempt(s) ==
    IF s.phase # "open" THEN {}
    ELSE {Exit([s EXCEPT !.outErr = TRUE, !.ended = "failed"]),
          [s EXCEPT !.phase = "read", !.ad = "open", !.ended = "no"]}

(* classifyLlmError: what a failure is to the retry policy.                 *)
Failures == {"retryable", "fatal"}

(* The adapter: content, a finish chunk, then a clean close; or an error    *)
(* (retryable or not; a cancelled context is one too) and then the close.   *)
Produce(s) ==
    IF s.ad # "open" \/ Len(s.buf) >= ChunkCap THEN {}
    ELSE {[s EXCEPT !.buf = Append(@, [kind |-> k, attempt |-> s.attempt]), !.made = @ + 1] :
              k \in {c \in Contents : s.made < MaxChunks /\ (c = "tools" => s.step < MaxSteps)}}
         \cup
         {[s EXCEPT !.buf = Append(@, [kind |-> k, attempt |-> s.attempt]), !.ad = "finished"] :
              k \in {f \in Finishes : s.made = 0 => f # "stop"}}

AdapterFails(s) ==
    IF s.ad # "open" THEN {}
    ELSE {[s EXCEPT !.ad = "erred", !.err = e, !.ended = "failed"] : e \in Failures}

AdapterCloses(s) ==
    CASE s.ad = "finished" -> {[s EXCEPT !.ad = "closed", !.ended = "clean"]}
      [] s.ad = "erred"    -> {[s EXCEPT !.ad = "closed"]}
      [] OTHER             -> {}

(* The goroutine's select over the context, the chunks and the error.       *)
ReadCancelled(s) == IF s.phase = "read" /\ CtxDone(s) THEN {Exit(s)} ELSE {}
Failed(s) == [s EXCEPT !.phase = "failed", !.ad = "off", !.buf = <<>>, !.made = 0]
ReadErr(s) == IF s.phase = "read" /\ s.err # "none" THEN {Failed(s)} ELSE {}

(* Wrong variant: the close is accepted without draining the error channel. *)
ReadClosedUndrained(s) ==
    IF s.phase = "read" /\ s.ad = "closed" /\ s.buf = <<>> THEN {Exit(s)} ELSE {}

(* The close: cancellation wins, then a buffered error, then a clean end.   *)
ReadClosed(s) ==
    IF s.phase = "read" /\ s.ad = "closed" /\ s.buf = <<>>
    THEN {IF ~CtxDone(s) /\ s.err # "none" THEN Failed(s) ELSE Exit(s)} ELSE {}

(* A chunk moves from the adapter's channel to the caller's.  Taking it and *)
(* sending it are one step: a goroutine that waits for room with the chunk  *)
(* in hand differs from one that has not taken it only in not yet seeing an *)
(* error, which the select may also overlook.                               *)
Forward(s) ==
    IF s.phase = "read" /\ s.buf # <<>> /\ Len(s.out) < ChunkCap
    THEN {[s EXCEPT !.buf = Tail(@), !.out = Append(@, Head(s.buf))]} ELSE {}

(* The wait before the next attempt, aborted or run to its end.             *)
Wait(s) ==
    IF s.phase # "wait" THEN {}
    ELSE {[s EXCEPT !.phase = "started"]} \cup {x \in {Exit(s)} : CtxDone(s)}

(* Successors that touch nothing but the record.                            *)
Silent(s) ==
    OpenAttempt(s) \cup Produce(s) \cup AdapterFails(s) \cup AdapterCloses(s)
    \cup ReadCancelled(s) \cup Forward(s) \cup ReadErr(s) \cup ReadClosed(s)
    \cup Wait(s)

(* classifyLlmError, retryableCodes and the budget: is there another try?   *)
Retryable(s) == s.err = "retryable" /\ s.attempt < MaxRetries

(* Successors that first append an llm/retry or llm/retry-started event: a  *)
(* scheduled retry, giving up, and the start of the next attempt.           *)
Logged(s) ==
    CASE s.phase = "failed"  -> {IF Retryable(s) THEN [s EXCEPT !.phase = "wait"]
                                                 ELSE Exit([s EXCEPT !.outErr = TRUE])}
      [] s.phase = "started" -> {[s EXCEPT !.phase = "open", !.attempt = @ + 1, !.err = "none"]}
      [] OTHER               -> {}

others == <<inputs, stopped, turnCtx, running, machine, pc, locals, asm>>

StreamSilent ==
    /\ stream' \in Silent(stream)
    /\ UNCHANGED <<others, persist, orphans>>

StreamLogged ==
    /\ stream' \in Logged(stream)
    /\ Persist(durable)
    /\ UNCHANGED <<others, orphans>>

(* Wrong variant: a full channel is waited on without the context.          *)
OrphanSilentDeaf(s) ==
    LET to(p) == [s EXCEPT !.phase = p]
    IN  CASE s.phase = "read" ->
                {to("blocked"), to("exited")} \cup {[to("failed") EXCEPT !.err = e] : e \in Failures}
          [] s.phase = "wait" -> {to("started")} \cup (IF CtxDone(s) THEN {to("exited")} ELSE {})
          [] OTHER -> {}

(* An orphan reads until its attempt ends or its channel is full; it is     *)
(* woken from a full channel only by the end of the turn.                   *)
OrphanSilent(s) ==
    LET to(p) == [s EXCEPT !.phase = p]
    IN  CASE s.phase = "read" ->
                {to("blocked"), to("exited")} \cup {[to("failed") EXCEPT !.err = e] : e \in Failures}
          [] s.phase = "blocked" -> IF CtxDone(s) THEN {to("exited")} ELSE {}
          [] s.phase = "wait" -> {to("started")} \cup (IF CtxDone(s) THEN {to("exited")} ELSE {})
          [] OTHER -> {}

OrphanLogged(s) ==
    CASE s.phase = "failed"  -> {[s EXCEPT !.phase = IF Retryable(s) THEN "wait" ELSE "exited"]}
      [] s.phase = "started" -> {[s EXCEPT !.phase = "read", !.attempt = @ + 1, !.err = "none"]}
      [] OTHER               -> {}

(* An orphan that exits is gone.                                            *)
Replace(s, n) == orphans' = (orphans \ {s}) \cup {x \in {n} : ~Exited(x)}

OrphanReads ==
    /\ \E s \in orphans : \E n \in OrphanSilent(s) : Replace(s, n)
    /\ UNCHANGED <<others, persist, stream>>

OrphanLogs ==
    /\ \E s \in orphans : \E n \in OrphanLogged(s) : Replace(s, n)
    /\ Persist(durable)
    /\ UNCHANGED <<others, stream>>

Streams == StreamSilent \/ StreamLogged
Orphans == OrphanReads \/ OrphanLogs

-----------------------------------------------------------------------------
(* Once the actor has exited and its goroutines are gone, nothing moves.    *)
Next == PostUserMessage \/ PostNextStep \/ AbortTurn \/ Stop \/ Actor \/ Streams \/ Orphans

Spec == Init /\ [][Next]_vars

(* The runtime schedules every goroutine, tools return, and the adapter's   *)
(* watchdog ends a silent provider; callers owe nothing.                    *)
FairSpec == Spec /\ WF_vars(Actor) /\ WF_vars(Streams) /\ WF_vars(Orphans)

-----------------------------------------------------------------------------
(* PROPERTIES *)

(* Every variable has its type; the channels keep their capacities.         *)
TypeOK ==
    /\ inbox \in Seq(Nat) /\ Len(inbox) <= TurnCap
    /\ interrupts \in Seq(Nat) /\ Len(interrupts) <= StepCap
    /\ stopped \in BOOLEAN /\ running \in BOOLEAN /\ gap \in BOOLEAN
    /\ turnCtx \in {"none", "live", "cancelled"}
    /\ machine \in Machine
    /\ pc \in Pcs
    /\ {stream.out, stream.buf} \subseteq Seq(Chunk)
    /\ Len(stream.out) <= ChunkCap /\ Len(stream.buf) <= ChunkCap
    /\ \A s \in orphans \cup {stream} : s.attempt <= MaxRetries

(* The durable log of the loop is one the abstract protocol allows.         *)
Protocol == INSTANCE TurnProtocol WITH
    turn <- durable.turn, step <- durable.step, call <- durable.call,
    turns <- durable.turns, steps <- durable.steps, last <- durable.last

(* actorLoop implements the turn protocol: in whatever order streams fail,  *)
(* retry and close, and aborts, stops and interrupts arrive, each event is  *)
(* appended where TurnProtocol allows it, with the numbers of its bracket.  *)
ImplementsProtocol == Protocol!Spec

(* A reply is accepted (and its tools run, and its turn completes) only if  *)
(* the adapter ended that very attempt cleanly and its finish chunk was     *)
(* read: no failed, aborted or truncated stream passes for a success,       *)
(* whichever ready channel the two selects pick.                            *)
NoFalseCompletion ==
    pc = "reply" => Exited(stream) /\ stream.ended = "clean" /\ asm.finish # "none"

(* Whenever the actor is back at its inbox or has exited, it is not         *)
(* running, the machine has no open bracket, no turn context is left to     *)
(* abort, and, unless the store failed, neither has the durable log.        *)
IdleClosed ==
    pc \in {"idle", "exited"} =>
        /\ ~running /\ turnCtx = "none"
        /\ machine.activeTurn = 0 /\ machine.activeStep = 0
        /\ ~gap => durable.turn = 0 /\ durable.step = 0

Upto(n) == [i \in 1 .. n |-> i]

(* Unless the store failed, every message and every interrupt is in its     *)
(* channel, in the actor's hand or in the durable log: none is lost,        *)
(* duplicated or overtaken, however turns are interrupted, aborted, stopped.*)
MessagesConserved ==
    ~gap =>
        LET taken(at) == IF pc \in at THEN hand ELSE <<>>
        IN  /\ durable.messages \o taken({"turnStart", "userMsg"}) \o inbox = Upto(posted)
            /\ durable.interrupts \o taken({"drainEnd", "drainMsg", "truncMsg", "truncEnd"})
                 \o interrupts = Upto(postedSteps)

(* What llmRetry's comment promises ("Retries are transparent to the        *)
(* caller"): a reply is assembled from the chunks of one attempt only.      *)
AttemptsNotMixed == pc = "reply" => \A a, b \in asm.attempts : a = b

(* AbortTurn takes effect: an aborted turn ends, whatever the provider does,*)
(* and leaves no stale cancellation for the next turn.                      *)
AbortEndsTurn == turnCtx = "cancelled" ~> turnCtx = "none" /\ ~running

(* Stop takes effect: the actor returns from actorLoop.                     *)
StopExits == stopped ~> pc = "exited"

(* A posted message is answered: its user/message reaches the log, unless   *)
(* the session is stopped or the store failed.                              *)
MessageServed == \A k \in 1 .. MaxMessages :
    posted >= k ~> (Len(durable.messages) >= k \/ stopped \/ gap)

(* No retry goroutine outlives its turn for ever: one the actor abandoned   *)
(* to an interrupt, even blocked on its full channel, ends.                 *)
OrphansExit == orphans # {} ~> orphans = {}
==============================================================================
