---------------------------- MODULE TurnProtocol -----------------------------
(***************************************************************************)
(* What the durable log of one session promises to whoever folds it (the   *)
(* message derivation, the clients, the subagent manager): turns are       *)
(* numbered consecutively and never overlap, the steps of a turn are       *)
(* numbered from 1 and never overlap, human messages enter a turn only     *)
(* between its steps, model output and tool traffic appears only inside    *)
(* the step whose numbers it carries, a tool call is answered before       *)
(* anything else happens in its step, and a turn is reported completed     *)
(* only right after one of its steps closed.  Log-only events (llm/retry,  *)
(* request/header, titles, compaction brackets) may appear anywhere and    *)
(* are stuttering steps here.                                              *)
(***************************************************************************)
EXTENDS Lifecycle

VARIABLES
    turn,       \* the open turn, 0 when none
    step,       \* the open step, 0 when none
    call,       \* a tool call of the open step awaits its result
    turns,      \* turns started so far
    steps,      \* steps started so far in the latest turn
    last        \* the latest event that is not log-only

vars == <<turn, step, call, turns, steps, last>>

Init ==
    /\ turn = 0 /\ step = 0 /\ call = FALSE
    /\ turns = 0 /\ steps = 0
    /\ last = NoEvent

StartTurn ==
    /\ turn = 0
    /\ turn' = turns + 1 /\ turns' = turns + 1 /\ steps' = 0
    /\ last' = Event(TurnStart, turn', 0, "none")
    /\ UNCHANGED <<step, call>>

HumanMessage ==
    /\ turn # 0 /\ step = 0
    /\ last' = Event(UserMessage, 0, 0, "none")
    /\ UNCHANGED <<turn, step, call, turns, steps>>

StartStep ==
    /\ turn # 0 /\ step = 0
    /\ step' = steps + 1 /\ steps' = steps + 1
    /\ last' = Event(StepStart, turn, step', "none")
    /\ UNCHANGED <<turn, call, turns>>

ModelOutput(type) ==
    /\ step # 0 /\ ~call
    /\ last' = Event(type, turn, step, "none")
    /\ UNCHANGED <<turn, step, call, turns, steps>>

CallTool ==
    /\ step # 0 /\ ~call
    /\ call' = TRUE
    /\ last' = Event(ToolCall, turn, step, "none")
    /\ UNCHANGED <<turn, step, turns, steps>>

AnswerTool ==
    /\ call
    /\ call' = FALSE
    /\ last' = Event(ToolResult, turn, step, "none")
    /\ UNCHANGED <<turn, step, turns, steps>>

EndStep ==
    /\ step # 0 /\ ~call
    /\ step' = 0
    /\ last' = Event(StepEnd, turn, step, "none")
    /\ UNCHANGED <<turn, call, turns, steps>>

EndTurn(kind) ==
    /\ turn # 0 /\ step = 0
    /\ kind \in {"completed", "max-tokens"} => last.type = StepEnd
    /\ turn' = 0
    /\ last' = Event(TurnEnd, turn, 0, kind)
    /\ UNCHANGED <<step, call, turns, steps>>

Next ==
    \/ StartTurn \/ HumanMessage \/ StartStep
    \/ ModelOutput(AssistantChunk) \/ ModelOutput(AssistantMessage)
    \/ CallTool \/ AnswerTool \/ EndStep
    \/ \E kind \in EndKinds : EndTurn(kind)

Spec == Init /\ [][Next]_vars
==============================================================================
