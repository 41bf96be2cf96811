------------------------------ MODULE Lifecycle ------------------------------
(***************************************************************************)
(* The turn/step lifecycle machine of an agent session                     *)
(* (backend/pkg/agent/loop.go, Agent.validateTransition and the boundary   *)
(* payload assignment of Agent.EmitEvent), as constant-level operators.    *)
(* Both the log pipeline (SessionLog) and the actor loop (AgentLoop) drive *)
(* this machine, each from its own state variable.                         *)
(***************************************************************************)
EXTENDS Naturals

TurnStart == "turn/start"
TurnEnd   == "turn/end"
StepStart == "step/start"
StepEnd   == "step/end"

Boundaries == {TurnStart, TurnEnd, StepStart, StepEnd}

(* activeTurn, activeStep: 0 means "none open".  turnNumber and stepNumber  *)
(* are the counters the machine draws identities from.                      *)
Machine == [activeTurn : Nat, activeStep : Nat, turnNumber : Nat, stepNumber : Nat]

(* A machine that has already numbered lastTurn turns and has none open.    *)
FreshMachine(lastTurn) ==
    [activeTurn |-> 0, activeStep |-> 0, turnNumber |-> lastTurn, stepNumber |-> 0]

(* validateTransition rejects every other event; types that are no boundary *)
(* are always admitted.                                                     *)
Admissible(m, type) ==
    /\ type = TurnStart => m.activeTurn = 0
    /\ type = TurnEnd   => m.activeTurn # 0 /\ m.activeStep = 0
    /\ type = StepStart => m.activeTurn # 0 /\ m.activeStep = 0
    /\ type = StepEnd   => m.activeStep # 0

(* The mutation validateTransition makes when it admits the event.          *)
Transit(m, type) ==
    CASE type = TurnStart ->
            [activeTurn |-> m.turnNumber + 1, activeStep |-> 0,
             turnNumber |-> m.turnNumber + 1, stepNumber |-> m.stepNumber]
      [] type = TurnEnd   -> [m EXCEPT !.activeTurn = 0]
      [] type = StepStart ->
            [activeTurn |-> m.activeTurn, activeStep |-> m.stepNumber + 1,
             turnNumber |-> m.turnNumber, stepNumber |-> m.stepNumber + 1]
      [] type = StepEnd   -> [m EXCEPT !.activeStep = 0]
      [] OTHER            -> m

(* The turn and step a boundary payload carries: start events read the      *)
(* machine after the transition, end events keep the identity before it.    *)
StampTurn(m, type) ==
    IF type \in {TurnStart, StepStart} THEN Transit(m, type).activeTurn ELSE m.activeTurn

StampStep(m, type) ==
    IF type = StepStart THEN Transit(m, type).activeStep ELSE m.activeStep

(* The events a turn is made of besides its boundaries.                     *)
UserMessage      == "user/message"
AssistantChunk   == "assistant/chunk"
AssistantMessage == "assistant/message"
ToolCall         == "tool/call"
ToolResult       == "tool/result"

(* How a turn/end may qualify itself; every other event has kind "none".    *)
EndKinds == {"completed", "max-tokens", "aborted", "error"}

Event(type, t, s, kind) == [type |-> type, turn |-> t, step |-> s, kind |-> kind]
NoEvent == Event("none", 0, 0, "none")
==============================================================================
