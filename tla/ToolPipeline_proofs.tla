-------------------------- MODULE ToolPipeline_proofs --------------------------
(***************************************************************************)
(* Tool calls run as the policy permits, for any number of sessions, calls *)
(* and policy changes, whatever tools and presets there are.               *)
(***************************************************************************)
EXTENDS ToolPipeline, SequenceTheorems, TLAPS

-----------------------------------------------------------------------------
(* Types. *)

Sandboxes == {Knobs[mode][1] : mode \in Modes} \cup {"workspace-write"}
Approvals == {Knobs[mode][2] : mode \in Modes} \cup {"ask"}
Models == {"", "reviewer"}

PolicyType == [sandbox : Sandboxes, approval : Approvals, preset : Modes \cup {""}, model : Models]

Stages == {"hook", "policy", "gate", "review", "ask", "run", "touch", "read", "replace", "done"}

Outcomes == {"", "allowed-once", "allowed-always", "rejected", "cancelled"}
Verdicts == {"", "uncertain", "allow", "deny"}

CallType ==
    [s : Sessions, tool : Tools, at : Stages, inside : BOOLEAN, pinned : BOOLEAN, base : Nat,
     data : SUBSET Nat, approval : Approvals \cup {""}, model : Models,
     regimes : SUBSET (Sandboxes \X Approvals),
     outcome : Outcomes, verdict : Verdicts,
     ran : BOOLEAN, touched : BOOLEAN, ok : BOOLEAN]

CommandType == [s : Sessions, mode : Modes \cup {"default", "plan"}, at : {"sandbox", "approval", "preset", "done"}]

(* A command that is not done names one of the presets.                     *)
TypeInv ==
    /\ pol \in [Sessions -> PolicyType] /\ allowed \in [Sessions -> SUBSET Tools]
    /\ call \in Seq(CallType) /\ cmd \in Seq(CommandType)
    /\ file \in [ver : Nat, edits : SUBSET Nat]
    /\ \A i \in DOMAIN cmd : cmd[i].at # "done" => cmd[i].mode \in Modes

-----------------------------------------------------------------------------
(* The inductive invariant. *)

(* The agent makes the calls of a session one after another.                *)
OneLiveCall ==
    \A c, d \in Calls :
        call[c].s = call[d].s /\ call[c].at # "done" /\ call[d].at # "done" => c = d

(* The policy in force is in the record of a call that is not over.         *)
RegimeNow(c) ==
    call[c].at # "done" => <<pol[call[c].s].sandbox, pol[call[c].s].approval>> \in call[c].regimes

(* Nothing has run or been decided before the gates are passed.             *)
Undecided(c) ==
    /\ call[c].at \in {"hook", "policy", "gate", "review", "ask", "run"} => ~call[c].ran
    /\ call[c].at # "done" => ~call[c].touched
    /\ call[c].at \in {"hook", "policy", "gate", "review", "ask"} => call[c].outcome = ""

(* The approval policy a call is judged by was in force when it was read,   *)
(* and it reaches the reviewer and the user only where that policy sends it.*)
PolicySeen(c) ==
    /\ call[c].at \in {"gate", "review", "ask"} =>
          \E r \in call[c].regimes : r[2] = call[c].approval
    /\ call[c].at = "review" => call[c].approval = "review"
    /\ call[c].at = "ask" => call[c].approval \notin {"never", "allow-all"}

(* A call that needs permission and is past the gates was admitted.         *)
Admitted(c) ==
    (call[c].tool \in RequiresPerm /\ (call[c].at \in {"run", "touch", "read", "replace"} \/ call[c].ran)) =>
        /\ \E r \in call[c].regimes : Admits(c, r[2])
        /\ call[c].outcome \in {"", "allowed-once", "allowed-always"}

(* read_file and write_file are past the sandbox where they touch the file, *)
(* which replace_file_content reaches by stages of its own.                 *)
Sandboxed(c) ==
    /\ (call[c].tool \in {"read_file", "write_file"} /\ (call[c].at = "touch" \/ call[c].touched)) =>
          \E r \in call[c].regimes : r[1] = "danger-full-access" \/ (r[1] # "read-only" /\ call[c].inside)
    /\ call[c].at \in {"read", "replace"} => call[c].tool = "replace_file_content"

CallInv(c) == RegimeNow(c) /\ Undecided(c) /\ PolicySeen(c) /\ Admitted(c) /\ Sandboxed(c)

PipelineInv == TypeInv /\ OneLiveCall /\ \A c \in Calls : CallInv(c)

-----------------------------------------------------------------------------
(* What the steps do to the calls. *)

(* The calls and commands of a state, by type.                              *)
LEMMA CallTyped ==
    ASSUME TypeInv
    PROVE  /\ Calls = 1 .. Len(call) /\ Len(call) \in Nat
           /\ \A c \in Calls : call[c] \in CallType /\ call[c].s \in Sessions /\ call[c].tool \in Tools
           /\ DOMAIN cmd = 1 .. Len(cmd) /\ \A i \in DOMAIN cmd : cmd[i] \in CommandType
<1>1. call \in Seq(CallType) /\ cmd \in Seq(CommandType)
  BY DEF TypeInv
<1>2. Calls = 1 .. Len(call) /\ Len(call) \in Nat /\ \A c \in Calls : call[c] \in CallType
  BY <1>1, LenProperties DEF Calls
<1>3. DOMAIN cmd = 1 .. Len(cmd) /\ \A i \in DOMAIN cmd : cmd[i] \in CommandType
  BY <1>1, LenProperties
<1>4. QED
  BY <1>2, <1>3 DEF CallType

(* Replacing one call keeps the others.                                     *)
LEMMA ReplaceCall ==
    ASSUME TypeInv, NEW c \in Calls, NEW new \in CallType, call' = [call EXCEPT ![c] = new]
    PROVE  /\ call' \in Seq(CallType) /\ Calls' = Calls
           /\ call'[c] = new /\ \A d \in Calls \ {c} : call'[d] = call[d]
<1>1. c \in 1 .. Len(call) /\ call \in Seq(CallType)
  BY CallTyped DEF TypeInv
<1>2. call' \in Seq(CallType) /\ Len(call') = Len(call)
  BY <1>1, ExceptSeq
<1>3. Calls' = Calls
  BY <1>1, <1>2, LenProperties DEF Calls
<1>4. QED
  BY <1>1, <1>2, <1>3, LenProperties DEF Calls

(* The steps of one call of the pipeline.                                   *)
CallStep(c) ==
    \/ PreToolUse(c) \/ ReadPolicy(c) \/ Gate(c) \/ Review(c)
    \/ \E d \in {"allow_once", "allow_all", "deny", "cancel"} : Answer(c, d)
    \/ RunCommand(c) \/ CheckedFileTool(c) \/ TouchFile(c)
    \/ CheckVersion(c) \/ ReadFile(c) \/ WriteBack(c)
    \/ \E mode \in Modes : PolicyTool(c, mode)
    \/ ExitPlanMode(c)

(* What a step of a call leaves of its record.                              *)
SameCall(c, new) ==
    /\ new.s = call[c].s /\ new.tool = call[c].tool /\ new.inside = call[c].inside
    /\ new.regimes = call[c].regimes

(* A step of a call replaces the record of a call that was not over.        *)
LEMMA CallMoves ==
    ASSUME TypeInv, NEW c \in Calls, CallStep(c)
    PROVE  \E new \in CallType :
              call' = [call EXCEPT ![c] = new] /\ SameCall(c, new) /\ call[c].at # "done"
<1> DEFINE Moved == \E new \in CallType :
                       call' = [call EXCEPT ![c] = new] /\ SameCall(c, new) /\ call[c].at # "done"
<1>1. /\ call[c] \in CallType /\ c \in Nat /\ c \in DOMAIN call
      /\ pol[call[c].s] \in PolicyType /\ file.edits \in SUBSET Nat
  BY CallTyped DEF TypeInv, Calls
<1>2. pol[call[c].s].approval \in Approvals /\ pol[call[c].s].model \in Models
  BY <1>1 DEF PolicyType
<1> DEFINE k == call[c]
           New(at, outcome, verdict, data, ran, touched, ok) ==
               [k EXCEPT !.at = at, !.outcome = outcome, !.verdict = verdict, !.data = data,
                         !.ran = ran, !.touched = touched, !.ok = ok]
           At(at) == [k EXCEPT !.at = at]
<1>3. /\ k.outcome \in Outcomes
      /\ k.verdict \in Verdicts /\ k.data \in SUBSET Nat
      /\ k.ran \in BOOLEAN /\ k.touched \in BOOLEAN /\ k.ok \in BOOLEAN
  BY <1>1 DEF CallType
<1>4. \A at \in Stages, outcome \in Outcomes,
         verdict \in Verdicts, data \in SUBSET Nat,
         ran \in BOOLEAN, touched \in BOOLEAN, ok \in BOOLEAN :
         /\ New(at, outcome, verdict, data, ran, touched, ok) \in CallType
         /\ SameCall(c, New(at, outcome, verdict, data, ran, touched, ok))
  <2> TAKE at \in Stages, outcome \in Outcomes, verdict \in Verdicts, data \in SUBSET Nat,
           ran \in BOOLEAN, touched \in BOOLEAN, ok \in BOOLEAN
  <2>1. New(at, outcome, verdict, data, ran, touched, ok) \in CallType
    BY <1>1 DEF CallType
  <2>2. SameCall(c, New(at, outcome, verdict, data, ran, touched, ok))
    BY <1>1 DEF CallType, SameCall
  <2>3. QED
    BY <2>1, <2>2
<1>5. \A at : At(at) = New(at, k.outcome, k.verdict, k.data, k.ran, k.touched, k.ok)
  BY <1>1 DEF CallType
<1>6. \A at \in Stages : At(at) \in CallType /\ SameCall(c, At(at))
  <2> TAKE at \in Stages
  <2>1. At(at) = New(at, k.outcome, k.verdict, k.data, k.ran, k.touched, k.ok)
    BY <1>5
  <2> HIDE DEF At, New
  <2>2. QED
    BY <1>3, <1>4, <2>1
<1>7. ASSUME NEW at \in Stages, call' = [call EXCEPT ![c].at = at], k.at # "done" PROVE Moved
  BY <1>1, <1>6, <1>7
<1>8. ASSUME NEW at \in Stages, NEW outcome \in Outcomes,
             NEW verdict \in Verdicts, NEW data \in SUBSET Nat,
             NEW ran \in BOOLEAN, NEW touched \in BOOLEAN, NEW ok \in BOOLEAN, k.at # "done",
             call' = [call EXCEPT ![c] = New(at, outcome, verdict, data, ran, touched, ok)]
      PROVE  Moved
  <2>1. SameCall(c, New(at, outcome, verdict, data, ran, touched, ok))
    BY <1>4, <1>8
  <2>2. New(at, outcome, verdict, data, ran, touched, ok) \in CallType
    BY <1>4, <1>8
  <2> HIDE DEF New
  <2>3. QED
    BY <1>8, <2>1, <2>2
<1>9. /\ {"done", "run", "touch", "read", "replace", "ask"} \subseteq Stages
       /\ {"rejected", "allowed-once", "allowed-always", "cancelled"} \subseteq Outcomes
       /\ {"uncertain", "allow", "deny"} \subseteq Verdicts /\ {TRUE, FALSE} \subseteq BOOLEAN
  BY DEF Stages, Outcomes, Verdicts
<1> HIDE DEF Moved, At, New
<1>10. ASSUME PreToolUse(c) PROVE Moved
  <2>1. ASSUME Finish(c, FALSE) PROVE Moved
    <3>1. call' = [call EXCEPT ![c] = New("done", k.outcome, k.verdict, k.data, k.ran, k.touched, FALSE)]
      BY <1>1, <2>1 DEF Finish, CallType, New
    <3>2. k.at # "done"
      BY <1>10 DEF PreToolUse
    <3>3. QED
      BY <1>3, <1>8, <1>9, <3>1, <3>2
  <2>2. QED
    BY <1>10, <1>7, <2>1 DEF PreToolUse, Stages
<1>11. ASSUME ReadPolicy(c) PROVE Moved
  BY <1>1, <1>2, <1>11 DEF ReadPolicy, CallType, Stages, SameCall, Moved
<1>12. ASSUME Gate(c) PROVE Moved
  <2>1. \/ \E s \in {"run", "review", "ask"} : call' = [call EXCEPT ![c].at = s]
        \/ Reject(c)
    BY <1>12 DEF Gate, Ask, Step
  <2>2. call[c].at = "gate"
    BY <1>12 DEF Gate
  <2>3. ASSUME Reject(c) PROVE Moved
    <3>1. call' = [call EXCEPT ![c] = New("done", "rejected", k.verdict, k.data, k.ran, k.touched, k.ok)]
      BY <1>1, <2>3 DEF Reject, CallType, New
    <3>2. k.at # "done"
      BY <2>2
    <3>3. QED
      BY <1>3, <1>8, <1>9, <3>1, <3>2
  <2>4. QED
    BY <1>7, <2>1, <2>2, <2>3 DEF Stages
<1>13. ASSUME Review(c) PROVE Moved
  <2>1. ASSUME NEW s \in {"ask", "run"}, NEW v \in {"uncertain", "allow"},
               call' = [call EXCEPT ![c].at = s, ![c].verdict = v]
        PROVE  Moved
    <3>1. call' = [call EXCEPT ![c] = New(s, k.outcome, v, k.data, k.ran, k.touched, k.ok)]
      BY <1>1, <2>1 DEF CallType, New
    <3>2. k.at # "done"
      BY <1>13 DEF Review
    <3>3. QED
      BY <1>3, <1>8, <1>9, <3>1, <3>2
  <2>2. ASSUME call' = [call EXCEPT ![c].at = "done", ![c].verdict = "deny", ![c].outcome = "rejected"]
        PROVE  Moved
    <3>1. call' = [call EXCEPT ![c] = New("done", "rejected", "deny", k.data, k.ran, k.touched, k.ok)]
      BY <1>1, <2>2 DEF CallType, New
    <3>2. k.at # "done"
      BY <1>13 DEF Review
    <3>3. QED
      BY <1>3, <1>8, <1>9, <3>1, <3>2
  <2>3. QED
    BY <1>13, <2>1, <2>2 DEF Review
<1>14. ASSUME NEW d \in {"allow_once", "allow_all", "deny", "cancel"}, Answer(c, d) PROVE Moved
  <2>1. PICK s \in {"done", "run"}, o \in {"allowed-once", "allowed-always", "rejected", "cancelled"} :
           call' = [call EXCEPT ![c].outcome = o, ![c].at = s]
    BY <1>14 DEF Answer
  <2>2. call' = [call EXCEPT ![c] = New(s, o, k.verdict, k.data, k.ran, k.touched, k.ok)]
    BY <1>1, <2>1 DEF CallType, New
  <2>3. k.at # "done"
    BY <1>14 DEF Answer
  <2>4. s \in Stages /\ o \in Outcomes
    BY <1>9
  <2>5. QED
    BY <1>3, <1>8, <2>2, <2>3, <2>4
<1>15. ASSUME RunCommand(c) PROVE Moved
  <2>1. call' = [call EXCEPT ![c] = New("done", k.outcome, k.verdict, k.data, TRUE, k.touched, TRUE)]
    BY <1>1, <1>15 DEF RunCommand, CallType, New
  <2>2. k.at # "done"
    BY <1>15 DEF RunCommand
  <2>3. QED
    BY <1>3, <1>8, <1>9, <2>1, <2>2
<1>16. ASSUME CheckedFileTool(c) PROVE Moved
  <2>1. PICK s \in {"done", "touch"} : call' = [call EXCEPT ![c].at = s, ![c].ran = TRUE]
    BY <1>16 DEF CheckedFileTool
  <2>2. call' = [call EXCEPT ![c] = New(s, k.outcome, k.verdict, k.data, TRUE, k.touched, k.ok)]
    BY <1>1, <2>1 DEF CallType, New
  <2>3. k.at # "done"
    BY <1>16 DEF CheckedFileTool
  <2>4. QED
    BY <1>3, <1>8, <1>9, <2>2, <2>3
<1>17. ASSUME TouchFile(c) PROVE Moved
  <2>1. PICK touched \in BOOLEAN, ok \in BOOLEAN :
           call' = [call EXCEPT ![c] = New("done", k.outcome, k.verdict, k.data, k.ran, touched, ok)]
    <3>1. CASE call' = [call EXCEPT ![c].at = "done", ![c].touched = TRUE, ![c].ok = TRUE]
      <4>1. call' = [call EXCEPT ![c] = New("done", k.outcome, k.verdict, k.data, k.ran, TRUE, TRUE)]
        BY <1>1, <3>1 DEF CallType, New
      <4>2. QED
        BY <4>1
    <3>2. CASE Finish(c, FALSE)
      <4>1. call' = [call EXCEPT ![c] = New("done", k.outcome, k.verdict, k.data, k.ran, k.touched, FALSE)]
        BY <1>1, <3>2 DEF Finish, CallType, New
      <4>2. QED
        BY <1>3, <4>1
    <3>3. QED
      BY <1>17, <3>1, <3>2 DEF TouchFile
  <2>2. k.at # "done"
    BY <1>17 DEF TouchFile
  <2>3. QED
    BY <1>3, <1>8, <1>9, <2>1, <2>2
<1>18. ASSUME CheckVersion(c) PROVE Moved
  <2>1. PICK s \in {"done", "read"} : call' = [call EXCEPT ![c].ran = TRUE, ![c].at = s]
    BY <1>18 DEF CheckVersion
  <2>2. call' = [call EXCEPT ![c] = New(s, k.outcome, k.verdict, k.data, TRUE, k.touched, k.ok)]
    BY <1>1, <2>1 DEF CallType, New
  <2>3. k.at # "done"
    BY <1>18 DEF CheckVersion
  <2>4. QED
    BY <1>3, <1>8, <1>9, <2>2, <2>3
<1>19. ASSUME ReadFile(c) PROVE Moved
  <2>1. ASSUME call' = [call EXCEPT ![c].at = "replace", ![c].data = file.edits] PROVE Moved
    <3>1. call' = [call EXCEPT ![c] = New("replace", k.outcome, k.verdict, file.edits, k.ran, k.touched, k.ok)]
      BY <1>1, <2>1 DEF CallType, New
    <3>2. k.at # "done"
      BY <1>19 DEF ReadFile
    <3>3. QED
      BY <1>1, <1>3, <1>8, <1>9, <3>1, <3>2
  <2>2. ASSUME Finish(c, FALSE) PROVE Moved
    <3>1. call' = [call EXCEPT ![c] = New("done", k.outcome, k.verdict, k.data, k.ran, k.touched, FALSE)]
      BY <1>1, <2>2 DEF Finish, CallType, New
    <3>2. k.at # "done"
      BY <1>19 DEF ReadFile
    <3>3. QED
      BY <1>1, <1>3, <1>8, <1>9, <3>1, <3>2
  <2>3. QED
    BY <1>19, <2>1, <2>2 DEF ReadFile
<1>20. ASSUME WriteBack(c) PROVE Moved
  <2>1. call' = [call EXCEPT ![c] = New("done", k.outcome, k.verdict, k.data, k.ran, TRUE, TRUE)]
    BY <1>1, <1>20 DEF WriteBack, CallType, New
  <2>2. k.at # "done"
    BY <1>20 DEF WriteBack
  <2>3. QED
    BY <1>3, <1>8, <1>9, <2>1, <2>2
<1>21. ASSUME NEW mode \in Modes, PolicyTool(c, mode) PROVE Moved
  <2>1. call' = [call EXCEPT ![c] = New("done", k.outcome, k.verdict, k.data, TRUE, k.touched, TRUE)]
    BY <1>1, <1>21 DEF PolicyTool, CallType, New
  <2>2. k.at # "done"
    BY <1>21 DEF PolicyTool
  <2>3. QED
    BY <1>3, <1>8, <1>9, <2>1, <2>2
<1>22. ASSUME ExitPlanMode(c) PROVE Moved
  <2>1. ASSUME call' = [call EXCEPT ![c].at = "done", ![c].ran = TRUE, ![c].ok = TRUE] PROVE Moved
    <3>1. call' = [call EXCEPT ![c] = New("done", k.outcome, k.verdict, k.data, TRUE, k.touched, TRUE)]
      BY <1>1, <2>1 DEF CallType, New
    <3>2. k.at # "done"
      BY <1>22 DEF ExitPlanMode
    <3>3. QED
      BY <1>3, <1>8, <1>9, <3>1, <3>2
  <2>2. ASSUME Finish(c, FALSE) PROVE Moved
    <3>1. call' = [call EXCEPT ![c] = New("done", k.outcome, k.verdict, k.data, k.ran, k.touched, FALSE)]
      BY <1>1, <2>2 DEF Finish, CallType, New
    <3>2. k.at # "done"
      BY <1>22 DEF ExitPlanMode
    <3>3. QED
      BY <1>3, <1>8, <1>9, <3>1, <3>2
  <2>3. QED
    BY <1>22, <2>1, <2>2 DEF ExitPlanMode
<1>23. QED
  BY <1>10, <1>11, <1>12, <1>13, <1>14, <1>15, <1>16, <1>17, <1>18, <1>19, <1>20, <1>21, <1>22 DEF CallStep, Moved

(* A change of the policy only adds to the record of the calls in flight.   *)
LEMMA PolicyRecorded ==
    ASSUME TypeInv, NEW s \in Sessions, NEW p \in PolicyType, SetPolicy(s, p)
    PROVE  /\ pol' \in [Sessions -> PolicyType] /\ pol'[s] = p
           /\ \A t \in Sessions \ {s} : pol'[t] = pol[t]
           /\ call' \in Seq(CallType) /\ Calls' = Calls
           /\ \A c \in Calls :
                 call'[c] = IF call[c].s = s /\ call[c].at # "done"
                            THEN [call[c] EXCEPT !.regimes = @ \cup {<<p.sandbox, p.approval>>}]
                            ELSE call[c]
<1> DEFINE Noted(k) == [k EXCEPT !.regimes = @ \cup {<<p.sandbox, p.approval>>}]
           New(c) == IF call[c].s = s /\ call[c].at # "done" THEN Noted(call[c]) ELSE call[c]
<1>1. pol' \in [Sessions -> PolicyType] /\ pol'[s] = p /\ \A t \in Sessions \ {s} : pol'[t] = pol[t]
  BY DEF TypeInv, SetPolicy
<1>2. <<p.sandbox, p.approval>> \in Sandboxes \X Approvals
  BY DEF PolicyType
<1>3. \A k \in CallType : Noted(k) \in CallType
  BY <1>2 DEF CallType
<1>4. \A c \in Calls : New(c) \in CallType
  BY <1>3, CallTyped
<1>5. call' = [c \in Calls |-> New(c)]
  BY DEF SetPolicy, Witness
<1> HIDE DEF New
<1>6. Calls = 1 .. Len(call) /\ Len(call) \in Nat
  BY CallTyped
<1>7. call' \in [1 .. Len(call) -> CallType]
  BY <1>4, <1>5, <1>6
<1>8. call' \in Seq(CallType)
  BY <1>6, <1>7, SeqDef
<1>9. Calls' = Calls
  BY <1>5 DEF Calls
<1>10. QED
  BY <1>1, <1>5, <1>8, <1>9 DEF New

(* A command sets one knob of the policy.                                   *)
PolicyStep(i) == SetSandboxMode(i) \/ SetApprovalPolicy(i)

LEMMA PolicySteps ==
    ASSUME TypeInv, NEW i \in DOMAIN cmd, PolicyStep(i)
    PROVE  \E s \in Sessions, p \in PolicyType : SetPolicy(s, p) /\ UNCHANGED <<allowed, hosted, file>>
<1>1. cmd[i] \in CommandType
  BY CallTyped
<1>2. cmd[i].s \in Sessions /\ cmd[i].mode \in Modes
  BY <1>1 DEF CommandType, TypeInv, PolicyStep, SetSandboxMode, SetApprovalPolicy
<1>3. pol[cmd[i].s] \in PolicyType
  BY <1>2 DEF TypeInv
<1>4. Knobs[cmd[i].mode][1] \in Sandboxes /\ Knobs[cmd[i].mode][2] \in Approvals
  BY <1>2 DEF Sandboxes, Approvals
<1>5. /\ [pol[cmd[i].s] EXCEPT !.sandbox = Knobs[cmd[i].mode][1]] \in PolicyType
      /\ [pol[cmd[i].s] EXCEPT !.approval = Knobs[cmd[i].mode][2]] \in PolicyType
  BY <1>3, <1>4 DEF PolicyType
<1>6. QED
  BY <1>2, <1>5 DEF PolicyStep, SetSandboxMode, SetApprovalPolicy, host

(* Steps of a command that no call notices.                                 *)
QuietStep ==
    \/ \E s \in Sessions : \/ \E mode \in Modes : Command(s, mode)
                           \/ SetReviewModel(s)
                           \/ \E active \in BOOLEAN : PlanCommand(s, active)
    \/ \E i \in DOMAIN cmd : SetPreset(i)

LEMMA QuietSteps ==
    ASSUME TypeInv, QuietStep
    PROVE  /\ UNCHANGED <<call, allowed, hosted, file>>
           /\ pol' \in [Sessions -> PolicyType]
           /\ \A s \in Sessions : pol'[s].sandbox = pol[s].sandbox /\ pol'[s].approval = pol[s].approval
<1> DEFINE Goal == /\ UNCHANGED <<call, allowed, hosted, file>>
                   /\ pol' \in [Sessions -> PolicyType]
                   /\ \A s \in Sessions : pol'[s].sandbox = pol[s].sandbox /\ pol'[s].approval = pol[s].approval
<1>1. ASSUME NEW s \in Sessions, NEW p \in PolicyType, pol' = [pol EXCEPT ![s] = p],
             p.sandbox = pol[s].sandbox, p.approval = pol[s].approval, UNCHANGED <<call, allowed, hosted, file>>
      PROVE  Goal
  BY <1>1 DEF TypeInv
<1> HIDE DEF Goal
<1>2. ASSUME NEW s \in Sessions, NEW mode \in Modes, Command(s, mode) PROVE Goal
  BY <1>2 DEF Command, TypeInv, host, store, Goal
<1>3. ASSUME NEW s \in Sessions, SetReviewModel(s) PROVE Goal
  <2>1. pol' = [pol EXCEPT ![s] = [pol[s] EXCEPT !.model = "reviewer"]]
    BY <1>3 DEF SetReviewModel
  <2>2. pol[s] \in PolicyType
    BY DEF TypeInv
  <2> DEFINE p == [pol[s] EXCEPT !.model = "reviewer"]
  <2>3. p \in PolicyType /\ p.sandbox = pol[s].sandbox /\ p.approval = pol[s].approval
    BY <2>2 DEF PolicyType, Models
  <2>4. UNCHANGED <<call, allowed, hosted, file>>
    BY <1>3 DEF SetReviewModel, host
  <2>5. QED
    BY <1>1, <2>1, <2>3, <2>4
<1>4. ASSUME NEW s \in Sessions, NEW active \in BOOLEAN, PlanCommand(s, active) PROVE Goal
  BY <1>4 DEF PlanCommand, TypeInv, host, Goal
<1>5. ASSUME NEW i \in DOMAIN cmd, SetPreset(i) PROVE Goal
  <2>1. cmd[i].s \in Sessions /\ cmd[i].mode \in Modes
    BY <1>5, CallTyped DEF CommandType, TypeInv, SetPreset
  <2>2. pol' = [pol EXCEPT ![cmd[i].s] = [pol[cmd[i].s] EXCEPT !.preset = cmd[i].mode]]
    BY <1>5 DEF SetPreset
  <2>3. pol[cmd[i].s] \in PolicyType
    BY <2>1 DEF TypeInv
  <2> DEFINE p == [pol[cmd[i].s] EXCEPT !.preset = cmd[i].mode]
  <2>4. p \in PolicyType /\ p.sandbox = pol[cmd[i].s].sandbox /\ p.approval = pol[cmd[i].s].approval
    BY <2>1, <2>3 DEF PolicyType
  <2>5. UNCHANGED <<call, allowed, hosted, file>>
    BY <1>5 DEF SetPreset, host
  <2>6. QED
    BY <1>1, <2>1, <2>2, <2>4, <2>5
<1>6. QED
  BY <1>2, <1>3, <1>4, <1>5 DEF QuietStep, Goal

LEMMA StepCases ==
    ASSUME Next
    PROVE  \/ QuietStep \/ \E i \in DOMAIN cmd : PolicyStep(i)
           \/ \E s \in Sessions, t \in Tools, inside, pinned \in BOOLEAN : StartCall(s, t, inside, pinned)
           \/ \E c \in Calls : CallStep(c)
  BY DEF Next, QuietStep, PolicyStep, CallStep

(* A new call is the last one, waits for its hooks and has seen the policy. *)
Newest == Len(call) + 1

Begins(s) ==
    /\ call' \in Seq(CallType) /\ Calls' = Calls \cup {Newest}
    /\ \A d \in Calls : call'[d] = call[d] /\ d # Newest
    /\ call'[Newest].s = s /\ call'[Newest].at = "hook" /\ call'[Newest].outcome = ""
    /\ call'[Newest].ran = FALSE /\ call'[Newest].touched = FALSE
    /\ call'[Newest].regimes = {<<pol[s].sandbox, pol[s].approval>>}

LEMMA CallStarts ==
    ASSUME TypeInv, NEW s \in Sessions, NEW t \in Tools, NEW inside \in BOOLEAN, NEW pinned \in BOOLEAN,
           StartCall(s, t, inside, pinned)
    PROVE  Begins(s)
<1> DEFINE new == [s |-> s, tool |-> t, at |-> "hook", inside |-> inside, pinned |-> pinned,
                   base |-> IF pinned THEN file.ver ELSE 0,
                   data |-> {}, approval |-> "", model |-> "", regimes |-> {<<pol[s].sandbox, pol[s].approval>>},
                   outcome |-> "", verdict |-> "", ran |-> FALSE, touched |-> FALSE, ok |-> FALSE]
<1>1. call' = Append(call, new)
  BY DEF StartCall
<1>2. /\ pol[s].sandbox \in Sandboxes /\ pol[s].approval \in Approvals /\ file.ver \in Nat
  BY DEF TypeInv, PolicyType
<1>3. new \in CallType
  BY <1>2 DEF CallType, Stages, Outcomes, Verdicts, Models
<1> HIDE DEF new
<1>4. call \in Seq(CallType) /\ Calls = 1 .. Len(call) /\ Len(call) \in Nat
  BY CallTyped DEF TypeInv
<1>5. /\ call' \in Seq(CallType) /\ Len(call') = Len(call) + 1
      /\ \A d \in 1 .. Len(call) : call'[d] = call[d]
      /\ call'[Newest] = new
  BY <1>1, <1>3, <1>4, AppendProperties DEF Newest
<1>6. Calls' = 1 .. Len(call) + 1
  BY <1>5, LenProperties DEF Calls
<1>7. Calls' = Calls \cup {Newest} /\ \A d \in Calls : d # Newest
  BY <1>4, <1>6 DEF Newest
<1>8. /\ new.s = s /\ new.at = "hook" /\ new.outcome = "" /\ new.ran = FALSE /\ new.touched = FALSE
      /\ new.regimes = {<<pol[s].sandbox, pol[s].approval>>}
  BY DEF new
<1>9. QED
  BY <1>4, <1>5, <1>7, <1>8 DEF Begins

(* Commands and policies keep their types.                                  *)
LEMMA CommandsTyped ==
    ASSUME TypeInv, Next
    PROVE  /\ cmd' \in Seq(CommandType)
           /\ \A i \in DOMAIN cmd' : cmd'[i].at # "done" => cmd'[i].mode \in Modes
<1> DEFINE Goal == /\ cmd' \in Seq(CommandType)
                   /\ \A i \in DOMAIN cmd' : cmd'[i].at # "done" => cmd'[i].mode \in Modes
<1>1. cmd \in Seq(CommandType) /\ DOMAIN cmd = 1 .. Len(cmd) /\ Len(cmd) \in Nat
  BY LenProperties DEF TypeInv
<1>2. ASSUME NEW new \in CommandType, new.at # "done" => new.mode \in Modes, cmd' = Append(cmd, new) PROVE Goal
  <2>1. /\ cmd' \in Seq(CommandType) /\ Len(cmd') = Len(cmd) + 1
        /\ \A i \in 1 .. Len(cmd) : cmd'[i] = cmd[i]
        /\ cmd'[Len(cmd) + 1] = new
    BY <1>1, <1>2, AppendProperties
  <2>2. DOMAIN cmd' = 1 .. Len(cmd) + 1
    BY <2>1, LenProperties
  <2>3. QED
    BY <1>1, <1>2, <2>1, <2>2 DEF TypeInv
<1>3. ASSUME NEW i \in DOMAIN cmd, NEW at \in {"approval", "preset", "done"}, cmd[i].at # "done",
             cmd' = [cmd EXCEPT ![i].at = at]
      PROVE  Goal
  <2> DEFINE new == [cmd[i] EXCEPT !.at = at]
  <2>1. new \in CommandType /\ new.mode = cmd[i].mode
    BY <1>1, CallTyped DEF CommandType
  <2>2. cmd' = [cmd EXCEPT ![i] = new]
    BY <1>3
  <2> HIDE DEF new
  <2>3. cmd' \in Seq(CommandType) /\ DOMAIN cmd' = DOMAIN cmd /\ \A j \in DOMAIN cmd : j # i => cmd'[j] = cmd[j]
    BY <1>1, <2>1, <2>2, ExceptSeq
  <2>4. cmd'[i] = new
    BY <1>1, <2>2
  <2>5. QED
    BY <1>3, <2>1, <2>3, <2>4 DEF TypeInv
<1>4. CASE UNCHANGED cmd
  BY <1>4 DEF TypeInv
<1> HIDE DEF Goal
<1>5. ASSUME NEW s \in Sessions, NEW mode \in Modes, Command(s, mode) PROVE Goal
  <2>1. [s |-> s, mode |-> mode, at |-> "sandbox"] \in CommandType
    BY DEF CommandType
  <2>2. QED
    BY <1>2, <1>5, <2>1 DEF Command
<1>6. ASSUME NEW s \in Sessions, SetReviewModel(s) PROVE Goal
  <2>1. [s |-> s, mode |-> "default", at |-> "done"] \in CommandType
    BY DEF CommandType
  <2>2. QED
    BY <1>2, <1>6, <2>1 DEF SetReviewModel
<1>7. ASSUME NEW s \in Sessions, NEW active \in BOOLEAN, PlanCommand(s, active) PROVE Goal
  <2>1. [s |-> s, mode |-> "plan", at |-> "done"] \in CommandType
    BY DEF CommandType
  <2>2. QED
    BY <1>2, <1>7, <2>1 DEF PlanCommand
<1>8. ASSUME NEW i \in DOMAIN cmd, SetSandboxMode(i) \/ SetApprovalPolicy(i) \/ SetPreset(i) PROVE Goal
  BY <1>3, <1>8 DEF SetSandboxMode, SetApprovalPolicy, SetPreset
<1>9. ASSUME NEW s \in Sessions, NEW t \in Tools, NEW inside \in BOOLEAN, NEW pinned \in BOOLEAN,
             StartCall(s, t, inside, pinned)
      PROVE  UNCHANGED cmd
  BY <1>9 DEF StartCall
<1>10. ASSUME NEW c \in Calls, CallStep(c) PROVE UNCHANGED cmd
  BY <1>10 DEF CallStep, PreToolUse, ReadPolicy, Gate, Review, Answer, RunCommand, CheckedFileTool, TouchFile,
               CheckVersion, ReadFile, WriteBack, PolicyTool, ExitPlanMode
<1>11. QED
  BY <1>4, <1>5, <1>6, <1>7, <1>8, <1>9, <1>10 DEF Next, CallStep, Goal

(* What a step of a call does besides.  A policy tool sets the policy of    *)
(* its own session and is over; only an answer grows the whitelist.         *)
LEMMA CallEffects ==
    ASSUME TypeInv, NEW c \in Calls, CallStep(c)
    PROVE  /\ hosted' = hosted
           /\ pol' \in [Sessions -> PolicyType]
           /\ pol' = pol \/ (call'[c].at = "done" /\ \A t \in Sessions \ {call[c].s} : pol'[t] = pol[t])
           /\ allowed' \in [Sessions -> SUBSET Tools]
           /\ \A t \in Sessions : allowed[t] \subseteq allowed'[t]
           /\ file' \in [ver : Nat, edits : SUBSET Nat]
<1>1. /\ call[c] \in CallType /\ c \in Nat /\ c \in DOMAIN call /\ call[c].s \in Sessions
      /\ call[c].tool \in Tools
      /\ pol[call[c].s] \in PolicyType /\ file.edits \in SUBSET Nat /\ file.ver \in Nat
      /\ call[c].data \in SUBSET Nat
  <2>1. /\ call[c] \in CallType /\ c \in Nat /\ c \in DOMAIN call /\ call[c].s \in Sessions
        /\ call[c].tool \in Tools
    BY CallTyped DEF Calls
  <2>2. pol[call[c].s] \in PolicyType /\ file.edits \in SUBSET Nat /\ file.ver \in Nat
    BY <2>1 DEF TypeInv
  <2>3. call[c].data \in SUBSET Nat
    BY <2>1 DEF CallType
  <2>4. QED
    BY <2>1, <2>2, <2>3
<1>2. CASE \/ PreToolUse(c) \/ ReadPolicy(c) \/ Gate(c) \/ Review(c) \/ RunCommand(c) \/ CheckedFileTool(c)
           \/ CheckVersion(c) \/ ReadFile(c) \/ ExitPlanMode(c)
  <2>1. UNCHANGED <<pol, allowed, hosted, file>>
    BY <1>2 DEF PreToolUse, ReadPolicy, Gate, Review, RunCommand, CheckedFileTool, CheckVersion, ReadFile,
                ExitPlanMode, store, host
  <2>2. QED
    BY <2>1 DEF TypeInv
<1>3. ASSUME NEW d \in {"allow_once", "allow_all", "deny", "cancel"}, Answer(c, d)
      PROVE  /\ UNCHANGED <<pol, hosted, file>> /\ allowed' \in [Sessions -> SUBSET Tools]
             /\ \A t \in Sessions : allowed[t] \subseteq allowed'[t]
  BY <1>1, <1>3 DEF Answer, host, TypeInv
<1>4. CASE TouchFile(c) \/ WriteBack(c)
  <2>1. UNCHANGED <<pol, allowed, hosted>>
    BY <1>4 DEF TouchFile, WriteBack, store, host
  <2>2. file' = file \/ \E edits \in SUBSET Nat : file' = [ver |-> file.ver + 1, edits |-> edits]
    BY <1>1, <1>4 DEF TouchFile, WriteBack
  <2>3. file.ver + 1 \in Nat
    BY <1>1
  <2>4. \A v \in Nat, e \in SUBSET Nat : [ver |-> v, edits |-> e] \in [ver : Nat, edits : SUBSET Nat]
    OBVIOUS
  <2>5. file' \in [ver : Nat, edits : SUBSET Nat]
    BY <2>2, <2>3, <2>4 DEF TypeInv
  <2>6. QED
    BY <2>1, <2>5 DEF TypeInv
<1>5. ASSUME NEW mode \in Modes, PolicyTool(c, mode)
      PROVE  /\ UNCHANGED <<hosted, allowed, file>> /\ pol' \in [Sessions -> PolicyType]
             /\ call'[c].at = "done" /\ \A t \in Sessions \ {call[c].s} : pol'[t] = pol[t]
  <2> DEFINE p == CASE call[c].tool = "set_sandbox_mode"    -> [pol[call[c].s] EXCEPT !.sandbox = Knobs[mode][1]]
                    [] call[c].tool = "set_approval_policy" -> [pol[call[c].s] EXCEPT !.approval = Knobs[mode][2]]
                    [] OTHER                                -> [pol[call[c].s] EXCEPT !.preset = mode]
  <2>1. Knobs[mode][1] \in Sandboxes /\ Knobs[mode][2] \in Approvals
    BY DEF Sandboxes, Approvals
  <2>2. p \in PolicyType
    BY <1>1, <2>1 DEF PolicyType
  <2>3. pol' = [pol EXCEPT ![call[c].s] = p]
    BY <1>5 DEF PolicyTool
  <2> HIDE DEF p
  <2>4. pol' \in [Sessions -> PolicyType] /\ \A t \in Sessions \ {call[c].s} : pol'[t] = pol[t]
    BY <2>2, <2>3 DEF TypeInv
  <2>5. call'[c].at = "done"
    BY <1>1, <1>5 DEF PolicyTool, CallType
  <2>6. UNCHANGED <<hosted, allowed, file>>
    BY <1>5 DEF PolicyTool, host
  <2>7. QED
    BY <2>4, <2>5, <2>6
<1>6. QED
  BY <1>2, <1>3, <1>4, <1>5 DEF CallStep, TypeInv

LEMMA TypeStep == ASSUME TypeInv, Next PROVE TypeInv'
<1>1. CASE QuietStep
  BY <1>1, QuietSteps, CommandsTyped DEF TypeInv
<1>2. ASSUME NEW i \in DOMAIN cmd, PolicyStep(i) PROVE TypeInv'
  <2>1. PICK s \in Sessions, p \in PolicyType : SetPolicy(s, p) /\ UNCHANGED <<allowed, hosted, file>>
    BY <1>2, PolicySteps
  <2>2. call' \in Seq(CallType) /\ pol' \in [Sessions -> PolicyType]
    BY <2>1, PolicyRecorded
  <2>3. QED
    BY <2>1, <2>2, CommandsTyped DEF TypeInv
<1>3. ASSUME NEW s \in Sessions, NEW t \in Tools, NEW inside \in BOOLEAN, NEW pinned \in BOOLEAN,
             StartCall(s, t, inside, pinned)
      PROVE  TypeInv'
  <2>1. call' \in Seq(CallType)
    BY <1>3, CallStarts DEF Begins
  <2>2. UNCHANGED <<pol, allowed, file>>
    BY <1>3 DEF StartCall, store
  <2>3. QED
    BY <2>1, <2>2, CommandsTyped DEF TypeInv
<1>4. ASSUME NEW c \in Calls, CallStep(c) PROVE TypeInv'
  <2>1. call' \in Seq(CallType)
    BY <1>4, CallMoves, ReplaceCall
  <2>2. QED
    BY <1>4, <2>1, CallEffects, CommandsTyped DEF TypeInv
<1>5. QED
  BY <1>1, <1>2, <1>3, <1>4, StepCases

-----------------------------------------------------------------------------
(* The invariant is inductive. *)

(* What a step may do to another call: add to the record of policies.       *)
Kept(d) ==
    /\ d \in Calls' /\ hosted' = hosted
    /\ call'[d].s = call[d].s /\ call'[d].tool = call[d].tool /\ call'[d].inside = call[d].inside
    /\ call'[d].at = call[d].at /\ call'[d].approval = call[d].approval
    /\ call'[d].outcome = call[d].outcome /\ call'[d].verdict = call[d].verdict
    /\ call'[d].ran = call[d].ran /\ call'[d].touched = call[d].touched
    /\ call[d].regimes \subseteq call'[d].regimes
    /\ allowed[call[d].s] \subseteq allowed'[call[d].s]

(* A policy that admits a call admits it still: whitelists only grow.       *)
LEMMA AdmitsStays ==
    ASSUME NEW d \in Calls, hosted' = hosted,
           call'[d].s = call[d].s, call'[d].tool = call[d].tool, call'[d].verdict = call[d].verdict,
           call'[d].outcome = call[d].outcome \/ call[d].outcome = "",
           allowed[call[d].s] \subseteq allowed'[call[d].s],
           NEW a, Admits(d, a)
    PROVE  Admits(d, a)'
  BY DEF Admits, Allowed

LEMMA KeptStays ==
    ASSUME NEW d \in Calls, CallInv(d), Kept(d),
           call[d].at # "done" => <<pol'[call[d].s].sandbox, pol'[call[d].s].approval>> \in call'[d].regimes
    PROVE  CallInv(d)'
<1>1. RegimeNow(d)' /\ Undecided(d)'
  BY DEF CallInv, Kept, RegimeNow, Undecided
<1>2. PolicySeen(d)'
  BY DEF CallInv, Kept, PolicySeen
<1>3. Sandboxed(d)'
  BY DEF CallInv, Kept, Sandboxed
<1>4. \A a : Admits(d, a) => Admits(d, a)'
  BY AdmitsStays DEF Kept
<1>5. Admitted(d)'
  BY <1>4 DEF CallInv, Kept, Admitted
<1>6. QED
  BY <1>1, <1>2, <1>3, <1>5 DEF CallInv

(* The call that moves.                                                     *)
LEMMA MoverStays ==
    ASSUME TypeInv, NEW c \in Calls, CallInv(c), CallStep(c)
    PROVE  CallInv(c)'
<1> DEFINE k == call[c]
<1>1. /\ k \in CallType /\ c \in DOMAIN call /\ Calls' = Calls
      /\ call'[c].s = k.s /\ call'[c].tool = k.tool /\ call'[c].inside = k.inside
      /\ call'[c].regimes = k.regimes /\ k.at # "done" /\ call'[c] \in CallType
  <2>1. PICK new \in CallType : call' = [call EXCEPT ![c] = new] /\ SameCall(c, new) /\ k.at # "done"
    BY CallMoves
  <2>2. call'[c] = new /\ Calls' = Calls
    BY <2>1, ReplaceCall
  <2>3. QED
    BY <2>1, <2>2, CallTyped DEF SameCall, Calls
<1>2. /\ hosted' = hosted /\ allowed[k.s] \subseteq allowed'[k.s]
      /\ call'[c].at # "done" => pol' = pol
  BY CallEffects, CallTyped
<1>3. RegimeNow(c)'
  BY <1>1, <1>2 DEF CallInv, RegimeNow
(* Most steps only move on, or end the call.                                *)
<1> DEFINE Same == /\ call'[c].approval = k.approval /\ call'[c].outcome = k.outcome
                   /\ call'[c].verdict = k.verdict /\ call'[c].ran = k.ran /\ call'[c].touched = k.touched
<1>4. ASSUME NEW at, call' = [call EXCEPT ![c].at = at] PROVE call'[c].at = at /\ Same
  BY <1>1, <1>4 DEF CallType
<1>5. ASSUME Finish(c, FALSE) PROVE call'[c].at = "done" /\ Same
  BY <1>1, <1>5 DEF Finish, CallType
(* A step keeps what admitted the call.                                     *)
<1>6. ASSUME call'[c].verdict = k.verdict, call'[c].outcome = k.outcome,
             k.at \in {"run", "touch", "read", "replace"}
      PROVE  Admitted(c)'
  <2>1. \A a : Admits(c, a) => Admits(c, a)'
    BY <1>1, <1>2, <1>6, AdmitsStays
  <2>2. QED
    BY <1>1, <1>6, <2>1 DEF CallInv, Admitted
<1>7. CASE PreToolUse(c)
  <2>1. /\ call'[c].at \in {"done", "policy", "run"} /\ k.at = "hook"
        /\ call'[c].at = "run" => k.tool \notin RequiresPerm
        /\ call'[c].outcome = k.outcome /\ call'[c].ran = k.ran /\ call'[c].touched = k.touched
    BY <1>7, <1>4, <1>5 DEF PreToolUse
  <2>2. Undecided(c)' /\ PolicySeen(c)' /\ Admitted(c)' /\ Sandboxed(c)'
    BY <1>1, <2>1 DEF CallInv, Undecided, PolicySeen, Admitted, Sandboxed
  <2>3. QED
    BY <1>3, <2>2 DEF CallInv
<1>8. CASE ReadPolicy(c)
  <2>1. /\ call'[c].at = "gate" /\ k.at = "policy" /\ call'[c].approval = pol[k.s].approval
        /\ call'[c].outcome = k.outcome /\ call'[c].ran = k.ran /\ call'[c].touched = k.touched
    BY <1>1, <1>8 DEF ReadPolicy, CallType
  <2>2. <<pol[k.s].sandbox, pol[k.s].approval>> \in k.regimes
    BY <1>1 DEF CallInv, RegimeNow
  <2>3. Undecided(c)' /\ Admitted(c)' /\ Sandboxed(c)'
    BY <1>1, <2>1 DEF CallInv, Undecided, Admitted, Sandboxed
  <2>4. PolicySeen(c)'
    BY <1>1, <2>1, <2>2 DEF PolicySeen
  <2>5. QED
    BY <1>3, <2>3, <2>4 DEF CallInv
<1>9. CASE Gate(c)
  <2>1. /\ k.at = "gate" /\ call'[c].at \in {"run", "review", "ask", "done"}
        /\ call'[c].approval = k.approval /\ call'[c].verdict = k.verdict
        /\ call'[c].at # "done" => call'[c].outcome = k.outcome
        /\ call'[c].ran = k.ran /\ call'[c].touched = k.touched
    <3>1. \/ \E s \in {"run", "review", "ask"} : call' = [call EXCEPT ![c].at = s]
          \/ Reject(c)
      BY <1>9 DEF Gate, Ask, Step
    <3>2. ASSUME Reject(c)
          PROVE  /\ call'[c].at = "done" /\ call'[c].approval = k.approval /\ call'[c].verdict = k.verdict
                 /\ call'[c].ran = k.ran /\ call'[c].touched = k.touched
      BY <1>1, <3>2 DEF Reject, CallType
    <3>3. k.at = "gate"
      BY <1>9 DEF Gate
    <3>4. QED
      BY <1>4, <3>1, <3>2, <3>3
  <2>2. /\ call'[c].at = "review" => k.approval = "review"
        /\ call'[c].at = "ask" => k.approval \notin {"never", "allow-all"}
        /\ call'[c].at = "run" => Admits(c, k.approval)
    <3>1. CASE k.approval = "never"
      BY <1>1, <1>9, <3>1 DEF Gate, Reject, CallType
    <3>2. CASE k.approval = "review"
      <4>1. CASE k.tool \in allowed[k.s] \/ k.tool \notin Destructive
        BY <1>1, <1>9, <3>2, <4>1 DEF Gate, Step, Admits, CallType
      <4>2. CASE k.tool \notin allowed[k.s] /\ k.tool \in Destructive
        BY <1>1, <1>9, <3>2, <4>2 DEF Gate, Step, Admits, CallType
      <4>3. QED
        BY <4>1, <4>2
    <3>3. CASE k.approval = "allow-all" \/ (k.approval = "accept-edits" /\ k.tool \in Edits)
      BY <1>1, <1>9, <3>3 DEF Gate, Step, Admits, CallType
    <3>4. CASE k.approval \notin {"never", "review", "allow-all"} /\ ~(k.approval = "accept-edits" /\ k.tool \in Edits)
      <4>1. IF k.tool \in allowed[k.s] THEN Step(c, "gate", "run") ELSE Ask(c)
        BY <1>9, <3>4 DEF Gate
      <4>2. k.tool \in allowed[k.s] \/ ~hosted => Admits(c, k.approval)
        BY <3>4 DEF Admits
      <4>3. call'[c].at = "run" => k.tool \in allowed[k.s] \/ ~hosted
        BY <1>1, <4>1 DEF Step, Ask, CallType
      <4>4. call'[c].at # "review"
        BY <1>1, <4>1 DEF Step, Ask, CallType
      <4>5. QED
        BY <3>4, <4>2, <4>3, <4>4
    <3>5. QED
      BY <3>1, <3>2, <3>3, <3>4
  <2>3. Undecided(c)' /\ PolicySeen(c)' /\ Sandboxed(c)'
    BY <1>1, <2>1, <2>2 DEF CallInv, Undecided, PolicySeen, Sandboxed
  <2>4. Admitted(c)'
    <3>1. SUFFICES ASSUME call'[c].at = "run" PROVE Admitted(c)'
      BY <1>1, <2>1 DEF CallInv, Undecided, Admitted
    <3>2. PICK r \in k.regimes : r[2] = k.approval
      BY <2>1 DEF CallInv, PolicySeen
    <3>3. Admits(c, r[2])
      BY <2>2, <3>1, <3>2
    <3>4. call'[c].outcome = ""
      BY <2>1, <3>1 DEF CallInv, Undecided
    <3>5. r \in call'[c].regimes /\ Admits(c, r[2])'
      BY <1>1, <1>2, <2>1, <3>1, <3>2, <3>3, AdmitsStays
    <3>6. QED
      BY <3>4, <3>5 DEF Admitted
  <2>5. QED
    BY <1>3, <2>3, <2>4 DEF CallInv
<1>10. CASE Review(c)
  <2>1. /\ k.at = "review" /\ call'[c].at \in {"run", "ask", "done"}
        /\ call'[c].approval = k.approval
        /\ call'[c].at = "run" => ~hosted \/ call'[c].verdict = "allow"
        /\ call'[c].at # "done" => call'[c].outcome = k.outcome
        /\ call'[c].ran = k.ran /\ call'[c].touched = k.touched
    <3>1. CASE call' = [call EXCEPT ![c].at = IF hosted THEN "ask" ELSE "run", ![c].verdict = "uncertain"]
      BY <1>1, <1>10, <3>1 DEF Review, CallType
    <3>2. CASE call' = [call EXCEPT ![c].at = "run", ![c].verdict = "allow"]
      BY <1>1, <1>10, <3>2 DEF Review, CallType
    <3>3. CASE call' = [call EXCEPT ![c].at = "done", ![c].verdict = "deny", ![c].outcome = "rejected"]
      BY <1>1, <1>10, <3>3 DEF Review, CallType
    <3>4. QED
      BY <1>10, <3>1, <3>2, <3>3 DEF Review
  <2>2. Undecided(c)' /\ PolicySeen(c)' /\ Sandboxed(c)'
    BY <1>1, <2>1 DEF CallInv, Undecided, PolicySeen, Sandboxed
  <2>3. Admitted(c)'
    <3>1. SUFFICES ASSUME call'[c].at = "run" PROVE Admitted(c)'
      BY <1>1, <2>1 DEF CallInv, Undecided, Admitted
    <3>2. Admits(c, "review")'
      BY <1>1, <1>2, <2>1, <3>1 DEF Admits
    <3>3. \E r \in k.regimes : r[2] = "review"
      BY <2>1 DEF CallInv, PolicySeen
    <3>4. call'[c].outcome = ""
      BY <2>1, <3>1 DEF CallInv, Undecided
    <3>5. QED
      BY <1>1, <3>2, <3>3, <3>4 DEF Admitted
  <2>4. QED
    BY <1>3, <2>2, <2>3 DEF CallInv
<1>11. ASSUME NEW d \in {"allow_once", "allow_all", "deny", "cancel"}, Answer(c, d) PROVE CallInv(c)'
  <2>1. /\ k.at = "ask" /\ call'[c].at \in {"run", "done"}
        /\ call'[c].approval = k.approval
        /\ call'[c].at = "run" => call'[c].outcome \in {"allowed-once", "allowed-always"}
        /\ call'[c].ran = k.ran /\ call'[c].touched = k.touched
    BY <1>1, <1>11 DEF Answer, CallType
  <2>2. Undecided(c)' /\ PolicySeen(c)' /\ Sandboxed(c)'
    BY <1>1, <2>1 DEF CallInv, Undecided, PolicySeen, Sandboxed
  <2>3. Admitted(c)'
    <3>1. SUFFICES ASSUME call'[c].at = "run" PROVE Admitted(c)'
      BY <1>1, <2>1 DEF CallInv, Undecided, Admitted
    <3>2. k.approval # "never"
      BY <2>1 DEF CallInv, PolicySeen
    <3>3. PICK r \in k.regimes : r[2] = k.approval
      BY <2>1 DEF CallInv, PolicySeen
    <3>4. r \in call'[c].regimes /\ Admits(c, r[2])'
      BY <1>1, <2>1, <3>1, <3>2, <3>3 DEF Admits, Allowed
    <3>5. QED
      BY <2>1, <3>1, <3>4 DEF Admitted
  <2>4. QED
    BY <1>3, <2>2, <2>3 DEF CallInv
<1>12. CASE RunCommand(c) \/ ExitPlanMode(c) \/ \E mode \in Modes : PolicyTool(c, mode)
  <2>1. /\ k.at = "run" /\ call'[c].at = "done" /\ call'[c].touched = k.touched
        /\ call'[c].outcome = k.outcome /\ call'[c].verdict = k.verdict
    <3>1. k.at = "run"
      BY <1>12 DEF RunCommand, ExitPlanMode, PolicyTool
    <3>2. \/ call' = [call EXCEPT ![c].at = "done", ![c].ran = TRUE, ![c].ok = TRUE]
          \/ Finish(c, FALSE)
      BY <1>12 DEF RunCommand, ExitPlanMode, PolicyTool
    <3>3. CASE call' = [call EXCEPT ![c].at = "done", ![c].ran = TRUE, ![c].ok = TRUE]
      BY <1>1, <3>1, <3>3 DEF CallType
    <3>4. QED
      BY <1>5, <3>1, <3>2, <3>3
  <2>2. Undecided(c)' /\ PolicySeen(c)' /\ Sandboxed(c)'
    BY <1>1, <2>1 DEF CallInv, Undecided, PolicySeen, Sandboxed
  <2>3. QED
    BY <1>3, <1>6, <2>1, <2>2 DEF CallInv
<1>13. CASE CheckedFileTool(c)
  <2>1. /\ k.at = "run" /\ call'[c].at \in {"touch", "done"} /\ call'[c].touched = k.touched
        /\ call'[c].outcome = k.outcome /\ call'[c].verdict = k.verdict
        /\ call'[c].at = "touch" => CheckWrite(k.s, k.inside)
    BY <1>1, <1>13 DEF CheckedFileTool, CallType
  <2>2. Undecided(c)' /\ PolicySeen(c)'
    BY <1>1, <2>1 DEF CallInv, Undecided, PolicySeen
  <2>3. <<pol[k.s].sandbox, pol[k.s].approval>> \in k.regimes
    BY <1>1 DEF CallInv, RegimeNow
  <2>4. call'[c].at = "touch" => \/ pol[k.s].sandbox = "danger-full-access"
                                 \/ pol[k.s].sandbox # "read-only" /\ k.inside
    BY <2>1 DEF CheckWrite
  <2>5. k.touched = FALSE
    BY <1>1 DEF CallInv, Undecided, CallType
  <2>6. Sandboxed(c)'
    BY <1>1, <2>1, <2>3, <2>4, <2>5 DEF Sandboxed
  <2>7. QED
    BY <1>3, <1>6, <2>1, <2>2, <2>6 DEF CallInv
<1>14. CASE TouchFile(c)
  <2>1. /\ k.at = "touch" /\ call'[c].at = "done"
        /\ call'[c].outcome = k.outcome /\ call'[c].verdict = k.verdict
    <3>1. CASE call' = [call EXCEPT ![c].at = "done", ![c].touched = TRUE, ![c].ok = TRUE]
      BY <1>1, <1>14, <3>1 DEF TouchFile, CallType
    <3>2. QED
      BY <1>14, <1>5, <3>1 DEF TouchFile
  <2>2. Undecided(c)' /\ PolicySeen(c)' /\ Sandboxed(c)'
    BY <1>1, <2>1 DEF CallInv, Undecided, PolicySeen, Sandboxed
  <2>3. QED
    BY <1>3, <1>6, <2>1, <2>2 DEF CallInv
<1>15. CASE CheckVersion(c) \/ ReadFile(c)
  <2>1. /\ k.at \in {"run", "read"} /\ call'[c].at \in {"read", "replace", "done"} /\ call'[c].touched = k.touched
        /\ call'[c].outcome = k.outcome /\ call'[c].verdict = k.verdict
        /\ k.at = "run" => k.tool = "replace_file_content"
    <3>1. ASSUME NEW at \in {"read", "done"}, call' = [call EXCEPT ![c].ran = TRUE, ![c].at = at]
          PROVE  /\ call'[c].at = at /\ call'[c].touched = k.touched
                 /\ call'[c].outcome = k.outcome /\ call'[c].verdict = k.verdict
      BY <1>1, <3>1 DEF CallType
    <3>2. CASE CheckVersion(c)
      BY <3>1, <3>2 DEF CheckVersion
    <3>3. CASE call' = [call EXCEPT ![c].at = "replace", ![c].data = file.edits] /\ ReadFile(c)
      BY <1>1, <3>3 DEF ReadFile, CallType
    <3>4. QED
      BY <1>15, <1>5, <3>2, <3>3 DEF ReadFile
  <2>2. Undecided(c)' /\ PolicySeen(c)' /\ Sandboxed(c)'
    BY <1>1, <2>1 DEF CallInv, Undecided, PolicySeen, Sandboxed
  <2>3. QED
    BY <1>3, <1>6, <2>1, <2>2 DEF CallInv
<1>16. CASE WriteBack(c)
  <2>1. /\ k.at = "replace" /\ call'[c].at = "done"
        /\ call'[c].outcome = k.outcome /\ call'[c].verdict = k.verdict
    BY <1>1, <1>16 DEF WriteBack, CallType
  <2>2. Undecided(c)' /\ PolicySeen(c)' /\ Sandboxed(c)'
    BY <1>1, <2>1 DEF CallInv, Undecided, PolicySeen, Sandboxed
  <2>3. QED
    BY <1>3, <1>6, <2>1, <2>2 DEF CallInv
<1>17. QED
  BY <1>7, <1>8, <1>9, <1>10, <1>11, <1>12, <1>13, <1>14, <1>15, <1>16 DEF CallStep

(* A new call has neither run nor been decided.                             *)
LEMMA NewcomerStays ==
    ASSUME TypeInv, NEW s \in Sessions, NEW t \in Tools, NEW inside \in BOOLEAN, NEW pinned \in BOOLEAN,
           StartCall(s, t, inside, pinned),
           \A d \in Calls : CallInv(d), OneLiveCall
    PROVE  OneLiveCall' /\ \A d \in Calls' : CallInv(d)'
<1>1. Begins(s)
  BY CallStarts
<1>2. PICK c : /\ Calls' = Calls \cup {c} /\ \A d \in Calls : call'[d] = call[d] /\ d # c
               /\ call'[c].s = s /\ call'[c].at = "hook" /\ call'[c].outcome = ""
               /\ call'[c].ran = FALSE /\ call'[c].touched = FALSE
               /\ call'[c].regimes = {<<pol[s].sandbox, pol[s].approval>>}
  BY <1>1 DEF Begins
<1>3. UNCHANGED <<pol, allowed, hosted>> /\ \A d \in Calls : call[d].s = s => call[d].at = "done"
  BY DEF StartCall, store, host
<1>4. OneLiveCall'
  <2> SUFFICES ASSUME NEW d \in Calls', NEW e \in Calls', call'[d].s = call'[e].s,
                      call'[d].at # "done", call'[e].at # "done"
               PROVE  d = e
    BY DEF OneLiveCall
  <2>1. CASE d \in Calls /\ e \in Calls
    BY <1>2, <2>1 DEF OneLiveCall
  <2>2. QED
    BY <1>2, <1>3, <2>1
<1>5. CallInv(c)'
  <2>1. RegimeNow(c)'
    BY <1>2, <1>3 DEF RegimeNow
  <2>2. Undecided(c)' /\ PolicySeen(c)' /\ Sandboxed(c)'
    BY <1>2 DEF Undecided, PolicySeen, Sandboxed
  <2>3. Admitted(c)'
    BY <1>2 DEF Admitted
  <2>4. QED
    BY <2>1, <2>2, <2>3 DEF CallInv
<1>6. ASSUME NEW d \in Calls PROVE CallInv(d)'
  <2>1. Kept(d)
    BY <1>2, <1>3, <1>6 DEF Kept
  <2>2. call[d].at # "done" => <<pol'[call[d].s].sandbox, pol'[call[d].s].approval>> \in call'[d].regimes
    BY <1>2, <1>3 DEF CallInv, RegimeNow
  <2>3. QED
    BY <2>1, <2>2, KeptStays
<1>7. QED
  BY <1>2, <1>4, <1>5, <1>6

LEMMA PipelineStep == ASSUME PipelineInv, Next PROVE PipelineInv'
<1>1. TypeInv /\ OneLiveCall /\ \A d \in Calls : CallInv(d)
  BY DEF PipelineInv
<1>2. TypeInv'
  BY <1>1, TypeStep
<1>3. CASE QuietStep
  <2>1. /\ UNCHANGED <<call, allowed, hosted>> /\ Calls' = Calls
        /\ \A s \in Sessions : pol'[s].sandbox = pol[s].sandbox /\ pol'[s].approval = pol[s].approval
    BY <1>1, <1>3, QuietSteps DEF Calls
  <2>2. OneLiveCall'
    BY <1>1, <2>1 DEF OneLiveCall
  <2>3. ASSUME NEW d \in Calls PROVE CallInv(d)'
    <3>1. Kept(d)
      BY <2>1 DEF Kept
    <3>2. call[d].at # "done" => <<pol'[call[d].s].sandbox, pol'[call[d].s].approval>> \in call'[d].regimes
      BY <1>1, <2>1, CallTyped DEF CallInv, RegimeNow
    <3>3. QED
      BY <1>1, <3>1, <3>2, KeptStays
  <2>4. QED
    BY <1>2, <2>1, <2>2, <2>3 DEF PipelineInv
<1>4. ASSUME NEW i \in DOMAIN cmd, PolicyStep(i) PROVE PipelineInv'
  <2>1. PICK s \in Sessions, p \in PolicyType : SetPolicy(s, p) /\ UNCHANGED <<allowed, hosted, file>>
    BY <1>1, <1>4, PolicySteps
  <2>2. /\ pol'[s] = p /\ \A t \in Sessions \ {s} : pol'[t] = pol[t]
        /\ Calls' = Calls
        /\ \A c \in Calls :
              call'[c] = IF call[c].s = s /\ call[c].at # "done"
                         THEN [call[c] EXCEPT !.regimes = @ \cup {<<p.sandbox, p.approval>>}]
                         ELSE call[c]
    BY <1>1, <2>1, PolicyRecorded
  <2>3. ASSUME NEW d \in Calls
        PROVE  /\ Kept(d)
               /\ call[d].at # "done" => <<pol'[call[d].s].sandbox, pol'[call[d].s].approval>> \in call'[d].regimes
    <3>1. call[d] \in CallType /\ call[d].s \in Sessions
      BY <1>1, CallTyped
    <3>2. CASE call[d].s = s /\ call[d].at # "done"
      <4>1. call'[d] = [call[d] EXCEPT !.regimes = @ \cup {<<p.sandbox, p.approval>>}]
        BY <2>2, <3>2
      <4>2. /\ call'[d].s = call[d].s /\ call'[d].tool = call[d].tool /\ call'[d].inside = call[d].inside
            /\ call'[d].at = call[d].at /\ call'[d].approval = call[d].approval
            /\ call'[d].outcome = call[d].outcome /\ call'[d].verdict = call[d].verdict
            /\ call'[d].ran = call[d].ran /\ call'[d].touched = call[d].touched
            /\ call'[d].regimes = call[d].regimes \cup {<<p.sandbox, p.approval>>}
        BY <3>1, <4>1 DEF CallType
      <4>3. QED
        BY <2>1, <2>2, <3>2, <4>2 DEF Kept
    <3>3. CASE ~(call[d].s = s /\ call[d].at # "done")
      BY <1>1, <2>1, <2>2, <3>1, <3>3 DEF Kept, CallInv, RegimeNow
    <3>4. QED
      BY <3>2, <3>3
  <2>4. \A d \in Calls : CallInv(d)'
    BY <1>1, <2>3, KeptStays
  <2>5. OneLiveCall'
    <3>1. \A d \in Calls : call'[d].s = call[d].s /\ call'[d].at = call[d].at
      BY <2>3 DEF Kept
    <3>2. QED
      BY <1>1, <2>2, <3>1 DEF OneLiveCall
  <2>6. QED
    BY <1>2, <2>2, <2>4, <2>5 DEF PipelineInv
<1>5. ASSUME NEW s \in Sessions, NEW t \in Tools, NEW inside \in BOOLEAN, NEW pinned \in BOOLEAN,
             StartCall(s, t, inside, pinned)
      PROVE  PipelineInv'
  BY <1>1, <1>2, <1>5, NewcomerStays DEF PipelineInv
<1>6. ASSUME NEW c \in Calls, CallStep(c) PROVE PipelineInv'
  <2>1. PICK new \in CallType : call' = [call EXCEPT ![c] = new] /\ SameCall(c, new) /\ call[c].at # "done"
    BY <1>1, <1>6, CallMoves
  <2>2. Calls' = Calls /\ call'[c] = new /\ \A d \in Calls \ {c} : call'[d] = call[d]
    BY <1>1, <2>1, ReplaceCall
  <2>3. /\ hosted' = hosted
        /\ pol' = pol \/ (call'[c].at = "done" /\ \A t \in Sessions \ {call[c].s} : pol'[t] = pol[t])
        /\ \A t \in Sessions : allowed[t] \subseteq allowed'[t]
    BY <1>1, <1>6, CallEffects
  <2>4. ASSUME NEW d \in Calls \ {c} PROVE CallInv(d)'
    <3>1. call[d].s \in Sessions
      BY <1>1, CallTyped
    <3>2. Kept(d)
      BY <2>2, <2>3, <3>1 DEF Kept
    <3>3. call[d].at # "done" => call[d].s # call[c].s
      BY <1>1, <2>1 DEF OneLiveCall
    <3>4. call[d].at # "done" => <<pol'[call[d].s].sandbox, pol'[call[d].s].approval>> \in call'[d].regimes
      BY <1>1, <2>2, <2>3, <3>1, <3>3 DEF CallInv, RegimeNow
    <3>5. QED
      BY <1>1, <3>2, <3>4, KeptStays
  <2>5. CallInv(c)'
    BY <1>1, <1>6, MoverStays
  <2>6. OneLiveCall'
    BY <1>1, <2>1, <2>2 DEF OneLiveCall, SameCall
  <2>7. QED
    BY <1>2, <2>2, <2>4, <2>5, <2>6 DEF PipelineInv
<1>7. QED
  BY <1>3, <1>4, <1>5, <1>6, StepCases

-----------------------------------------------------------------------------
LEMMA PipelineInit == ASSUME Init PROVE PipelineInv
<1>1. call = <<>> /\ cmd = <<>> /\ file = [ver |-> 0, edits |-> {}]
  BY DEF Init
<1>2. call \in Seq(CallType) /\ cmd \in Seq(CommandType)
  BY <1>1, EmptySeq
<1>3. Calls = {} /\ DOMAIN cmd = {}
  BY <1>1 DEF Calls
<1>4. file \in [ver : Nat, edits : SUBSET Nat]
  BY <1>1
<1>5. [sandbox |-> "workspace-write", approval |-> "ask", preset |-> "", model |-> ""] \in PolicyType
  BY DEF PolicyType, Sandboxes, Approvals, Models
<1>6. pol \in [Sessions -> PolicyType] /\ allowed \in [Sessions -> SUBSET Tools]
  BY <1>5 DEF Init
<1>7. QED
  BY <1>2, <1>3, <1>4, <1>6 DEF PipelineInv, TypeInv, OneLiveCall

LEMMA PipelineInvariant == Spec => []PipelineInv
<1>1. PipelineInv /\ [Next]_vars => PipelineInv'
  <2>1. ASSUME PipelineInv, UNCHANGED vars PROVE PipelineInv'
    <3>1. TypeInv' /\ OneLiveCall' /\ Calls' = Calls
      BY <2>1 DEF vars, PipelineInv, TypeInv, OneLiveCall, Calls
    <3>2. ASSUME NEW d \in Calls PROVE CallInv(d)'
      <4>1. CallInv(d)
        BY <2>1 DEF PipelineInv
      <4>2. Kept(d) /\ pol' = pol /\ call' = call
        BY <2>1 DEF vars, Kept, Calls
      <4>3. QED
        BY <4>1, <4>2, KeptStays DEF CallInv, RegimeNow
    <3>3. QED
      BY <3>1, <3>2 DEF PipelineInv
  <2>2. QED
    BY <2>1, PipelineStep
<1>2. QED
  BY <1>1, PipelineInit, PTL DEF Spec

(* However the knobs of the policy move while hooks, reviewers and users    *)
(* decide, a call that needs permission runs only if a policy in force      *)
(* since it began admits it, and touches files only as a sandbox in force   *)
(* admits: for any sessions, tools, presets, calls and commands.            *)
THEOREM PolicyGovernsCalls == Spec => []RunsAsPermitted
<1>1. PipelineInv => RunsAsPermitted
  <2> SUFFICES ASSUME PipelineInv, NEW c \in Calls
               PROVE  /\ (call[c].ran /\ call[c].tool \in RequiresPerm) =>
                            /\ \E r \in call[c].regimes : Admits(c, r[2])
                            /\ call[c].outcome \in {"", "allowed-once", "allowed-always"}
                      /\ (call[c].touched /\ call[c].tool \in {"read_file", "write_file"}) =>
                            \E r \in call[c].regimes :
                                r[1] = "danger-full-access" \/ (r[1] # "read-only" /\ call[c].inside)
    BY DEF RunsAsPermitted
  <2>1. Admitted(c) /\ Sandboxed(c)
    BY DEF PipelineInv, CallInv
  <2>2. QED
    BY <2>1 DEF Admitted, Sandboxed
<1>2. QED
  BY <1>1, PipelineInvariant, PTL
==============================================================================
