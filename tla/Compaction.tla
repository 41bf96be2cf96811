------------------------------ MODULE Compaction ------------------------------
(***************************************************************************)
(* The model-visible surface of a session log and the compaction of its    *)
(* head: pkg/session/surface.go and events.go, pkg/compaction, and the     *)
(* agent's maybeCompact and emitRaw (pkg/agent/loop.go).                   *)
(*                                                                         *)
(* Turns append to the surface; some end with tool calls that never got a  *)
(* result (an abort, an error finish, a crash).  After a completed turn    *)
(* the actor runs the compaction transaction, one durable append at a      *)
(* time, while other goroutines append events of their own; an append may  *)
(* fail, and the process may die between any two.                          *)
(***************************************************************************)
EXTENDS Integers, Sequences, SequencesExt, FiniteSetsExt

CONSTANTS Retain,       \* RetainTokens, every surface node being priced 1
          Calls,        \* numbers of tool calls an assistant message may carry
          MaxEvents,    \* bound on the log
          MaxNotes,     \* bound on events other goroutines append
          MaxCrashes

VARIABLES
    log,        \* the durable events; log[i] has sequence number i
    actor,      \* "idle", "turn" or "compact"
    owed,       \* tool calls of the running step still to be answered: <<seq, k>>
    tx,         \* the compaction transaction: [pc, first, last, shadowed, begun, summary]
    wedged,     \* an append failed: its number is burnt and the store takes no other
    notes, crashes

compactionVars == <<log, actor, owed, tx, wedged, notes, crashes>>

NoTx == [pc |-> "off", first |-> 0, last |-> 0, shadowed |-> <<>>, begun |-> 0, summary |-> 0]

(* An envelope: op is its surface operation, calls the tool calls it makes, *)
(* of the call it answers, sources its sourceEventSeqs.                     *)
Event(type, op) == [type |-> type, op |-> op, calls |-> 0, of |-> <<0, 0>>,
                    first |-> 0, last |-> 0, sources |-> {}]

Init ==
    /\ log = <<>> /\ actor = "idle" /\ owed = <<>> /\ tx = NoTx
    /\ wedged = FALSE /\ notes = 0 /\ crashes = 0

-----------------------------------------------------------------------------
(* The surface.                                                             *)

Position(nodes, seq) == {i \in DOMAIN nodes : nodes[i] = seq}

(* planSurfaceEvent for a replacement: replacementRange and                 *)
(* assertProvenance.                                                        *)
Replaceable(nodes, e, seq) ==
    \E i \in Position(nodes, e.first), j \in Position(nodes, e.last) :
        /\ i <= j
        /\ {nodes[k] : k \in i..j} \subseteq e.sources
        /\ \A s \in e.sources : s < seq

(* applySurfaceEvent *)
ApplySurfaceEvent(state, e, seq) ==
    CASE e.op = "none" -> state
      [] e.op = "append" -> [state EXCEPT !.nodes = Append(@, seq)]
      [] e.op = "replace" /\ ~Replaceable(state.nodes, e, seq) -> [state EXCEPT !.ok = FALSE]
      [] OTHER -> LET i == Min(Position(state.nodes, e.first))
                      j == Min(Position(state.nodes, e.last))
                  IN [state EXCEPT !.nodes = SubSeq(@, 1, i - 1) \o <<seq>> \o SubSeq(@, j + 1, Len(@))]

(* FoldSurface *)
FoldSurface(events) ==
    LET state[seq \in 0..Len(events)] ==
            IF seq = 0 THEN [nodes |-> <<>>, ok |-> TRUE]
            ELSE IF state[seq - 1].ok THEN ApplySurfaceEvent(state[seq - 1], events[seq], seq)
            ELSE state[seq - 1]
    IN state[Len(events)]

EventToolDelta(e) == e.calls - (IF e.type = "tool/result" THEN 1 ELSE 0)

(* cutBalances: the calls in progress at the cut before nodes[i].           *)
InProgress(events, nodes, i) ==
    LET running[k \in 0..(i - 1)] == IF k = 0 THEN 0 ELSE running[k - 1] + EventToolDelta(events[nodes[k]])
    IN running[i - 1]

(* Wrong variant: a cut is taken between a call and its result.             *)
BalancedAnywhere(events, nodes, i) == TRUE

(* ToolPairingBalancedBefore(i), ToolPairingBalancedAfter(i - 1) *)
Balanced(events, nodes, i) == InProgress(events, nodes, i) = 0

(* SelectCompactableRange: keep the shortest tail of Retain tokens, which   *)
(* is one node at least, then move the cut towards the head until it is     *)
(* balanced.  0: nothing to do.                                             *)
KeepFrom(events, nodes) ==
    LET budget == IF Len(nodes) < Retain THEN 1 ELSE Len(nodes) - Max({Retain, 1}) + 1
        cuts == {i \in 2..budget : Balanced(events, nodes, i)}
    IN IF cuts = {} THEN 0 ELSE Max(cuts)

(* ValidateSurfaceRegion over the selected span.                            *)
ValidRegion(events, nodes, i, j) == Balanced(events, nodes, i) /\ Balanced(events, nodes, j + 1)

(* inspectCompactionEntryState, assertCompactionInactive: the last bracket  *)
(* event is no unmatched start.  (No code writes the session/end-seed event *)
(* that would set an earlier process's start aside.)                        *)
CompactionInactive(events) ==
    LET brackets == {i \in DOMAIN events : events[i].type \in {"compaction/start", "compaction/end"}}
    IN brackets = {} \/ events[Max(brackets)].type = "compaction/end"

-----------------------------------------------------------------------------
(* EmitEvent and emitRaw: the number is taken first, then the append.       *)

Room == Len(log) < MaxEvents

Emits(e) == ~wedged /\ Room /\ log' = Append(log, e) /\ UNCHANGED wedged

Fails == wedged' = TRUE /\ UNCHANGED log

-----------------------------------------------------------------------------
(* Turns.                                                                   *)

UserMessage ==
    /\ actor = "idle" /\ Emits(Event("user/message", "append"))
    /\ actor' = "turn"
    /\ UNCHANGED <<owed, tx, notes, crashes>>

AssistantMessage ==
    /\ actor = "turn" /\ owed = <<>>
    /\ \E n \in Calls :
         /\ Emits([Event("assistant/message", "append") EXCEPT !.calls = n])
         /\ owed' = [k \in 1..n |-> <<Len(log) + 1, k>>]
         /\ actor' = IF n = 0 THEN "compact" ELSE "turn"
    /\ tx' = IF actor' = "compact" THEN [NoTx EXCEPT !.pc = "select"] ELSE tx
    /\ UNCHANGED <<notes, crashes>>

ToolResult ==
    /\ actor = "turn" /\ owed # <<>>
    /\ Emits([Event("tool/result", "append") EXCEPT !.of = Head(owed)])
    /\ owed' = Tail(owed)
    /\ UNCHANGED <<actor, tx, notes, crashes>>

(* An abort or an error finish closes the turn with its calls unanswered,   *)
(* and without maybeCompact.                                                *)
TurnCut ==
    /\ actor = "turn"
    /\ actor' = "idle" /\ owed' = <<>>
    /\ UNCHANGED <<log, tx, wedged, notes, crashes>>

(* Another goroutine's EmitEvent (a title, a policy, a schedule).           *)
Note ==
    /\ notes < MaxNotes /\ Emits(Event("note", "none"))
    /\ notes' = notes + 1
    /\ UNCHANGED <<actor, owed, tx, crashes>>

-----------------------------------------------------------------------------
(* CompactTransaction, run by maybeCompact on the actor.                    *)

Done == actor' = "idle" /\ tx' = NoTx /\ UNCHANGED <<owed, notes, crashes>>

Proceeds(pc) == tx' = [tx EXCEPT !.pc = pc] /\ UNCHANGED <<actor, owed, notes, crashes>>

SelectRange ==
    LET fold == FoldSurface(log)
        keep == KeepFrom(log, fold.nodes)
    IN
    /\ actor = "compact" /\ tx.pc = "select"
    /\ IF keep = 0 \/ ~ValidRegion(log, fold.nodes, 1, keep - 1) \/ ~CompactionInactive(log)
       THEN Done
       ELSE /\ tx' = [tx EXCEPT !.pc = "start", !.first = fold.nodes[1], !.last = fold.nodes[keep - 1],
                                !.shadowed = SubSeq(fold.nodes, 1, keep - 1)]
            /\ UNCHANGED <<actor, owed, notes, crashes>>
    /\ UNCHANGED <<log, wedged>>

(* compaction/start; without it nothing was begun and nothing is closed.    *)
Start ==
    /\ actor = "compact" /\ tx.pc = "start"
    /\ \/ /\ Emits(Event("compaction/start", "none"))
          /\ tx' = [tx EXCEPT !.pc = "summarize", !.begun = Len(log) + 1]
          /\ UNCHANGED <<actor, owed, notes, crashes>>
       \/ Fails /\ Done

(* The summarizer fails, or its summary is not smaller than what it         *)
(* replaces (both close the bracket with an error), or it is used.          *)
Summarize ==
    /\ actor = "compact" /\ tx.pc = "summarize"
    /\ \/ Proceeds("close")
       \/ \E framed \in 1..2 : Proceeds(IF framed >= Len(tx.shadowed) THEN "close" ELSE "summary")
    /\ UNCHANGED <<log, wedged>>

Summary ==
    /\ actor = "compact" /\ tx.pc = "summary"
    /\ \/ /\ Emits(Event("compaction/summary", "none"))
          /\ tx' = [tx EXCEPT !.pc = "replace", !.summary = Len(log) + 1]
          /\ UNCHANGED <<actor, owed, notes, crashes>>
       \/ Fails /\ Proceeds("close")

(* The checkpoint message: a user/message that replaces the selected span.  *)
Checkpoint ==
    [Event("user/message", "replace") EXCEPT !.first = tx.first, !.last = tx.last,
        !.sources = {tx.begun, tx.summary} \cup Range(tx.shadowed)]

Replace ==
    /\ actor = "compact" /\ tx.pc = "replace"
    /\ \/ Emits(Checkpoint) /\ Proceeds("end")
       \/ Fails /\ Proceeds("close")

(* commitEnd, and closeFailure after an error: both write compaction/end.   *)
End ==
    /\ actor = "compact" /\ tx.pc \in {"end", "close"}
    /\ \/ Emits(Event("compaction/end", "none")) /\ Done
       \/ Fails /\ IF tx.pc = "end" THEN Proceeds("close") ELSE Done

(* The process dies and another resumes the session from its log.           *)
Crash ==
    /\ crashes < MaxCrashes
    /\ actor' = "idle" /\ owed' = <<>> /\ tx' = NoTx /\ wedged' = FALSE
    /\ crashes' = crashes + 1
    /\ UNCHANGED <<log, notes>>

Next ==
    \/ UserMessage \/ AssistantMessage \/ ToolResult \/ TurnCut \/ Note
    \/ SelectRange \/ Start \/ Summarize \/ Summary \/ Replace \/ End \/ Crash

Spec == Init /\ [][Next]_compactionVars

-----------------------------------------------------------------------------
(* PROPERTIES                                                               *)

(* The history sent to the model (DeriveMessages) is always derivable, and  *)
(* a tool result on the surface still has the message that made its call    *)
(* before it: no provider request carries an answer to a call it does not   *)
(* show, whatever was compacted, cut off or interleaved.                    *)
ResultsKeepCalls ==
    LET fold == FoldSurface(log)
        nodes == fold.nodes
    IN /\ fold.ok
       /\ \A j \in DOMAIN nodes :
            log[nodes[j]].type = "tool/result" =>
                \E i \in 1..(j - 1) : nodes[i] = log[nodes[j]].of[1]
==============================================================================
