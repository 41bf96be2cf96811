------------------------------ MODULE Processes -------------------------------
(***************************************************************************)
(* The processes that outlive a tool call (backend/pkg/tools): background  *)
(* jobs (jobs.go), which the model, a client's jobs.kill and the waiter    *)
(* goroutine settle concurrently; the persistent shell of a session        *)
(* (pshell.go), whose reader goroutine survives a cancelled call; and      *)
(* persistent terminals (terminal.go), whose reader wakes the senders by a *)
(* marker line.                                                            *)
(*                                                                         *)
(* The tool calls of a session follow one another.  The output of a        *)
(* command is one line that names its call; a marker is a line of its own, *)
(* unless the output before it was unterminated.                           *)
(***************************************************************************)
EXTENDS Naturals, Sequences, FiniteSets

CONSTANTS
    Ops,        \* families in play: "job", "shell", "terminal"
    MaxJobs,    \* bound: jobs
    MaxCalls,   \* bound: shell and terminal calls
    MaxLines    \* terminalMaxLines

VARIABLES
    job,        \* jobByID: [status, proc, done, killed]
    signalling, \* jobs whose killer has yet to signal the process tree
    entry,      \* shells[key]: 0, or the number of the shell
    shell,      \* shell processes: [alive, in, out]
    run,        \* calls of bash_persistent: [shell, at, reading, got]
    term,       \* the terminal: [alive, stdin, closed, listed, in, out, lines, waiters]
    send        \* calls of terminal_send: [at, marker, before, woken, out]

vars == <<job, signalling, entry, shell, run, term, send>>
shells == <<entry, shell, run>>
terminals == <<term, send>>

Jobs == DOMAIN job
Terminal(status) == status \in {"completed", "killed", "failed"}
NoTerm == [alive |-> FALSE, stdin |-> FALSE, closed |-> FALSE, listed |-> FALSE, in |-> <<>>, out |-> <<>>,
           lines |-> <<>>, waiters |-> {}]

Init ==
    /\ job = <<>> /\ signalling = {}
    /\ entry = 0 /\ shell = <<>> /\ run = <<>>
    /\ term = NoTerm /\ send = <<>>

-----------------------------------------------------------------------------
(* run_command with run_in_background: the record is listed before the      *)
(* process is started.                                                      *)
StartJob ==
    /\ "job" \in Ops /\ Len(job) < MaxJobs
    /\ \A j \in Jobs : job[j].proc # "new"
    /\ job' = Append(job, [status |-> "running", proc |-> "new", done |-> FALSE, killed |-> FALSE])
    /\ UNCHANGED <<signalling, shells, terminals>>

StartProcess(j) ==
    /\ job[j].proc = "new"
    /\ \/ job' = [job EXCEPT ![j].proc = "running"]
       \/ job' = [job EXCEPT ![j].proc = "unstarted", ![j].status = "failed", ![j].done = TRUE]
    /\ UNCHANGED <<signalling, shells, terminals>>

(* The process ends by itself, or a signal from outside ends it.            *)
ProcessEnds(j, how) ==
    /\ job[j].proc = "running"
    /\ job' = [job EXCEPT ![j].proc = how]
    /\ UNCHANGED <<signalling, shells, terminals>>

(* The waiter goroutine, after cmd.Wait.                                    *)
Reap(j) ==
    /\ job[j].proc \in {"zero", "nonzero", "signalled"} /\ ~job[j].done
    /\ job' = [job EXCEPT ![j].done = TRUE,
                 ![j].status = IF job[j].proc = "zero" THEN "completed"
                               ELSE IF job[j].status = "killed" THEN "killed"
                               ELSE IF job[j].proc = "nonzero" THEN "completed"
                               ELSE "failed"]
    /\ UNCHANGED <<signalling, shells, terminals>>

(* Wrong variant: the tree is signalled, the record left to the waiter.     *)
KillUnrecorded(j) ==
    /\ ~Terminal(job[j].status) /\ j \notin signalling
    /\ signalling' = signalling \cup {j}
    /\ UNCHANGED <<job, shells, terminals>>

(* kill, from job_kill or the client's jobs.kill: the record, then the      *)
(* tree, which is not there yet if the process has not been started.        *)
Kill(j) ==
    /\ ~Terminal(job[j].status)
    /\ job' = [job EXCEPT ![j].status = "killed"]
    /\ signalling' = signalling \cup {j}
    /\ UNCHANGED <<shells, terminals>>

KillTree(j) ==
    /\ j \in signalling /\ signalling' = signalling \ {j}
    /\ job' = IF job[j].proc = "running" THEN [job EXCEPT ![j].proc = "signalled", ![j].killed = TRUE] ELSE job
    /\ UNCHANGED <<shells, terminals>>

-----------------------------------------------------------------------------
(* bash_persistent: getShell, then the command and the marker are written;  *)
(* a shell that exited by itself stays in the table and the write fails.    *)
Running(s) == \E c \in DOMAIN s : s[c].at \notin {"done", "cancelled", "failed"}

ShellRun ==
    LET c == Len(run) + 1
        fresh == entry = 0
        g == IF fresh THEN Len(shell) + 1 ELSE entry
        base == IF fresh THEN Append(shell, [alive |-> TRUE, in |-> <<>>, out |-> <<>>]) ELSE shell
    IN /\ "shell" \in Ops /\ c <= MaxCalls /\ ~Running(run)
       /\ entry' = g
       /\ IF base[g].alive
          THEN /\ shell' = [base EXCEPT ![g].in = @ \o <<[call |-> c, mark |-> FALSE], [call |-> c, mark |-> TRUE]>>]
               /\ run' = Append(run, [shell |-> g, at |-> "run", reading |-> TRUE, got |-> {}])
          ELSE /\ shell' = base
               /\ run' = Append(run, [shell |-> g, at |-> "failed", reading |-> FALSE, got |-> {}])
       /\ UNCHANGED <<job, signalling, terminals>>

(* The shell executes what it was written, or exits on a command.           *)
ShellStep(g) ==
    /\ shell[g].alive /\ shell[g].in # <<>>
    /\ \/ shell' = [shell EXCEPT ![g].in = Tail(@), ![g].out = Append(@, Head(shell[g].in))]
       \/ ~Head(shell[g].in).mark /\ shell' = [shell EXCEPT ![g].alive = FALSE]
    /\ UNCHANGED <<job, signalling, entry, run, terminals>>

(* The reader goroutine of a call: until the marker or the end of the pipe. *)
ReadLine(c) ==
    LET g == run[c].shell IN
    /\ run[c].reading
    /\ IF shell[g].out # <<>>
       THEN /\ shell' = [shell EXCEPT ![g].out = Tail(@)]
            /\ run' = IF Head(shell[g].out).mark THEN [run EXCEPT ![c].reading = FALSE]
                      ELSE [run EXCEPT ![c].got = @ \cup {Head(shell[g].out).call}]
       ELSE /\ ~shell[g].alive
            /\ run' = [run EXCEPT ![c].reading = FALSE] /\ UNCHANGED shell
    /\ UNCHANGED <<job, signalling, entry, terminals>>

ShellReturn(c) ==
    /\ run[c].at = "run" /\ ~run[c].reading
    /\ run' = [run EXCEPT ![c].at = "done"]
    /\ UNCHANGED <<job, signalling, entry, shell, terminals>>

(* Wrong variant: the shell of a cancelled call is kept.                    *)
ShellCancelKeeps(c) ==
    /\ run[c].at = "run"
    /\ run' = [run EXCEPT ![c].at = "cancelled"]
    /\ UNCHANGED <<job, signalling, entry, shell, terminals>>

(* The call's context ends: the shell is killed and forgotten.              *)
ShellCancel(c) ==
    /\ run[c].at = "run"
    /\ run' = [run EXCEPT ![c].at = "cancelled"]
    /\ shell' = IF entry = 0 THEN shell ELSE [shell EXCEPT ![entry].alive = FALSE]
    /\ entry' = 0
    /\ UNCHANGED <<job, signalling, terminals>>

(* bash_reset.                                                              *)
ShellReset ==
    /\ entry # 0 /\ ~Running(run)
    /\ shell' = [shell EXCEPT ![entry].alive = FALSE] /\ entry' = 0
    /\ UNCHANGED <<job, signalling, run, terminals>>

-----------------------------------------------------------------------------
(* terminal_open, once.                                                     *)
OpenTerminal ==
    /\ "terminal" \in Ops /\ term = NoTerm
    /\ term' = [NoTerm EXCEPT !.alive = TRUE, !.stdin = TRUE, !.listed = TRUE]
    /\ UNCHANGED <<job, signalling, shells, send>>

(* terminal_send: the text is written, the marker registered, then written. *)
(* A write fails once cmd.Wait has closed the stdin pipe.                   *)
Write(c, item, then) ==
    IF term.stdin THEN /\ term' = [term EXCEPT !.in = Append(@, item)]
                       /\ send' = [send EXCEPT ![c].at = then]
    ELSE /\ term' = [term EXCEPT !.waiters = @ \ {c}]
         /\ send' = [send EXCEPT ![c].at = "failed"]

TerminalSend ==
    /\ term.listed /\ Len(send) < MaxCalls /\ ~Running(send)
    /\ send' = Append(send, [at |-> "text", before |-> 0, woken |-> FALSE, out |-> {}])
    /\ UNCHANGED <<job, signalling, shells, term>>

SendText(c) ==
    /\ send[c].at = "text"
    /\ \E open \in BOOLEAN :
         Write(c, [call |-> c, mark |-> FALSE, glued |-> open], "register")
    /\ UNCHANGED <<job, signalling, shells>>

RegisterMarker(c) ==
    /\ send[c].at = "register"
    /\ term' = [term EXCEPT !.waiters = @ \cup {c}]
    /\ send' = [send EXCEPT ![c].at = "mark", ![c].before = Len(term.lines)]
    /\ UNCHANGED <<job, signalling, shells>>

WriteMarker(c) ==
    /\ send[c].at = "mark"
    /\ Write(c, [call |-> c, mark |-> TRUE, glued |-> FALSE], "wait")
    /\ UNCHANGED <<job, signalling, shells>>

(* The shell echoes.                                                        *)
TerminalStep ==
    /\ term.alive /\ term.in # <<>>
    /\ term' = [term EXCEPT !.in = Tail(@), !.out = Append(@, Head(term.in))]
    /\ UNCHANGED <<job, signalling, shells, send>>

(* It ends: a command exits it, a signal, terminal_close.  Then cmd.Wait    *)
(* returns, which closes the stdin pipe, and the output ends.               *)
TerminalExit ==
    /\ term.alive /\ term' = [term EXCEPT !.alive = FALSE]
    /\ UNCHANGED <<job, signalling, shells, send>>

TerminalWaited ==
    /\ term.listed /\ ~term.alive /\ term.stdin
    /\ term' = [term EXCEPT !.stdin = FALSE, !.in = <<>>]
    /\ UNCHANGED <<job, signalling, shells, send>>

(* readLoop: a line is retained in the bounded tail and wakes the waiter of *)
(* its marker; at the end every waiter is woken.                            *)
Retain(lines, l) == IF Len(lines) < MaxLines THEN Append(lines, l) ELSE Append(Tail(lines), l)

TerminalRead ==
    LET l == Head(term.out)
        taken == IF l.glued THEN 2 ELSE 1       \* an unterminated text is read with the marker
    IN /\ term.out # <<>> /\ ~term.closed /\ Len(term.out) >= taken
       /\ term' = [term EXCEPT !.out = SubSeq(@, taken + 1, Len(@)), !.lines = Retain(@, l),
                     !.waiters = IF l.mark THEN @ \ {l.call} ELSE @]
       /\ send' = IF l.mark /\ l.call \in term.waiters THEN [send EXCEPT ![l.call].woken = TRUE] ELSE send
       /\ UNCHANGED <<job, signalling, shells>>

(* What is left of the output has no line end.                              *)
AtEOF == term.listed /\ ~term.stdin /\ ~term.closed
         /\ (term.out = <<>> \/ (Len(term.out) = 1 /\ Head(term.out).glued))

(* Wrong variant: the waiters are forgotten.                                *)
TerminalEOFForgets ==
    /\ AtEOF
    /\ term' = [term EXCEPT !.closed = TRUE, !.waiters = {}]
    /\ UNCHANGED <<job, signalling, shells, send>>

TerminalEOF ==
    /\ AtEOF
    /\ send' = [c \in DOMAIN send |-> IF c \in term.waiters THEN [send[c] EXCEPT !.woken = TRUE] ELSE send[c]]
    /\ term' = [term EXCEPT !.closed = TRUE, !.waiters = {}]
    /\ UNCHANGED <<job, signalling, shells>>

(* removeLineLocked.                                                         *)
Unmarked(lines, c) ==
    LET kept[n \in 0 .. Len(lines)] ==
            IF n = 0 THEN <<>>
            ELSE IF lines[n].mark /\ lines[n].call = c THEN kept[n - 1] ELSE Append(kept[n - 1], lines[n])
    IN  kept[Len(lines)]

(* The wait ends by the marker, the context (an error) or 120 s; the output *)
(* is the lines after the ones that were there.                             *)
SendReturns(c) ==
    LET from == send[c].before + 1 IN
    /\ send[c].at = "wait"
    /\ \/ send' = [send EXCEPT ![c].at = "done", ![c].out = {term.lines[i].call : i \in from..Len(term.lines)}]
       \/ ~send[c].woken /\ send' = [send EXCEPT ![c].at = "cancelled"]
    /\ term' = [term EXCEPT !.waiters = @ \ {c}, !.lines = Unmarked(@, c)]
    /\ UNCHANGED <<job, signalling, shells>>

(* terminal_close between two calls; one whose shell has exited stays       *)
(* listed.                                                                  *)
CloseTerminal ==
    /\ term.listed /\ ~term.closed /\ ~Running(send)
    /\ term' = [term EXCEPT !.alive = FALSE, !.stdin = FALSE, !.in = <<>>, !.listed = FALSE]
    /\ UNCHANGED <<job, signalling, shells, send>>

-----------------------------------------------------------------------------
Next ==
    \/ StartJob
    \/ \E j \in Jobs : \/ StartProcess(j) \/ Reap(j) \/ Kill(j) \/ KillTree(j)
                       \/ \E how \in {"zero", "nonzero", "signalled"} : ProcessEnds(j, how)
    \/ ShellRun \/ ShellReset
    \/ \E g \in DOMAIN shell : ShellStep(g)
    \/ \E c \in DOMAIN run : ReadLine(c) \/ ShellReturn(c) \/ ShellCancel(c)
    \/ OpenTerminal \/ TerminalSend \/ TerminalStep \/ TerminalExit \/ TerminalWaited
    \/ TerminalRead \/ TerminalEOF \/ CloseTerminal
    \/ \E c \in DOMAIN send : SendText(c) \/ RegisterMarker(c) \/ WriteMarker(c) \/ SendReturns(c)

Spec == Init /\ [][Next]_vars

-----------------------------------------------------------------------------
(* PROPERTIES                                                               *)

(* A job whose waiters are released has a final status, and the status is   *)
(* true: a process that job_kill ended is reported as killed, never as      *)
(* failed, and only one that ended by itself as completed.                  *)
JobOutcome ==
    \A j \in Jobs : job[j].done =>
        /\ Terminal(job[j].status)
        /\ job[j].killed => job[j].status = "killed"
        /\ job[j].status = "completed" => job[j].proc \in {"zero", "nonzero"}

(* What a call of the persistent shell returns was printed by its own       *)
(* command: a cancelled call leaves neither late output nor a reader that   *)
(* takes the next call's lines.                                             *)
OwnOutput == \A c \in DOMAIN run : run[c].at = "done" => run[c].got \subseteq {c}

(* A terminal call that waits will be woken: its marker is still to come,   *)
(* or unterminated output has swallowed it; and no call waits for a         *)
(* terminal whose reader is gone.                                           *)
MarkerWillCome ==
    \A c \in DOMAIN send : (send[c].at = "wait" /\ ~send[c].woken) =>
        /\ ~term.closed
        /\ \/ \E i \in DOMAIN term.in : term.in[i].mark /\ term.in[i].call = c
           \/ \E i \in DOMAIN term.out : term.out[i].mark /\ term.out[i].call = c
           \/ \E i \in DOMAIN term.lines : term.lines[i].glued
           \/ ~term.alive
==============================================================================
