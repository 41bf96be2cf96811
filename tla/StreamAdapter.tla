---------------------------- MODULE StreamAdapter -----------------------------
(***************************************************************************)
(* One streamed model call, pkg/llm: the reader goroutine, the event loop  *)
(* with its watchdog (sse.go), the three wire protocols' translation into  *)
(* chunks, and the BlockAssembler that folds the chunks into the reply     *)
(* (stream.go).  The provider sends what its protocol allows and may stop, *)
(* fall silent, or send something unreadable anywhere.                     *)
(*                                                                         *)
(* A block's content is the sequence of its deltas' ordinals.              *)
(***************************************************************************)
EXTENDS Integers, Sequences, SequencesExt, FiniteSetsExt

CONSTANTS Protocols,    \* of "completions", "anthropic", "responses"
          Parts,        \* blocks of a reply, a sequence: the wire indices
          MaxDeltas,    \* bound on the provider's deltas
          LineCap,      \* capacity of lineCh
          ChunkCap      \* capacity of the chunk channel

VARIABLES
    proto,
    sent,       \* events the provider has sent: [type, part, n]
    server,     \* "sending", "finished", "eof" or "broken" (the read fails)
    lines,      \* lineCh
    read,       \* events the reader goroutine has taken from the body
    adapter,    \* the handler's state: [order, opened, out, finished]
    result,     \* "running", then startStream's outcome: "nil" or "error"
    cut,        \* the caller cancelled, or the connect deadline passed
    chunks,     \* the chunk channel
    asm,        \* BlockAssembler: [open, legacy, blocks, finish]
    reply       \* "pending", "failed" or "accepted"

streamVars == <<proto, sent, server, lines, read, adapter, result, cut, chunks, asm, reply>>

NoBlock == [part |-> "none", text |-> <<>>]
Wire(type, part, n) == [type |-> type, part |-> part, n |-> n]
Chunk(type, id, part, n) == [type |-> type, id |-> id, part |-> part, n |-> n]

Init ==
    /\ proto \in Protocols
    /\ sent = <<>> /\ server = "sending" /\ lines = <<>> /\ read = 0
    /\ adapter = [order |-> <<>>, opened |-> {}, out |-> <<>>, finished |-> FALSE]
    /\ result = "running" /\ cut = FALSE
    /\ chunks = <<>>
    /\ asm = [open |-> <<>>, legacy |-> NoBlock, blocks |-> <<>>, finish |-> "none"]
    /\ reply = "pending"

-----------------------------------------------------------------------------
(* The provider.  Chat completions interleave the deltas of parallel tool   *)
(* calls; the other two send one block after another.                       *)

Deltas == Len(SelectSeq(sent, LAMBDA e : e.type = "delta"))
Begun == {sent[i].part : i \in DOMAIN sent}
Current == IF Begun = {} THEN 0 ELSE Max({i \in DOMAIN Parts : Parts[i] \in Begun})
Closed == sent # <<>> /\ Last(sent).type = "close"

MaySend(e) ==
    CASE e.type = "delta" ->
            /\ Deltas < MaxDeltas /\ e.n = Deltas + 1
            /\ \/ proto = "completions"
               \/ Current > 0 /\ e.part = Parts[Current] /\ ~Closed
               \/ proto = "responses" /\ Current < Len(Parts) /\ e.part = Parts[Current + 1]
      [] e.type = "open" -> proto # "completions" /\ Current < Len(Parts) /\ e.part = Parts[Current + 1] /\ e.n = 0
      [] e.type = "close" -> proto # "completions" /\ Current > 0 /\ e.part = Parts[Current] /\ ~Closed /\ e.n = 0
      [] e.type = "failed" -> proto = "responses" /\ e.part = "none" /\ e.n = 0
      [] OTHER -> e.part = "none" /\ e.n = 0       \* "done" and "malformed"

ServerSends ==
    /\ server = "sending"
    /\ \E type \in {"open", "delta", "close", "done", "failed", "malformed"},
          part \in Range(Parts) \cup {"none"}, n \in 0..MaxDeltas :
         /\ (type \in {"open", "delta", "close"}) = (part # "none")
         /\ MaySend(Wire(type, part, n))
         /\ sent' = Append(sent, Wire(type, part, n))
         /\ server' = IF type \in {"done", "failed", "malformed"} THEN "finished" ELSE server
    /\ UNCHANGED <<proto, lines, read, adapter, result, cut, chunks, asm, reply>>

(* The connection ends, cleanly (also inside an unterminated event, which   *)
(* is dropped) or with an error.                                            *)
ServerStops ==
    /\ server = "sending"
    /\ server' \in {"eof", "broken"}
    /\ UNCHANGED <<proto, sent, lines, read, adapter, result, cut, chunks, asm, reply>>

(* readSSELines *)
ReadLine ==
    /\ result = "running" /\ read < Len(sent) /\ Len(lines) < LineCap
    /\ lines' = Append(lines, sent[read + 1]) /\ read' = read + 1
    /\ UNCHANGED <<proto, sent, server, adapter, result, cut, chunks, asm, reply>>

(* The turn is aborted, or the connect+headers deadline of startStream's    *)
(* context passes: consumeSSE watches that context for the body as well.    *)
Cut ==
    /\ ~cut /\ result = "running"
    /\ cut' = TRUE
    /\ UNCHANGED <<proto, sent, server, lines, read, adapter, result, chunks, asm, reply>>

-----------------------------------------------------------------------------
(* The adapters.                                                            *)

(* The finish closures: close what is open, then report how it ended; a     *)
(* stop with no block at all is an error.                                   *)
Ends(parts, named) ==
    [i \in 1..Len(parts) |-> Chunk("end", IF named THEN parts[i] ELSE "none", parts[i], 0)]

Finished(ends, failed, empty) ==
    ends \o <<Chunk("finish", "none", IF failed \/ empty THEN "error" ELSE "stop", 0)>>

(* Wrong variant: a new block closes the ones before it.                    *)
CompletionsEarly(a, e) ==
    CASE e.type = "done" -> [a EXCEPT !.out = Finished(Ends(a.order, TRUE), FALSE, a.order = <<>>)]
      [] e.part \in Range(a.order) -> [a EXCEPT !.out = <<Chunk("delta", e.part, e.part, e.n)>>]
      [] OTHER -> [a EXCEPT !.order = Append(@, e.part),
                            !.out = Ends(a.order, TRUE)
                                    \o <<Chunk("start", e.part, e.part, 0), Chunk("delta", e.part, e.part, e.n)>>]

(* streamCompletions: a block per wire index, every end deferred to [DONE], *)
(* in the order the blocks were opened.                                     *)
Completions(a, e) ==
    CASE e.type = "done" -> [a EXCEPT !.out = Finished(Ends(a.order, TRUE), FALSE, a.order = <<>>)]
      [] e.part \in Range(a.order) -> [a EXCEPT !.out = <<Chunk("delta", e.part, e.part, e.n)>>]
      [] OTHER -> [a EXCEPT !.order = Append(@, e.part),
                            !.out = <<Chunk("start", e.part, e.part, 0), Chunk("delta", e.part, e.part, e.n)>>]

(* anthropicAdapter.stream: chunks without a block id.                      *)
Anthropic(a, e) ==
    CASE e.type = "open" -> [a EXCEPT !.order = Append(@, e.part), !.opened = @ \cup {e.part},
                                      !.out = <<Chunk("start", "none", e.part, 0)>>]
      [] e.type = "delta" -> [a EXCEPT !.out = <<Chunk("delta", "none", e.part, e.n)>>]
      [] e.type = "close" -> [a EXCEPT !.opened = @ \ {e.part},
                                       !.out = IF e.part \in a.opened THEN <<Chunk("end", "none", e.part, 0)>> ELSE <<>>]
      [] OTHER -> [a EXCEPT !.opened = {},
                            !.out = Finished(Ends(SetToSeq(a.opened), FALSE), FALSE, a.order = <<>>)]

(* responsesAdapter.stream's ensure: a delta opens its block if need be.    *)
Ensure(a, part) ==
    IF part \in a.opened THEN [a EXCEPT !.out = <<>>]
    ELSE [a EXCEPT !.order = Append(@, part), !.opened = @ \cup {part},
                   !.out = <<Chunk("start", "none", part, 0)>>]

Responses(a, e) ==
    CASE e.type = "open" -> Ensure(a, e.part)
      [] e.type = "delta" -> [Ensure(a, e.part) EXCEPT !.out = @ \o <<Chunk("delta", "none", e.part, e.n)>>]
      [] e.type = "close" -> [a EXCEPT !.opened = @ \ {e.part},
                                       !.out = IF e.part \in a.opened THEN <<Chunk("end", "none", e.part, 0)>> ELSE <<>>]
      [] OTHER -> [a EXCEPT !.opened = {},
                            !.out = Finished(Ends(SetToSeq(a.opened), FALSE),
                                             e.type = "failed", a.order = <<>>)]

Translate(e) ==
    CASE proto = "completions" -> Completions(adapter, e)
      [] proto = "anthropic" -> Anthropic(adapter, e)
      [] proto = "responses" -> Responses(adapter, e)

(* The request cannot be sent, or is answered with an error status.         *)
Refused ==
    /\ result = "running" /\ sent = <<>> /\ server = "sending"
    /\ server' = "eof" /\ result' = "error"
    /\ UNCHANGED <<proto, sent, lines, read, adapter, cut, chunks, asm, reply>>

(* consumeSSE dispatches one event; an unreadable one ends the stream.      *)
Handle ==
    /\ result = "running" /\ ~adapter.finished /\ adapter.out = <<>> /\ lines # <<>>
    /\ lines' = Tail(lines)
    /\ IF Head(lines).type = "malformed"
       THEN result' = "error" /\ UNCHANGED adapter
       ELSE /\ adapter' = [Translate(Head(lines)) EXCEPT !.finished = Head(lines).type \in {"done", "failed"}]
            /\ UNCHANGED result
    /\ UNCHANGED <<proto, sent, server, read, cut, chunks, asm, reply>>

(* emitChunk: blocks while the channel is full; once the context is done    *)
(* the chunk may be dropped instead.                                        *)
Emit ==
    /\ result = "running" /\ adapter.out # <<>>
    /\ \/ Len(chunks) < ChunkCap /\ chunks' = Append(chunks, Head(adapter.out))
       \/ cut /\ UNCHANGED chunks
    /\ adapter' = [adapter EXCEPT !.out = Tail(@)]
    /\ UNCHANGED <<proto, sent, server, lines, read, result, cut, asm, reply>>

(* The handler reported the end: consumeSSE returns nil.                    *)
Complete ==
    /\ result = "running" /\ adapter.finished /\ adapter.out = <<>>
    /\ result' = "nil"
    /\ UNCHANGED <<proto, sent, server, lines, read, adapter, cut, chunks, asm, reply>>

(* The other exits of its select: the context; no line in time (the         *)
(* watchdog) or no more lines without a final event; a read error.          *)
Fail ==
    /\ result = "running" /\ ~adapter.finished /\ adapter.out = <<>>
    /\ \/ cut
       \/ lines = <<>>
       \/ server = "broken" /\ read = Len(sent)
    /\ result' = "error"
    /\ UNCHANGED <<proto, sent, server, lines, read, adapter, cut, chunks, asm, reply>>

-----------------------------------------------------------------------------
(* BlockAssembler.  open is openOrder with the blocks it names.             *)

Block(chunk) == [part |-> chunk.part, text |-> IF chunk.type = "delta" THEN <<chunk.n>> ELSE <<>>]

OpenAt(a, id) == {i \in DOMAIN a.open : a.open[i].id = id}

Extend(block, chunk) == [block EXCEPT !.text = Append(@, chunk.n)]

CommitAt(a, i) ==
    [a EXCEPT !.open = SubSeq(@, 1, i - 1) \o SubSeq(@, i + 1, Len(@)),
              !.blocks = Append(@, a.open[i].block)]

CommitLegacy(a) ==
    IF a.legacy = NoBlock THEN a
    ELSE [a EXCEPT !.blocks = Append(@, a.legacy), !.legacy = NoBlock]

BlockStart(a, c) ==
    IF c.id # "none"
    THEN IF OpenAt(a, c.id) # {} THEN a
         ELSE [a EXCEPT !.open = Append(@, [id |-> c.id, block |-> Block(c)])]
    ELSE LET closed == IF a.legacy # NoBlock THEN CommitLegacy(a)
                       ELSE IF a.open # <<>> THEN CommitAt(a, Len(a.open)) ELSE a
         IN [closed EXCEPT !.legacy = Block(c)]

BlockDelta(a, c) ==
    IF c.id # "none"
    THEN IF OpenAt(a, c.id) = {} THEN [a EXCEPT !.open = Append(@, [id |-> c.id, block |-> Block(c)])]
         ELSE [a EXCEPT !.open[Min(OpenAt(a, c.id))].block = Extend(@, c)]
    ELSE IF a.open # <<>> THEN [a EXCEPT !.open[Len(a.open)].block = Extend(@, c)]
    ELSE [a EXCEPT !.legacy = IF @ = NoBlock THEN Block(c) ELSE Extend(@, c)]

BlockEnd(a, c) ==
    IF c.id # "none"
    THEN IF OpenAt(a, c.id) = {} THEN [a EXCEPT !.blocks = Append(@, Block(c))]
         ELSE CommitAt(a, Min(OpenAt(a, c.id)))
    ELSE IF a.open # <<>> THEN CommitAt(a, Len(a.open)) ELSE CommitLegacy(a)

(* The finish flush ranges over the slice while commit shifts it in place:  *)
(* position i reads what commits before it have moved there, so every       *)
(* second of three or more open blocks is passed over.                      *)
Flush(a) ==
    FoldLeft(LAMBDA st, i :
                 LET at == {p \in DOMAIN st.asm.open : st.asm.open[p].id = st.array[i]}
                 IN IF at = {} THEN st
                    ELSE LET p == Min(at) IN
                         [array |-> [k \in DOMAIN st.array |->
                                        IF k >= p /\ k < Len(st.asm.open) THEN st.array[k + 1] ELSE st.array[k]],
                          asm |-> CommitAt(st.asm, p)],
             [array |-> [k \in DOMAIN a.open |-> a.open[k].id], asm |-> a],
             [i \in 1..Len(a.open) |-> i]).asm

IngestChunk(a, c) ==
    CASE c.type = "start" -> BlockStart(a, c)
      [] c.type = "delta" -> BlockDelta(a, c)
      [] c.type = "end" -> BlockEnd(a, c)
      [] OTHER -> [CommitLegacy(Flush(a)) EXCEPT !.finish = c.part]

(* The step loop's receive.                                                 *)
Receive ==
    /\ reply = "pending" /\ chunks # <<>>
    /\ asm' = IngestChunk(asm, Head(chunks))
    /\ chunks' = Tail(chunks)
    /\ UNCHANGED <<proto, sent, server, lines, read, adapter, result, cut, reply>>

(* The channels are closed: the buffered error, if any, is drained before   *)
(* the end is taken for a reply.  With an error, chunks may be left behind. *)
Conclude ==
    /\ reply = "pending"
    /\ \/ result = "error" /\ reply' = "failed"
       \/ result = "nil" /\ chunks = <<>> /\ reply' = IF asm.finish = "error" THEN "failed" ELSE "accepted"
    /\ UNCHANGED <<proto, sent, server, lines, read, adapter, result, cut, chunks, asm>>

Next ==
    \/ ServerSends \/ ServerStops \/ Refused \/ ReadLine \/ Cut \/ Handle \/ Emit \/ Complete \/ Fail
    \/ Receive \/ Conclude

Spec == Init /\ [][Next]_streamVars

-----------------------------------------------------------------------------
(* PROPERTIES                                                               *)

(* What the provider said: each block with its deltas, in opening order.    *)
Said ==
    LET firsts == {i \in DOMAIN sent : sent[i].part # "none" /\ \A j \in 1..(i - 1) : sent[j].part # sent[i].part}
        order == SetToSortSeq(firsts, <)
        Text(part) == LET ds == SelectSeq(sent, LAMBDA e : e.type = "delta" /\ e.part = part)
                      IN [i \in 1..Len(ds) |-> ds[i].n]
    IN [k \in 1..Len(order) |-> [part |-> sent[order[k]].part, text |-> Text(sent[order[k]].part)]]

(* A reply the step loop accepts is the whole of what the provider said and *)
(* finished saying, block by block: no delta lost, duplicated or put into   *)
(* another call's arguments, however the deltas interleave and whichever    *)
(* exit the event loop's select takes.  (After the context is done chunks   *)
(* are dropped; the reply counts only while it is not.)                     *)
ReplyWhole == reply = "accepted" /\ ~cut => server = "finished" /\ asm.blocks = Said
==============================================================================
