------------------------------ MODULE Transcript ------------------------------
(***************************************************************************)
(* The blocks of a turn, as ConversationDeltaProjector makes them from     *)
(* durable records and live events (server/src/read_model/conversation),   *)
(* and as the terminal client keeps them from the frames it is sent        *)
(* (cli/src/state/conversation.rs).                                        *)
(*                                                                         *)
(* A text or an output is a sequence of pieces.  Thinking blocks go        *)
(* through the same code as assistant blocks and are left out; so are what *)
(* a tool block says beside its output and its status, and notes, metrics  *)
(* and panels, which no delta is appended to.                              *)
(***************************************************************************)
EXTENDS Naturals, Sequences, SequencesExt, FiniteSetsExt

Assistant(n) == <<"assistant", n>>
Tool(call) == <<"tool", call>>

Block(id, body, status) == [id |-> id, body |-> body, status |-> status]
HasBlock(blocks, id) == \E k \in DOMAIN blocks : blocks[k].id = id

\* block_index and transcript_index know the last block of an id.
IndexOf(blocks, id) == Max({k \in DOMAIN blocks : blocks[k].id = id})
Body(blocks, id) == blocks[IndexOf(blocks, id)].body
WithBody(blocks, id, body) == [blocks EXCEPT ![IndexOf(blocks, id)].body = body]
WithStatus(blocks, id, status) == [blocks EXCEPT ![IndexOf(blocks, id)].status = status]

\* current, pending, historical and count are the assistant's TurnBlockRefs,
\* 0 stands for None; unmatched is how much live output of each call has not
\* been met by its durable twin.
EmptyProjector ==
    [blocks |-> <<>>, current |-> 0, pending |-> <<>>, historical |-> {},
     count |-> 0, unmatched |-> [call \in {} |-> 0]]

-----------------------------------------------------------------------------
(* Every operation gives the projector and the frames it sends.            *)
Result(p, frames) == [projector |-> p, frames |-> frames]
Nothing(p) == Result(p, <<>>)
After(first, then) == Result(then.projector, first.frames \o then.frames)

PushBlock(p, block) ==
    Result([p EXCEPT !.blocks = Append(@, block)], <<[op |-> "block", block |-> block]>>)

Complete(p, id) ==
    IF p.blocks[IndexOf(p.blocks, id)].status = "complete" THEN Nothing(p)
    ELSE Result([p EXCEPT !.blocks = WithStatus(@, id, "complete")],
                <<[op |-> "complete", id |-> id]>>)

CurrentOrNext(p) ==
    IF p.current # 0 THEN p ELSE [p EXCEPT !.count = @ + 1, !.current = p.count + 1]

AppendStreaming(p, delta) ==
    LET q == CurrentOrNext(p)
        id == Assistant(q.current)
    IN  IF HasBlock(q.blocks, id)
        THEN Result([q EXCEPT !.blocks = WithBody(@, id, Body(@, id) \o delta)],
                    <<[op |-> "append_text", id |-> id, text |-> delta]>>)
        ELSE PushBlock(q, Block(id, delta, "streaming"))

ReplaceMarkdown(p, id, text) ==
    Result([p EXCEPT !.blocks = WithBody(@, id, text)],
           <<[op |-> "replace_text", id |-> id, text |-> text]>>)

\* What a failed attempt has streamed is taken back.
ResetDraft(p) ==
    LET id == Assistant(p.current) IN
    IF p.current = 0 \/ Body(p.blocks, id) = <<>> THEN Nothing(p)
    ELSE ReplaceMarkdown(p, id, <<>>)

EnsureFull(p, id, text) ==
    LET existing == Body(p.blocks, id) IN
    CASE ~HasBlock(p.blocks, id) -> PushBlock(p, Block(id, text, "streaming"))
      [] HasBlock(p.blocks, id) /\ existing = text -> Nothing(p)
      [] HasBlock(p.blocks, id) /\ IsStrictPrefix(existing, text) ->
            Result([p EXCEPT !.blocks = WithBody(@, id, text)],
                   <<[op |-> "append_text", id |-> id,
                      text |-> SubSeq(text, Len(existing) + 1, Len(text))]>>)
      [] OTHER -> ReplaceMarkdown(p, id, text)

\* Bug: the draft under way is taken for the one whose text has come.
Finalize_Current(p, text) ==
    LET q == CurrentOrNext(p)
        full == EnsureFull(q, Assistant(q.current), text)
    IN  After(full, Complete(full.projector, Assistant(q.current)))

\* The text of a step belongs to the oldest draft that a tool call has ended,
\* and if there is none to the one under way.
Finalize(p, text) ==
    LET waiting == p.pending # <<>>
        q == IF waiting THEN [p EXCEPT !.pending = Tail(@)] ELSE CurrentOrNext(p)
        id == Assistant(IF waiting THEN Head(p.pending) ELSE q.current)
        full == EnsureFull(q, id, text)
    IN  After(full, Complete(full.projector, id))

-----------------------------------------------------------------------------
Split(p, isLive) ==
    IF p.current = 0 THEN p
    ELSE IF isLive THEN [p EXCEPT !.pending = Append(@, p.current), !.current = 0]
    ELSE [p EXCEPT !.historical = @ \cup {p.current}, !.current = 0]

StartTool(p, call, isLive) ==
    IF HasBlock(p.blocks, Tool(call)) THEN Nothing(p)
    ELSE PushBlock([Split(p, isLive) EXCEPT !.unmatched = @ @@ (call :> 0)],
                   Block(Tool(call), <<>>, "streaming"))

\* Bug: what has been shown live is not taken off.
Reconcile_Twice(unmatched, chunk, isLive) ==
    [show |-> chunk, unmatched |-> unmatched]

\* reconcile_tool_chunk: a durable chunk shows what no live one has shown.
Reconcile(unmatched, chunk, isLive) ==
    IF isLive THEN [show |-> chunk, unmatched |-> unmatched + Len(chunk)]
    ELSE LET consumed == Min({unmatched, Len(chunk)}) IN
         [show |-> SubSeq(chunk, consumed + 1, Len(chunk)), unmatched |-> unmatched - consumed]

AppendToolStream(p, call, chunk, isLive) ==
    LET started == StartTool(p, call, isLive)
        q == started.projector
        r == Reconcile(q.unmatched[call], chunk, isLive)
        counted == [q EXCEPT !.unmatched[call] = r.unmatched]
    IN  IF r.show = <<>> THEN Result(counted, started.frames)
        ELSE After(started,
                   Result([counted EXCEPT !.blocks =
                               WithBody(@, Tool(call), Body(@, Tool(call)) \o r.show)],
                          <<[op |-> "append_output", id |-> Tool(call), text |-> r.show]>>))

CompleteTool(p, call, isLive) ==
    LET started == StartTool(p, call, isLive)
        q == started.projector
        met == IF isLive THEN q ELSE [q EXCEPT !.unmatched[call] = 0]
    IN  After(started, Complete(met, Tool(call)))

\* complete_turn.
CompleteTurn(p) ==
    LET ids == {Assistant(n) : n \in p.historical \cup ToSet(p.pending) \cup ({p.current} \ {0})}
                   \cup {Tool(call) : call \in DOMAIN p.unmatched}
        ready == {k \in DOMAIN p.blocks : p.blocks[k].id \in ids /\ p.blocks[k].status = "streaming"}
    IN  Result([p EXCEPT !.blocks =
                   [k \in DOMAIN @ |-> IF k \in ready THEN [@[k] EXCEPT !.status = "complete"]
                                       ELSE @[k]]],
               [k \in 1..Cardinality(ready) |->
                   [op |-> "complete", id |-> p.blocks[SetToSeq(ready)[k]].id]])

AppendError(p) ==
    IF HasBlock(p.blocks, <<"error", 0>>) THEN Nothing(p)
    ELSE PushBlock(p, Block(<<"error", 0>>, <<>>, "complete"))

\* project_event.  A plan tool has no block of its own; its result is a plan.
Project(p, e, isLive) ==
    CASE e.type = "text" -> AppendStreaming(p, e.text)
      [] e.type = "retry" /\ isLive -> ResetDraft(p)
      [] e.type = "final" /\ ~isLive -> Finalize(p, e.text)
      [] e.type = "start" /\ e.kind = "shown" -> StartTool(p, e.call, isLive)
      [] e.type = "output" /\ e.kind = "shown" -> AppendToolStream(p, e.call, e.text, isLive)
      [] e.type = "result" /\ e.kind = "shown" -> CompleteTool(p, e.call, isLive)
      [] e.type = "result" /\ e.kind = "plan" ->
            PushBlock(p, Block(<<"plan", e.call>>, <<>>, "complete"))
      [] e.type = "error" /\ ~isLive -> AppendError(p)
      [] e.type = "done" /\ ~isLive -> CompleteTurn(p)
      [] OTHER -> Nothing(p)

\* A sequence of durable records, as for a snapshot or a replay; framed is how
\* many there are up to the last that has yielded a frame.
ProjectAll(p, records) ==
    FoldLeft(LAMBDA r, e :
                LET one == Project(r.projector, e, FALSE) IN
                [projector |-> one.projector, frames |-> r.frames \o one.frames, read |-> r.read + 1,
                 framed |-> IF one.frames = <<>> THEN r.framed ELSE r.read + 1],
             [projector |-> p, frames |-> <<>>, read |-> 0, framed |-> 0], records)

-----------------------------------------------------------------------------
(* The client.                                                             *)

\* normalize_markdown_append: text that repeats the end of what is there, or
\* begins with all of it, is taken for a repetition.
NormalizedAppend(shown, incoming) ==
    IF IsPrefix(shown, incoming) THEN incoming
    ELSE LET overlap == Max({n \in 0..Min({Len(shown), Len(incoming)}) :
                                IsSuffix(SubSeq(incoming, 1, n), shown)})
         IN  shown \o SubSeq(incoming, overlap + 1, Len(incoming))

\* apply_delta and apply_block_patch.
ApplyFrame(blocks, f) ==
    CASE f.op = "block" -> Append(blocks, f.block)
      [] f.op # "block" /\ ~HasBlock(blocks, f.id) -> blocks
      [] f.op = "append_text" /\ HasBlock(blocks, f.id) ->
            WithBody(blocks, f.id, NormalizedAppend(Body(blocks, f.id), f.text))
      [] f.op = "replace_text" /\ HasBlock(blocks, f.id) -> WithBody(blocks, f.id, f.text)
      [] f.op = "append_output" /\ HasBlock(blocks, f.id) ->
            WithBody(blocks, f.id, Body(blocks, f.id) \o f.text)
      [] OTHER -> WithStatus(blocks, f.id, "complete")

ApplyFrames(blocks, frames) == FoldLeft(ApplyFrame, blocks, frames)
=============================================================================
