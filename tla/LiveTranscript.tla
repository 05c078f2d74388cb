---------------------------- MODULE LiveTranscript ----------------------------
(***************************************************************************)
(* A turn on its way to one client.  The runtime event bridge              *)
(* (server/src/runtime_bridge/session_port/adapter.rs) takes the events of *)
(* the runtime loop one by one, broadcasts them live and then has them     *)
(* stored, which broadcasts the durable record; the client's stream        *)
(* (server/src/http/routes/conversation.rs) selects from the two receivers *)
(* in any order and projects both with one projector.                      *)
(*                                                                         *)
(* RuntimeLoop says which events a turn emits and in what order.  A record *)
(* is stored and broadcast in one step here, and the client's frames are   *)
(* applied as they are sent; SessionState and ConversationStream have what *)
(* may come between.                                                       *)
(***************************************************************************)
EXTENDS Transcript

CONSTANTS
    Texts,            \* what the model may say in a step, as sequences of deltas
    Drafts,           \* what its failed attempts at a step may have said before
    Batches,          \* the tool calls a step may have, by kind: "shown", "plan"
    ChunkSizes,       \* sizes of the pieces of output of a tool
    MaxSteps,         \* bound: steps of the turn
    MaxOutputs,       \* bound: pieces of output in a step
    LiveCapacity, DurableCapacity,  \* of the two broadcast channels
    MaxLags           \* bound: how often a receiver loses something

ASSUME LiveSettings ==
    {MaxSteps, MaxOutputs, MaxLags} \subseteq Nat /\ {LiveCapacity, DurableCapacity} \subseteq Nat \ {0}

VARIABLES
    script,     \* the events of the step that the bridge has not finished
    half,       \* whether the first of them has been broadcast live
    steps,      \* the steps of the turn, as they were chosen
    log,        \* the durable records of the turn
    sent,       \* number of events the bridge has finished
    live,       \* what the stream's live receiver holds, with the number of each
    durable,    \* what its durable receiver holds: positions in the log
    lags,       \* receivers that have lost something, and how often in all
    stage,      \* where the stream stands
    cursor,     \* last_sent_cursor
    history,    \* what has been read from the log and not projected
    mark,       \* <<sent, half>> when it was read
    projector,  \* the stream's projector
    shown,      \* the client's transcript
    lost        \* for the properties: why the client may be shown something else

turn == <<script, half, steps, log, sent>>
channels == <<live, durable, lags>>
stream == <<stage, cursor, history, mark, projector, shown>>
vars == <<turn, channels, stream, lost>>

\* Which events the bridge broadcasts live, and which are stored.
Broadcast == {"text", "retry", "start", "output", "result", "error", "done"}
Stored == {"start", "output", "result", "final", "error", "done"}

Init ==
    /\ script = <<>> /\ half = FALSE /\ steps = <<>> /\ log = <<>> /\ sent = 0
    /\ live = <<>> /\ durable = <<>> /\ lags = [live |-> FALSE, durable |-> FALSE, all |-> 0]
    /\ stage = "new" /\ cursor = 0 /\ history = <<>> /\ mark = <<0, FALSE>>
    /\ projector = EmptyProjector /\ shown = <<>> /\ lost = {}

-----------------------------------------------------------------------------
(* What the loop sends to the bridge for a step.                           *)
Event(type) == [type |-> type]
Deltas(text) == [k \in DOMAIN text |-> [type |-> "text", text |-> <<text[k]>>]]
Attempted(draft) == IF draft = <<>> THEN <<>> ELSE Append(Deltas(draft), Event("retry"))

Calls(batch) == [k \in DOMAIN batch |-> [call |-> <<Len(steps) + 1, k>>, kind |-> batch[k]]]
CallEvents(type, calls) ==
    [k \in DOMAIN calls |-> [type |-> type, call |-> calls[k].call, kind |-> calls[k].kind]]
\* Pieces of output, each known by its place among those of the step.
OutputEvents(calls, order) ==
    [k \in DOMAIN order |->
        [type |-> "output", call |-> calls[order[k][1]].call, kind |-> calls[order[k][1]].kind,
         text |-> [i \in 1..order[k][2] |-> <<k, i>>]]]

Over == steps # <<>> /\ steps[Len(steps)].outcome # "goes_on"

Ending(outcome) ==
    CASE outcome = "goes_on" -> <<>>
      [] outcome \in {"refused", "broken"} -> <<Event("error"), Event("done")>>
      [] OTHER -> <<Event("done")>>

\* A step goes on after its tool calls or when its text is cut at the limit; it
\* is refused when no attempt of the model succeeds; while its tools run it may be
\* cut off by a cancellation or broken by an error.
BeginStep ==
    /\ script = <<>> /\ ~Over
    /\ \E text \in Texts, draft \in Drafts, batch \in Batches,
         outcome \in {"goes_on", "completed", "refused", "cut_off", "broken"} :
       \E order \in SeqOf({k \in DOMAIN batch : batch[k] = "shown"} \X ChunkSizes, MaxOutputs) :
        LET calls == Calls(batch)
            final == IF text = <<>> THEN <<>> ELSE <<[type |-> "final", text |-> text]>>
        IN  /\ outcome = "goes_on" => Len(steps) + 1 < MaxSteps /\ (text # <<>> \/ batch # <<>>)
            /\ outcome = "refused" => text = <<>> /\ batch = <<>>
            /\ outcome = "completed" => batch = <<>>
            /\ outcome \in {"cut_off", "broken"} => batch # <<>>
            /\ script' =
                IF outcome = "refused" THEN Deltas(draft) \o Ending(outcome)
                ELSE Attempted(draft) \o Deltas(text) \o CallEvents("start", calls)
                     \o OutputEvents(calls, order)
                     \o (IF outcome = "goes_on" THEN CallEvents("result", calls) ELSE <<>>)
                     \o final \o Ending(outcome)
            /\ steps' = Append(steps, [text |-> text, draft |-> draft, batch |-> batch,
                                       outcome |-> outcome])
    /\ UNCHANGED <<half, log, sent, channels, stream, lost>>

-----------------------------------------------------------------------------
(* The bridge.  A channel that is full forgets its oldest entry, which its *)
(* receiver is told when it comes to read.                                 *)
Send(channel, entry, capacity) ==
    IF Len(channel) < capacity THEN Append(channel, entry) ELSE Append(Tail(channel), entry)

Subscribed == stage = "open"
MayLag == lags.all < MaxLags

Finish ==
    /\ script' = Tail(script) /\ half' = FALSE /\ sent' = sent + 1

BroadcastLive ==
    /\ script # <<>> /\ ~half /\ Head(script).type \in Broadcast
    /\ Subscribed =>
          /\ Len(live) = LiveCapacity => MayLag
          /\ live' = Send(live, [n |-> sent, event |-> Head(script)], LiveCapacity)
          /\ lags' = IF Len(live) = LiveCapacity
                     THEN [lags EXCEPT !.live = TRUE, !.all = @ + 1] ELSE lags
    /\ ~Subscribed => UNCHANGED <<live, lags>>
    /\ IF Head(script).type \in Stored THEN half' = TRUE /\ UNCHANGED <<script, sent>> ELSE Finish
    /\ UNCHANGED <<steps, log, durable, stream, lost>>

Persist ==
    /\ script # <<>> /\ (half \/ Head(script).type \notin Broadcast)
    /\ log' = Append(log, Head(script))
    /\ Subscribed =>
          /\ Len(durable) = DurableCapacity => MayLag
          /\ durable' = Send(durable, [n |-> sent, record |-> Len(log) + 1], DurableCapacity)
          /\ lags' = IF Len(durable) = DurableCapacity
                     THEN [lags EXCEPT !.durable = TRUE, !.all = @ + 1] ELSE lags
    /\ ~Subscribed => UNCHANGED <<durable, lags>>
    /\ Finish
    /\ UNCHANGED <<steps, live, stream, lost>>

-----------------------------------------------------------------------------
(* The client and its stream.                                              *)
Hydrate ==
    /\ stage = "new"
    /\ shown' = ProjectAll(EmptyProjector, log).projector.blocks
    /\ projector' = ProjectAll(EmptyProjector, log).projector
    /\ cursor' = Len(log)
    /\ stage' = "hydrated"
    /\ UNCHANGED <<turn, channels, history, mark, lost>>

\* build_terminal_stream_facts reads the records after the cursor ...
Replay ==
    /\ stage \in {"hydrated", "lagged"}
    /\ history' = SubSeq(log, cursor + 1, Len(log))
    /\ mark' = <<sent, half>>
    /\ stage' = "replayed"
    /\ UNCHANGED <<turn, channels, cursor, projector, shown, lost>>

\* The records after a position of the log are projected; the cursor follows
\* those that yield a frame.
Sends(records, after) ==
    LET r == ProjectAll(projector, records) IN
    /\ projector' = r.projector
    /\ shown' = ApplyFrames(shown, r.frames)
    /\ cursor' = IF r.framed = 0 THEN cursor ELSE after + r.framed

\* ... and subscribes when it has gathered the rest; then the records are
\* projected (seed_initial_replay, recover_from).  Events that passed in between
\* are lost, and so is the live half of one; of what was before the records only.
Subscribe ==
    /\ stage = "replayed"
    /\ Sends(history, cursor)
    /\ live' = <<>> /\ durable' = <<>>
    /\ lags' = [lags EXCEPT !.live = FALSE, !.durable = FALSE]
    /\ lost' = lost \cup (IF mark = <<sent, half>> THEN {} ELSE {"gap"})
                    \cup (IF half THEN {"half"} ELSE {})
                    \cup (IF sent = 0 THEN {} ELSE {"late"})
    /\ history' = <<>> /\ mark' = <<0, FALSE>>
    /\ stage' = "open"
    /\ UNCHANGED turn

ReceiveDurable ==
    /\ stage = "open" /\ durable # <<>> /\ ~lags.durable
    /\ LET next == Head(durable) IN
       /\ Sends(<<log[next.record]>>, next.record - 1)
       /\ lost' = lost \cup
             (IF \E k \in DOMAIN live : live[k].n <= next.n THEN {"overtaken"} ELSE {})
    /\ durable' = Tail(durable)
    /\ UNCHANGED <<turn, live, lags, stage, history, mark>>

ReceiveLive ==
    /\ stage = "open" /\ live # <<>> /\ ~lags.live
    /\ LET r == Project(projector, Head(live).event, TRUE) IN
       /\ projector' = r.projector
       /\ shown' = ApplyFrames(shown, r.frames)
    /\ live' = Tail(live)
    /\ UNCHANGED <<turn, durable, lags, stage, cursor, history, mark, lost>>

\* RecvError::Lagged: the durable receiver has the stream rebuilt from its
\* cursor, on the same projector; the live one goes on.
DurableLagged ==
    /\ stage = "open" /\ lags.durable
    /\ stage' = "lagged"
    /\ lost' = lost \cup {"lag"}
    /\ UNCHANGED <<turn, channels, cursor, history, mark, projector, shown>>

LiveLagged ==
    /\ stage = "open" /\ lags.live
    /\ lags' = [lags EXCEPT !.live = FALSE]
    /\ lost' = lost \cup {"lag"}
    /\ UNCHANGED <<turn, live, durable, stream>>

Next ==
    \/ BeginStep \/ BroadcastLive \/ Persist
    \/ Hydrate \/ Replay \/ Subscribe
    \/ ReceiveDurable \/ ReceiveLive \/ DurableLagged \/ LiveLagged

Spec == Init /\ [][Next]_vars
-----------------------------------------------------------------------------
Settled ==
    /\ Over /\ script = <<>>
    /\ stage = "open" /\ live = <<>> /\ durable = <<>> /\ ~lags.durable

Repeats(text) == Cardinality(ToSet(text)) < Len(text)
HasBoundary(step) == "shown" \in ToSet(step.batch)

\* Turns whose texts the projector and the client can keep apart: see the
\* disagreements listed in the README.
Regular ==
    /\ \A k \in DOMAIN steps :
          /\ ~Repeats(steps[k].text) /\ steps[k].outcome # "refused"
          /\ steps[k].draft # <<>> => steps[k].text # <<>>
    /\ \A k \in 1..(Len(steps) - 1) : steps[k].text # <<>> => HasBoundary(steps[k])

IsAssistant(block) == block.id[1] = "assistant"
Said == SelectSeq([k \in DOMAIN steps |-> steps[k].text], LAMBDA text : text # <<>>)
ShownTexts == LET own == SelectSeq(shown, IsAssistant) IN [k \in DOMAIN own |-> own[k].body]

\* A client that has received everything is shown the texts of the turn, each
\* once, whole and in order, without what failed attempts have left, and nothing
\* still streaming: for any lead of the live events over the durable records, if
\* no record has overtaken its event and nothing was lost.
TextsShown ==
    Settled /\ lost = {} /\ Regular =>
        /\ ShownTexts = Said /\ \A k \in DOMAIN shown : shown[k].status = "complete"

OutputOf(call, events) ==
    FoldLeft(LAMBDA text, e : IF e.type = "output" /\ e.call = call THEN text \o e.text ELSE text,
             <<>>, events)
Emitted(call) == OutputOf(call, log \o (IF half THEN <<Head(script)>> ELSE <<>>))

\* At any moment the client is shown a beginning of a tool's output, no piece of
\* it twice, and in the end all of it, although every piece comes over both
\* channels, and live ones may be far ahead.
OutputOnce ==
    lost \subseteq {"late"} =>
        \A k \in DOMAIN shown : shown[k].id[1] = "tool" =>
            LET call == shown[k].id[2] IN
            /\ IsPrefix(shown[k].body, Emitted(call))
            /\ Settled => shown[k].body = Emitted(call)
=============================================================================
