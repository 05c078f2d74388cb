------------------------- MODULE HistoryProjection -------------------------
(***************************************************************************)
(* The messages of a conversation, the durable events that a turn leaves   *)
(* of them, and AgentStateProjector (host-session/src/projection.rs), which *)
(* rebuilds the messages from the events for the next turn.                *)
(*                                                                         *)
(* A text is the number of the model reply it came from, 0 for none.  A    *)
(* call is [id, tool].  The content of a tool result is its form: as it    *)
(* came ("small", "big") or what a pass of the context window made of it.  *)
(***************************************************************************)
EXTENDS Naturals, Sequences, FiniteSets, SequencesExt

(* LlmMessage. *)
UserMsg(origin, n) == [kind |-> "user", origin |-> origin, n |-> n]
AssistantMsg(text, calls) ==
    [kind |-> "assistant", text |-> text, calls |-> calls]
ToolMsg(call, form) == [kind |-> "tool", call |-> call, form |-> form]
Summary == UserMsg("CompactSummary", 0)

(* StorageEventPayload, the members that a projection reads.  A            *)
(* ToolCallDelta is ignored by it and kept for its place in the log.       *)
UserEvent(origin, n) == [type |-> "UserMessage", origin |-> origin, n |-> n]
AssistantFinal(text) == [type |-> "AssistantFinal", text |-> text]
ToolCall(call) == [type |-> "ToolCall", call |-> call]
ToolCallDelta(call) == [type |-> "ToolCallDelta", call |-> call]
ToolResult(call, form) ==
    [type |-> "ToolResult", call |-> call, form |-> form]
ReferenceApplied(call) == [type |-> "ToolResultReferenceApplied", call |-> call]
CompactApplied(preserved, removed) ==
    [type |-> "CompactApplied", preserved |-> preserved, removed |-> removed]
TurnDone(kind) == [type |-> "TurnDone", terminal |-> kind]
ErrorEvent == [type |-> "Error"]

IsTool(m) == m.kind = "tool"
IsRealUser(m) == m.kind = "user" /\ m.origin = "User"
RealUsers(ms) == {i \in DOMAIN ms : IsRealUser(ms[i])}
NthFromEnd(S, n) == CHOOSE i \in S : Cardinality({j \in S : j >= i}) = n
CallsNamed(ms) ==
    UNION {Range(ms[i].calls) : i \in {j \in DOMAIN ms : ms[j].kind = "assistant"}}

EmptyProjector == [messages |-> <<>>, content |-> <<>>, calls |-> <<>>]

(* mutant: calls without a text are not flushed *)
FlushPending_TextOnly(p) ==
    IF p.content = <<>> THEN p
    ELSE [messages |-> Append(p.messages, AssistantMsg(p.content[1], p.calls)),
          content |-> <<>>, calls |-> <<>>]

FlushPending(p) ==
    IF p.content = <<>> /\ p.calls = <<>> THEN p
    ELSE [messages |-> Append(p.messages,
              AssistantMsg(IF p.content = <<>> THEN 0 ELSE p.content[1], p.calls)),
          content |-> <<>>, calls |-> <<>>]

Snapshot(p) == FlushPending(p).messages

RecentTurnStart(ms, preserved) ==
    LET users == RealUsers(ms)
        wanted == IF preserved = 0 THEN 1 ELSE preserved
    IN  IF users = {} THEN Len(ms) + 1
        ELSE NthFromEnd(users,
                 IF wanted > Cardinality(users) THEN Cardinality(users) ELSE wanted)

ApplyCompaction(ms, preserved, removed) ==
    LET gone == IF removed \in 1..Len(ms) THEN removed
                ELSE RecentTurnStart(ms, preserved) - 1
    IN  IF gone = 0 THEN ms
        ELSE <<Summary>> \o SubSeq(ms, gone + 1, Len(ms))

(* mutant: the reference to the file is not put into the history *)
Referenced_Ignored(ms, call) == ms

Referenced(ms, call) ==
    LET at == {i \in DOMAIN ms : IsTool(ms[i]) /\ ms[i].call = call}
    IN  IF at = {} THEN ms
        ELSE [ms EXCEPT ![NthFromEnd(at, 1)].form = "persisted"]

AddMessage(p, m) == [p EXCEPT !.messages = Append(@, m)]

(* Origins of messages that keep a turn going and are not projected.       *)
Internal == {"ReactivationPrompt", "ContinuationPrompt"}

(* mutant: a text does not end the assistant message before it *)
ApplyEvent_TextKeepsOpen(p, e) ==
    CASE e.type = "UserMessage" /\ e.origin \in Internal -> FlushPending(p)
      [] e.type = "UserMessage" /\ e.origin \notin Internal ->
            AddMessage(FlushPending(p), UserMsg(e.origin, e.n))
      [] e.type = "AssistantFinal" -> [p EXCEPT !.content = <<e.text>>]
      [] e.type = "ToolCall" -> [p EXCEPT !.calls = Append(@, e.call)]
      [] e.type = "ToolResult" -> AddMessage(FlushPending(p), ToolMsg(e.call, e.form))
      [] OTHER -> p

ApplyEvent(p, e) ==
    CASE e.type = "UserMessage" /\ e.origin \in Internal -> FlushPending(p)
      [] e.type = "UserMessage" /\ e.origin \notin Internal ->
            AddMessage(FlushPending(p), UserMsg(e.origin, e.n))
      [] e.type = "AssistantFinal" -> [FlushPending(p) EXCEPT !.content = <<e.text>>]
      [] e.type = "ToolCall" -> [p EXCEPT !.calls = Append(@, e.call)]
      [] e.type = "ToolResult" -> AddMessage(FlushPending(p), ToolMsg(e.call, e.form))
      [] e.type = "ToolResultReferenceApplied" ->
            [p EXCEPT !.messages = Referenced(@, e.call)]
      [] e.type = "CompactApplied" ->
            [FlushPending(p) EXCEPT !.messages = ApplyCompaction(@, e.preserved, e.removed)]
      [] e.type = "TurnDone" -> FlushPending(p)
      [] OTHER -> p

Project(p, events) ==
    LET after[k \in 0..Len(events)] ==
            IF k = 0 THEN p ELSE ApplyEvent(after[k - 1], events[k])
    IN  after[Len(events)]
=============================================================================
