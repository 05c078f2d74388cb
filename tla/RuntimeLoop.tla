----------------------------- MODULE RuntimeLoop -----------------------------
(***************************************************************************)
(* The turns of one session as the runtime loop takes them                 *)
(* (agent-runtime/src/loop.rs, context_window/request.rs): hooks, the      *)
(* assembly of a request with its compaction, the reply of the model, the  *)
(* tool calls that run at the same time, and the events that reach the     *)
(* event sink and through it the session's log and projector.              *)
(*                                                                         *)
(* The messages a turn works on are live; they are gone when it ends, and  *)
(* the next turn starts from what the projector has rebuilt.               *)
(*                                                                         *)
(* The loop looks at a CancelToken (:396, :658) and gives it to the model  *)
(* and, another one, to the tools.  These tokens are made with the turn    *)
(* (types.rs:98, adapter.rs:365), no caller has a copy, and nobody cancels *)
(* them; what the loop does with a cancelled one is left out.  A hook may  *)
(* still cancel the turn.                                                  *)
(***************************************************************************)
EXTENDS ContextWindow

CONSTANTS
    MaxTurns,          \* bound: turns of the session
    MaxCalls,          \* bound: tool calls of the session
    MaxBatch,          \* bound: tool calls of one reply
    MaxPrompts,        \* bound: prompts that hooks add
    MaxDeltas,         \* bound: output deltas of one batch
    MaxReplies,        \* bound: replies of the model in one turn
    MaxContinuations,  \* max_output_continuations
    MaxRetry,          \* compact_max_retry_attempts
    AutoCompact,       \* auto_compact_enabled
    Surfaces,          \* [provider, tools]: which of the two a turn has
    Tools,             \* tools the model may call
    Forms,             \* forms of the results of tools that succeed
    MaxUpsets          \* bound: what befalls the turns, see Upset

ASSUME LoopSettings ==
    /\ {MaxTurns, MaxCalls, MaxBatch, MaxPrompts, MaxDeltas, MaxReplies,
        MaxContinuations, MaxRetry, MaxUpsets} \subseteq Nat
    /\ Forms \subseteq DOMAIN Weight

VARIABLES
    pc,         \* where the loop stands
    turn,       \* number of the turn, and of its prompt
    surface,    \* what the turn was given
    live,       \* TurnExecutionContext::messages
    exec,       \* counters and states of TurnExecutionContext
    pending,    \* pending_events, those that are stored
    emitted,    \* events the sink has had of this turn
    output,     \* emitted_events, returned in TurnOutput
    proj,       \* AgentStateProjector of the session
    replaced,   \* calls with a ToolResultReferenceApplied in the log
    comp,       \* the compaction that is under way
    tools,      \* the tool calls that are under way
    stop,       \* stop cause
    upsets,     \* how often something has befallen the turns
    ghost       \* for the properties: see Init

hostVars == <<turn, surface>>
sinkVars == <<emitted, output, proj, replaced>>
vars == <<pc, turn, surface, live, exec, pending, emitted, output, proj,
          replaced, comp, tools, stop, upsets, ghost>>

(* mutant: tool calls wait for the flush *)
Immediate_NotCalls(e) == e.type \in {"ToolCallDelta", "ToolResult"}

Immediate(e) == e.type \in {"ToolCall", "ToolCallDelta", "ToolResult"}
References(events) ==
    {events[k].call : k \in {j \in DOMAIN events :
        events[j].type = "ToolResultReferenceApplied"}}
(* mutant: what has been emitted at once is emitted again *)
Delayed_All(events) == events

Delayed(events) == Selected(events, {k \in DOMAIN events : ~Immediate(events[k])})
NoTools == [calls |-> <<>>, next |-> 1, allowed |-> {}, running |-> {},
            results |-> <<>>, channel |-> <<>>, deltas |-> 0]
NoCompaction == [source |-> <<>>, prefix |-> <<>>, suffix |-> <<>>, keep |-> 0,
                 contract |-> 0, salvage |-> 0, reactive |-> FALSE]

(* TurnExecutionContext::new.                                              *)
NewContext(messages, gap) ==
    [continuations |-> 0, attempts |-> 0, replaced |-> replaced, frozen |-> {},
     micro |-> SeedMicro(messages, gap), reads |-> FALSE, replies |-> 0]

(* ghost: calls and prompts made, the calls of which the log has not both  *)
(* the call and the result, whether what is rebuilt may be off, and how    *)
(* often this turn was compacted.                                          *)
Init ==
    /\ pc = "idle" /\ turn = 0 /\ surface \in Surfaces
    /\ live = <<>> /\ replaced = {} /\ exec = NewContext(<<>>, FALSE)
    /\ pending = <<>> /\ emitted = <<>> /\ output = <<>> /\ proj = EmptyProjector
    /\ comp = NoCompaction /\ tools = NoTools
    /\ stop = "none" /\ upsets = 0
    /\ ghost = [calls |-> 0, prompts |-> 0, loose |-> {}, inexact |-> FALSE, compacted |-> 0]

-----------------------------------------------------------------------------
(* Events *)
Push(events) ==
    /\ pending' = pending \o events
    /\ UNCHANGED sinkVars

PushImmediate(events) ==
    /\ emitted' = emitted \o events
    /\ proj' = Project(proj, events)
    /\ pending' = pending \o events
    /\ UNCHANGED <<output, replaced>>

(* flush_pending_events, after events that are emitted at once.            *)
FlushAfter(now, events) ==
    \E all \in {pending \o now \o events}, late \in {now \o Delayed(pending \o events)} :
        /\ emitted' = emitted \o late
        /\ proj' = Project(proj, late)
        /\ replaced' = replaced \cup References(all)
        /\ output' = output \o all
        /\ pending' = <<>>

(* The three outcomes of a step, and finalize_turn.                        *)
Completed(cause, events) ==
    /\ pc' = "turn_end" /\ stop' = cause
    /\ Push(events)

Terminal(cause) ==
    (IF cause = "Error" THEN <<ErrorEvent>> ELSE <<>>) \o <<TurnDone(cause)>>

FinalizeAfter(now, cause, events) ==
    /\ pc' = "idle" /\ stop' = cause
    /\ FlushAfter(now, events \o Terminal(cause))

FinalizeTurn(cause, events) == FinalizeAfter(<<>>, cause, events)
Fail(events) == FinalizeTurn("Error", events)

Continued(events) ==
    /\ pc' = "context"
    /\ FlushAfter(<<>>, events)
    /\ UNCHANGED stop

-----------------------------------------------------------------------------
(* A turn begins: the host stores the prompt and builds the messages from  *)
(* the snapshot of the projector.                                          *)
NewTurn ==
    /\ pc = "idle" /\ turn < MaxTurns
    /\ turn' = turn + 1
    /\ proj' = ApplyEvent(proj, UserEvent("User", turn + 1))
    /\ live' = Append(Snapshot(proj), UserMsg("User", turn + 1))
    /\ \E gap \in BOOLEAN : exec' = NewContext(live', gap)
    /\ surface' \in Surfaces
    /\ pending' = <<>> /\ emitted' = <<>> /\ output' = <<>>
    /\ pc' = "turn_start" /\ stop' = "none"
    /\ comp' = NoCompaction /\ tools' = NoTools
    /\ ghost' = [ghost EXCEPT !.compacted = 0]
    /\ UNCHANGED replaced

(* dispatch_runtime_hook: prompts first, then what ends the dispatch.      *)
HookPrompts(n) ==
    /\ n <= MaxPrompts - ghost.prompts
    /\ live' = live \o [k \in 1..n |-> UserMsg("ReactivationPrompt", 0)]
    /\ ghost' = [ghost EXCEPT !.prompts = @ + n]

Augmented(n) == [k \in 1..n |-> UserEvent("ReactivationPrompt", 0)]

AfterHook == [turn_start |-> "context", context |-> "before_agent", before_agent |-> "check"]

HookGoesOn(n) ==
    /\ HookPrompts(n)
    /\ \/ /\ pc = "turn_start"
          /\ pc' = AfterHook[pc]
          /\ FlushAfter(<<>>, Augmented(n))
          /\ UNCHANGED stop
       \/ /\ pc \in {"context", "before_agent"}
          /\ pc' = AfterHook[pc]
          /\ Push(Augmented(n))
          /\ UNCHANGED stop
       \/ /\ pc = "turn_end"
          /\ FinalizeTurn(stop, Augmented(n))
    /\ UNCHANGED <<hostVars, exec, comp, tools>>

HookContinues == HookGoesOn(0)
HookAugments == HookGoesOn(1)

HookCancels ==
    \E n \in 0..1 :
        /\ HookPrompts(n)
        /\ \/ /\ pc \in {"turn_start", "turn_end"}
              /\ FinalizeTurn("Cancelled", Augmented(n))
           \/ /\ pc \in {"context", "before_agent"}
              /\ Completed("Cancelled", Augmented(n))
        /\ UNCHANGED <<hostVars, exec, comp, tools>>

HookBlocks ==
    \E n \in 0..1 :
        /\ pc \in {"turn_start", "context", "before_agent", "turn_end"}
        /\ HookPrompts(n)
        /\ Fail(Augmented(n))
        /\ UNCHANGED <<hostVars, exec, comp, tools>>

(* run_single_step goes on only with a model.                              *)
CheckProvider ==
    /\ pc = "check"
    /\ IF ~surface.provider THEN Completed("Completed", <<>>)
       ELSE /\ pc' = "assemble"
            /\ UNCHANGED <<stop, pending, sinkVars>>
    /\ UNCHANGED <<hostVars, live, exec, comp, tools, ghost>>

-----------------------------------------------------------------------------
(* assemble_runtime_request: budget, micro compaction, prune, and the      *)
(* decision to compact.  stores: whether results can be written to disk.   *)
Assemble ==
    /\ pc = "assemble"
    /\ \E stores \in BOOLEAN :
       \E ms \in {Reapplied(live, exec.replaced)} :
       \E now \in {IF stores THEN PersistedNow(ms, exec.replaced, exec.frozen) ELSE <<>>} :
       \E fitted \in {Reapplied(ms, Range(now))} :
       \E idle \in {ApplyIfIdle(exec.micro, fitted)} :
       \E messages \in {ApplyPrune(idle)} :
        /\ exec' = [exec EXCEPT !.replaced = @ \cup Range(now),
                                !.frozen = Frozen(ms, exec.replaced, @, now),
                                !.micro = RetainLive(@, fitted)]
        /\ Push([k \in DOMAIN now |-> ReferenceApplied(now[k])])
        /\ IF ShouldCompact(messages) /\ AutoCompact
           THEN /\ pc' = "before_compact"
                /\ comp' = [NoCompaction EXCEPT !.source = messages]
                /\ UNCHANGED live
           ELSE /\ pc' = "before_provider"
                /\ live' = messages
                /\ UNCHANGED comp
    /\ UNCHANGED <<hostVars, tools, stop, ghost>>

(* What becomes of the request when there is no compaction: the reactive   *)
(* one fails the turn, the automatic one goes on with what it has.         *)
NotCompacted ==
    IF comp.reactive
    THEN Fail(<<>>) /\ UNCHANGED live
    ELSE /\ pc' = "before_provider" /\ live' = comp.source
         /\ UNCHANGED <<stop, pending, sinkVars>>

(* A compaction is put in place of the messages.  What the projector makes *)
(* of its event is exact only while the turn has stored nothing more and   *)
(* the numbers of messages agree.                                          *)
Compacted(messages, preserved, removed) ==
    /\ \E found \in {FALSE, exec.reads} :
          live' = messages \o (IF found THEN <<UserMsg("ReactivationPrompt", 0)>> ELSE <<>>)
    /\ LET event == <<CompactApplied(preserved, removed)>> IN
       IF comp.reactive THEN Continued(event)
       ELSE /\ pc' = "before_provider"
            /\ Push(event)
            /\ UNCHANGED stop
    /\ ghost' = [ghost EXCEPT
           !.compacted = @ + 1,
           !.inexact = @ \/ comp.salvage > 0 \/ emitted # <<>> \/ ghost.compacted > 0
                         \/ Len(comp.source) # Len(Snapshot(proj))]

(* dispatch_session_before_compact_hook and the start of auto_compact.     *)
BeforeCompact ==
    /\ pc = "before_compact"
    /\ LET keep == KeepStart(comp.source) IN
       IF keep = 0 THEN NotCompacted /\ UNCHANGED comp
       ELSE /\ pc' = "fit"
            /\ comp' = [comp EXCEPT !.prefix = SubSeq(comp.source, 1, keep - 1),
                                    !.suffix = SubSeq(comp.source, keep, Len(comp.source)),
                                    !.keep = keep]
            /\ UNCHANGED <<live, stop, pending, sinkVars>>
    /\ UNCHANGED <<hostVars, exec, tools, ghost>>

CompactHookCancels ==
    /\ pc = "before_compact"
    /\ NotCompacted
    /\ UNCHANGED <<hostVars, exec, comp, tools, ghost>>

CompactHookSummarises ==
    /\ pc = "before_compact"
    /\ Compacted(<<Summary>>, 0, Len(comp.source))
    /\ UNCHANGED <<hostVars, exec, comp, tools>>

CompactHookFails ==
    /\ pc = "before_compact"
    /\ Fail(<<>>)
    /\ UNCHANGED <<hostVars, live, exec, comp, tools, ghost>>

(* trim_prefix_until_compact_request_fits, one unit a step.                *)
Trim ==
    /\ pc = "fit"
    /\ LET shorter == DropOldestUnit(comp.prefix) IN
       CASE CompactInput(comp.prefix) = <<>> -> Fail(<<>>) /\ UNCHANGED comp
         [] CompactInput(comp.prefix) # <<>> /\ Fits(comp.prefix) ->
                /\ pc' = "summarise"
                /\ UNCHANGED <<comp, stop, pending, sinkVars>>
         [] OTHER -> IF shorter = <<>> THEN Fail(<<>>) /\ UNCHANGED comp
                     ELSE /\ comp' = [comp EXCEPT !.prefix = shorter]
                          /\ UNCHANGED <<pc, stop, pending, sinkVars>>
    /\ UNCHANGED <<hostVars, live, exec, tools, ghost>>

(* The model answers the compact request.                                  *)
Summarised ==
    /\ pc = "summarise"
    /\ \E digest \in BOOLEAN :
          Compacted(CompactedMessages(RecentUsers(comp.source), comp.keep, comp.suffix, digest),
                    PreservedTurns, comp.keep - 1)
    /\ UNCHANGED <<hostVars, exec, comp, tools>>

SummaryViolatesContract ==
    /\ pc = "summarise" /\ comp.contract < MaxRetry
    /\ comp' = [comp EXCEPT !.contract = @ + 1]
    /\ pc' = "fit"
    /\ UNCHANGED <<hostVars, live, exec, pending, sinkVars, tools, stop, ghost>>

SummaryTooLong ==
    /\ pc = "summarise"
    /\ LET shorter == DropOldestUnit(comp.prefix) IN
       IF comp.salvage < MaxRetry /\ shorter # <<>>
       THEN /\ comp' = [comp EXCEPT !.salvage = @ + 1, !.prefix = shorter,
                                    !.keep = Len(shorter) + 1]
            /\ pc' = "fit"
            /\ UNCHANGED <<stop, pending, sinkVars>>
       ELSE Fail(<<>>) /\ UNCHANGED comp
    /\ UNCHANGED <<hostVars, live, exec, tools, ghost>>

(* Any other error; or an answer that cannot be parsed when the retries    *)
(* are used up.                                                            *)
SummaryFails ==
    /\ pc = "summarise"
    /\ Fail(<<>>)
    /\ UNCHANGED <<hostVars, live, exec, comp, tools, ghost>>

-----------------------------------------------------------------------------
(* The hook before the request, and the model's reply.                     *)
ProviderHookContinues ==
    /\ pc = "before_provider"
    /\ pc' = "generate"
    /\ UNCHANGED <<hostVars, live, exec, pending, sinkVars, comp, tools, stop, ghost>>

(* DenyProviderRequest; CancelTurn or a cancelled dispatch; anything else. *)
ProviderHookStops ==
    /\ pc = "before_provider"
    /\ \/ Completed("Completed", Augmented(1))
       \/ Completed("Cancelled", <<>>)
       \/ Fail(<<>>)
    /\ UNCHANGED <<hostVars, live, exec, comp, tools, ghost>>

Replied(n) ==
    /\ exec.replies < MaxReplies
    /\ ghost' = [ghost EXCEPT !.calls = @ + n]

MoreReplies == exec.replies + 1 < MaxReplies
AfterReply == [exec EXCEPT !.replies = @ + 1, !.micro.activity = "recent"]

(* A reply without tool calls, cut at max_tokens or not.                   *)
ReplyText ==
    /\ pc = "generate" /\ Replied(0)
    /\ LET text == ghost.calls + exec.replies + 1
           said == Append(live, AssistantMsg(text, <<>>))
       IN  \/ /\ live' = said /\ exec' = AfterReply
              /\ Completed("Completed", <<AssistantFinal(text)>>)
           \/ /\ exec.continuations < MaxContinuations /\ MoreReplies
              /\ live' = Append(said, UserMsg("ContinuationPrompt", 0))
              /\ exec' = [AfterReply EXCEPT !.continuations = @ + 1]
              /\ Continued(<<AssistantFinal(text)>>)
    /\ UNCHANGED <<hostVars, comp, tools>>

ReplyTools ==
    /\ pc = "generate"
    /\ \E n \in 1..MaxBatch : \E used \in [1..n -> Tools] :
        LET calls == [k \in 1..n |-> [id |-> ghost.calls + k, tool |-> used[k]]]
            text == ghost.calls + exec.replies + 1
        IN  /\ ghost.calls + n <= MaxCalls /\ MoreReplies
            /\ Replied(n)
            /\ live' = Append(live, AssistantMsg(text, calls))
            /\ exec' = AfterReply
            /\ IF surface.tools
               THEN /\ pc' = "call"
                    /\ tools' = [NoTools EXCEPT !.calls = calls]
                    /\ Push(<<AssistantFinal(text)>>)
                    /\ UNCHANGED stop
               ELSE /\ Completed("Completed", <<AssistantFinal(text)>>)
                    /\ UNCHANGED tools
    /\ UNCHANGED <<hostVars, comp>>

ReplyTooLong ==
    /\ pc = "generate"
    /\ IF exec.attempts < MaxRetry /\ AutoCompact
       THEN /\ pc' = "before_compact"
            /\ exec' = [exec EXCEPT !.attempts = @ + 1]
            /\ comp' = [NoCompaction EXCEPT !.source = live, !.reactive = TRUE]
            /\ UNCHANGED <<stop, pending, sinkVars>>
       ELSE Fail(<<>>) /\ UNCHANGED <<exec, comp>>
    /\ UNCHANGED <<hostVars, live, tools, ghost>>

ReplyFails ==
    /\ pc = "generate"
    /\ Fail(<<>>)
    /\ UNCHANGED <<hostVars, live, exec, comp, tools, ghost>>

-----------------------------------------------------------------------------
(* execute_tool_calls.  First the hook of every call, in order.            *)
Call == tools.calls[tools.next]
AfterCallHook == IF tools.next = Len(tools.calls) THEN "dispatch" ELSE "call"

CallAllowed ==
    /\ pc = "call"
    /\ PushImmediate(<<ToolCall(Call)>>)
    /\ tools' = [tools EXCEPT !.next = @ + 1, !.allowed = @ \cup {Call},
                              !.running = @ \cup {Call}]
    /\ pc' = AfterCallHook
    /\ ghost' = [ghost EXCEPT !.loose = @ \cup {Call}]
    /\ UNCHANGED <<hostVars, live, exec, comp, stop>>

(* BlockToolResult or RequireApproval: a result and no ToolCall event.     *)
CallBlocked ==
    /\ pc = "call"
    /\ tools' = [tools EXCEPT !.next = @ + 1]
    /\ pc' = AfterCallHook
    /\ ghost' = [ghost EXCEPT !.loose = @ \cup {Call}]
    /\ UNCHANGED <<hostVars, live, exec, pending, sinkVars, comp, stop>>

CallStops ==
    /\ pc = "call"
    /\ Completed("Cancelled", <<>>) \/ Fail(<<>>)
    /\ UNCHANGED <<hostVars, live, exec, comp, tools, ghost>>

(* The tools run at the same time; each may send output and then returns.  *)
ToolSends ==
    /\ pc = "dispatch" /\ tools.deltas < MaxDeltas
    /\ \E call \in tools.running :
          tools' = [tools EXCEPT !.channel = Append(@, call), !.deltas = @ + 1]
    /\ UNCHANGED <<pc, hostVars, live, exec, pending, sinkVars, comp, stop, ghost>>

ReturnsAs(form) ==
    /\ pc = "dispatch"
    /\ \E call \in tools.running :
          tools' = [tools EXCEPT !.running = @ \ {call},
                                 !.results = Append(@, [call |-> call, form |-> form])]
    /\ UNCHANGED <<pc, hostVars, live, exec, pending, sinkVars, comp, stop, ghost>>

ToolReturns == \E form \in Forms : ReturnsAs(form)
ToolFails == ReturnsAs("error")

DeltaReceived ==
    /\ pc = "dispatch" /\ tools.channel # <<>>
    /\ PushImmediate(<<ToolCallDelta(Head(tools.channel))>>)
    /\ tools' = [tools EXCEPT !.channel = Tail(@)]
    /\ UNCHANGED <<pc, hostVars, live, exec, comp, stop, ghost>>

ResultOf(call) == CHOOSE r \in Range(tools.results) : r.call = call
SomeFailed == \E r \in Range(tools.results) : r.form = "error"

(* join_all is ready: what is left in the channel is taken first.          *)
AllReturned ==
    /\ pc = "dispatch" /\ tools.running = {}
    /\ LET left == [k \in DOMAIN tools.channel |-> ToolCallDelta(tools.channel[k])] IN
       IF SomeFailed THEN FinalizeAfter(left, "Error", <<>>)
       ELSE /\ pc' = "results"
            /\ PushImmediate(left)
            /\ UNCHANGED stop
    /\ tools' = [tools EXCEPT !.channel = <<>>, !.next = 1]
    /\ UNCHANGED <<hostVars, live, exec, comp, ghost>>

(* The results, blocked ones included, in the order of the calls.          *)
RecordResultOf(call, form) ==
    /\ PushImmediate(<<ToolResult(call, form)>>)
    /\ live' = Append(live, ToolMsg(call, form))
    /\ exec' = [exec EXCEPT !.micro = RecordResult(@, call),
                            !.reads = @ \/ (call.tool = "read" /\ call \in tools.allowed)]

ResultRecorded ==
    /\ pc = "results" /\ tools.next <= Len(tools.calls)
    /\ RecordResultOf(Call, IF Call \in tools.allowed THEN ResultOf(Call).form ELSE "small")
    /\ tools' = [tools EXCEPT !.next = @ + 1]
    /\ ghost' = [ghost EXCEPT !.loose = IF Call \in tools.allowed THEN @ \ {Call} ELSE @]
    /\ UNCHANGED <<pc, hostVars, comp, stop>>

ResultHookStops ==
    /\ pc = "results" /\ tools.next <= Len(tools.calls)
    /\ Completed("Cancelled", <<>>) \/ Fail(<<>>)
    /\ UNCHANGED <<hostVars, live, exec, comp, tools, ghost>>

ToolCycleCompleted ==
    /\ pc = "results" /\ tools.next > Len(tools.calls)
    /\ Continued(<<>>)
    /\ UNCHANGED <<hostVars, live, exec, comp, tools, ghost>>

-----------------------------------------------------------------------------
(* What a turn does when nothing befalls it ...                            *)
Step ==
    \/ HookContinues \/ CheckProvider \/ Assemble \/ ProviderHookContinues
    \/ BeforeCompact \/ Trim \/ Summarised
    \/ ReplyText \/ ReplyTools
    \/ CallAllowed \/ ToolSends \/ ToolReturns \/ DeltaReceived \/ AllReturned
    \/ ResultRecorded \/ ToolCycleCompleted

(* ... and what may: a hook that adds a prompt or does not let it go on, a *)
(* model that refuses or fails, a tool that fails.                         *)
Upset ==
    \/ HookAugments \/ HookCancels \/ HookBlocks \/ ProviderHookStops
    \/ CompactHookCancels \/ CompactHookSummarises \/ CompactHookFails
    \/ SummaryViolatesContract \/ SummaryTooLong \/ SummaryFails
    \/ ReplyTooLong \/ ReplyFails
    \/ CallBlocked \/ CallStops \/ ToolFails \/ ResultHookStops

(* The session may stay idle for good.                                     *)
Rest == pc = "idle" /\ turn = MaxTurns /\ UNCHANGED vars

Next ==
    \/ (NewTurn \/ Step) /\ UNCHANGED upsets
    \/ upsets < MaxUpsets /\ Upset /\ upsets' = upsets + 1
    \/ Rest

Spec == Init /\ [][Next]_vars

(* The loop is one task that goes on whenever it can; the model and the    *)
(* tools answer every request in the end.                                  *)
FairSpec == Spec /\ WF_vars(Step /\ UNCHANGED upsets)
-----------------------------------------------------------------------------
Occurrences(e, events) == Cardinality({k \in DOMAIN events : events[k] = e})

(* The sink has had every stored event once: those of output.events, and   *)
(* of the events still pending exactly the ones that are emitted at once   *)
(* (push_immediate_event and flush_pending_events share the work).         *)
EmittedOnce ==
    LET due == output \o Selected(pending, {k \in DOMAIN pending : Immediate(pending[k])}) IN
    /\ Len(emitted) = Len(due)
    /\ \A e \in Range(due) : Occurrences(e, emitted) = Occurrences(e, due)

At(e) == {k \in DOMAIN emitted : emitted[k] = e}

(* In the order in which the sink has them, which is the order of the log, *)
(* a call comes before its output and its result, and neither output nor a *)
(* second result follows a result, however the tools of a batch interleave.*)
ToolOrder ==
    \A k \in DOMAIN emitted : Immediate(emitted[k]) =>
        LET call == emitted[k].call
            begun == At(ToolCall(call))
            ended == {j \in DOMAIN emitted :
                         emitted[j].type = "ToolResult" /\ emitted[j].call = call}
        IN  /\ Cardinality(begun) <= 1 /\ Cardinality(ended) <= 1
            /\ emitted[k].type = "ToolCallDelta" =>
                  /\ \E j \in begun : j < k
                  /\ \A j \in ended : k < j
            /\ \A i \in begun, j \in ended : i < j

Preceded(ms, i) ==
    \E j \in 1..(i - 1) : /\ ms[j].kind = "assistant"
                         /\ ms[i].call \in Range(ms[j].calls)
                         /\ \A k \in (j + 1)..(i - 1) : IsTool(ms[k])
Answered(ms, i, call) ==
    \E j \in (i + 1)..Len(ms) : /\ IsTool(ms[j]) /\ ms[j].call = call
                               /\ \A k \in (i + 1)..(j - 1) : IsTool(ms[k])
Paired(ms, loose) ==
    \A i \in DOMAIN ms :
        /\ IsTool(ms[i]) => Preceded(ms, i) \/ ms[i].call \in loose
        /\ ms[i].kind = "assistant" =>
              \A call \in Range(ms[i].calls) : Answered(ms, i, call) \/ call \in loose

(* What a model API asks of a history holds of what a turn leaves behind:  *)
(* a tool result follows the assistant message with its call, and a call   *)
(* has its result.  The exceptions are calls that a hook blocked or whose  *)
(* turn stopped before their results, and histories compacted inexactly.   *)
RebuiltPaired ==
    pc = "idle" /\ ~ghost.inexact => Paired(Snapshot(proj), ghost.loose)

Texts(ms) == {ms[i].text : i \in {j \in DOMAIN ms : ms[j].kind = "assistant"}} \ {0}
Results(ms) == {ms[i].call : i \in {j \in DOMAIN ms : IsTool(ms[j])}}
Users(ms) == {ms[i].n : i \in RealUsers(ms)}

(* Nothing the turn has seen is missing from what the projector rebuilds:  *)
(* every prompt, text and result, in a turn without compaction.            *)
NothingForgotten ==
    pc = "idle" /\ ghost.compacted = 0 =>
        LET ms == Snapshot(proj) IN
        /\ Texts(ms) = Texts(live) /\ Results(ms) = Results(live) /\ Users(ms) = Users(live)
        /\ \A text \in Texts(ms) : \E i \in DOMAIN ms :
               ms[i].kind = "assistant" /\ ms[i].text = text

(* A result that has been moved to a file is never sent in full again, in  *)
(* this turn or a later one.                                               *)
ReplacedStays ==
    pc = "generate" =>
        \A i \in DOMAIN live : IsTool(live[i]) /\ live[i].call \in replaced \cup exec.replaced
            => live[i].form \in {"persisted", "cleared", "micro"}

(* The prompt of the turn is in every request of the turn exactly once,    *)
(* in its place or as recent user context, before the first compaction by  *)
(* the model and after it, unless a retry of the compaction moved          *)
(* keep_start.                                                             *)
PromptKept ==
    pc = "generate" /\ ghost.compacted <= 1
        /\ (ghost.compacted = 1 => comp.keep > 0 /\ comp.salvage = 0)
    => Cardinality({i \in DOMAIN live :
            /\ live[i].kind = "user" /\ live[i].n = turn
            /\ live[i].origin \in {"User", "RecentUserContext"}}) = 1

(* A turn ends whatever the model answers to its requests and to those of  *)
(* its compactions, once it has stopped asking for tools.                  *)
EveryTurnEnds == pc # "idle" ~> pc = "idle"
=============================================================================
