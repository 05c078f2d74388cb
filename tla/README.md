# AstrCode: TLA+ models of the session core and the agent runtime

AstrCode is a coding agent: a Rust server that runs turns of conversations with a
language model, keeps every conversation ("session") as an append-only log of durable
events, and streams it to its clients. `PROJECT_ARCHITECTURE.md:17` calls the JSONL
durable events "恢复、fork、历史回放的权威事实", and everything the modules here say follows from
that: who may write the log, in which order, what an acknowledged event is worth, what a
restart rebuilds from it, and what a client is shown of it.

Around that core stand the loop that runs a turn, the tree of agents a turn can start,
and the tools that come from outside the process.

The directory holds TLA+ modules of these parts, TLC configurations that check them on
small instances, and TLAPS proofs of what matters most for any instance. `PROJECT.json`
maps every definition to the lines it models and lists the runs, the hazards they are
aimed at, the findings and the theorems.

## Inventory

Paths are below `src/crates/`.

| part | state | operations | talks to |
|---|---|---|---|
| **turn lock** `adapter-storage/src/session/turn_lock.rs` | `active-turn.lock` (OS lock), `active-turn.json` (payload) | acquire, read the holder's payload with retries, drop the lease | turn lifecycle, through the lease contract of `core/src/store.rs` |
| **event appender** `adapter-storage/src/session/{batch_appender,event_log}.rs` | queue, flags `flush_scheduled`/`draining`/`paused`, open `EventLog` (next number, buffer) | append, 50 ms flush cycle, checkpoint barrier | files; session state, through `EventStore` |
| **checkpoint and recovery files** `adapter-storage/src/session/{checkpoint,query}.rs` | log, `.bak`, snapshots, marker | persist a checkpoint, recover, list | event appender; session state |
| **turn lifecycle** `host-session/src/turn_mutation.rs`, `server/src/runtime_bridge/session_port/adapter.rs` | active turn with its lease and token, pending compact request, count of running sessions | submit, begin, persist inputs, bridge events, interrupt, complete, request a compact | turn lock, session state, runtime loop |
| **session state** `host-session/src/{state,catalog,query,projection_registry,compaction}.rs` | projections under one mutex, broadcast channel | append-apply-broadcast, checkpoint after a compaction, recover, wait for the end of a turn | event store below, streams and waiters above |
| **conversation stream** `server/src/http/routes/conversation.rs`, `server/src/read_model/conversation` | per connection: projector, cursor, receiver | snapshot, validate the cursor, replay, subscribe, deliver, recover from lag | session state's log and broadcaster |
| **live transcript** `server/src/runtime_bridge/session_port/adapter.rs`, `server/src/read_model/conversation`, `cli/src/state/conversation.rs` | two broadcast channels, the projector's blocks, the client's transcript | bridge an event live and durably, select, project, append or replace a block | runtime loop's events, conversation stream |
| **agent control** `server/src/runtime_bridge/agent_control_registry`, `server/src/application/{agent,execution}` | tree of agents with slots, indexes, inboxes, all in one `RwLock`; tool calls between two of its methods | register, spawn, resume, complete, terminate, push and drain an inbox, prune; launch, send, close | turn lifecycle of each child |
| **parent delivery and wake** `server/src/application/agent/{wake,terminal}.rs`, `agent_control_registry/delivery_queue.rs`, `host-session/src/input_queue.rs` | durable queue events and their projection, the registry's queue | report, queue, start a wake turn, acknowledge, requeue, recover, discard | registry, turn lifecycle, session state |
| **runtime loop** `agent-runtime/src/{loop,tool_dispatch,context_window/request}.rs` | messages, pending events and counters of a turn | hooks, request, reply, tool calls at the same time, compaction, finalisation | context window, model, tools, event sink |
| **context window** `context-window/src` | none of its own (operators on messages), replacement and micro-compaction state of a turn | budget, micro compaction, prune, compaction with retries | runtime loop |
| **history projection** `host-session/src/projection.rs` | messages, pending text, pending calls | apply an event, snapshot, compaction | session state; the next turn |
| **external tools and reload** `adapter-mcp/src/manager`, `server/src/bootstrap/{mcp,capabilities,governance,runtime_coordinator}.rs`, `plugin-host/src/{registry,host_reload}.rs` | declarations, approvals, connections; router, index, records; active and candidate snapshot, hooks, catalogs, plugin processes | warm-up, approve, declare, reconnect, reload and its way back | files, MCP servers, plugins |
| **branch and fork** `host-session/src/{branch,fork}.rs` | the new session | branch a busy session, fork from a point | turn lock, turn lifecycle, event store |
| model adapters, prompts, built-in tools, HTTP, clients | see `PROJECT.json` | | |

How they interact. A prompt asks the **turn lock** for its session; with the lease it
becomes the active turn, and a spawned task drives the runtime loop while a bridge
appends its events one by one through **session state**, which appends to the **event
appender**, applies the event to the projections and broadcasts it. A compaction inside
the turn makes session state write a checkpoint, for which the appender pauses its queue
and the **checkpoint files** are replaced. A prompt that finds the session busy is
answered in a **branch**, which is cut from the log while the other turn writes on.
Waiters and **conversation streams** read the log and listen to the broadcasts. The
**runtime loop** shapes its requests with the **context window**, and the next turn
starts from what the **history projection** rebuilt. A tool call of a turn may start,
message or close a child in **agent control**; when a child's turn ends, **parent
delivery** queues its report for the parent's session and submits a wake turn there. The
tools a turn may call come from the **external surface**, which requests and reloads
replace under running turns.

What is hard about each part, and what makes it correct:

- *Turn lock*: two files cannot change together, a holder may die at any point. Correct
  means one lease at a time and no refusal of a free session.
- *Event appender*: the queue lock is dropped while a batch is written, so flush cycles
  overlap; no timer re-examines the queue. Correct means that no queued event is
  forgotten, numbers and order agree with the replies, and a checkpoint never runs
  beside another.
- *Checkpoint files*: six file operations, and a crash or an error between any two.
  Correct means that no acknowledged event is lost from the disk and that recovery
  neither loses nor repeats one.
- *Turn lifecycle*: interrupts run beside the task they interrupt, and the task is not
  stopped by them; the request that begins a turn may be dropped at any await, and
  others append under a turn's id. Correct means that control state, lease and running
  count stay with the right turn, and that the log of a turn is whole.
- *Branch and fork*: the holder's name, the log and the lock are read one after the
  other while turns end and begin. Correct means that a new session has all turns that
  were over, and no part of one that runs.
- *Session state*: append, application and broadcast are three steps, and a checkpoint
  pairs projections with a number. Correct means each event is applied once, before
  anybody hears of it, and that a restart rebuilds it.
- *Conversation stream*: the log is read, several awaits pass, and only then the
  receiver exists; receivers lose records, and two appenders may broadcast in the
  opposite order of the log. Correct means that the order and the gaps of what a client
  gets have these causes and no others.
- *Live transcript*: what a turn says comes to a stream twice, live and as records, over
  channels that are selected in any order. Correct means that a client sees each text
  and each piece of output once, whole and in order.
- *Agent control*: every method is atomic, every tool call is several of them, and a
  close, a completion or a prune comes between. Correct means that slots are counted,
  one run of an agent lives, no message is lost or doubled, and closed stays closed.
- *Parent delivery*: a report is in a log, in a queue and in somebody's hands, and any
  call may fail or the process stop. Correct means that a report is settled only by a
  turn that heard it, is in one batch at a time, and does not block the queue.
- *Runtime loop and context window*: a step's events go to the sink in two ways, tools
  run at the same time, and the messages are rewritten by four passes and rebuilt from
  events by other code. Correct means that every event is emitted once and in order,
  what is rebuilt is what was said, and a turn ends.
- *External surface*: nothing serialises a warm-up, requests and reloads; each reads,
  awaits the network and then writes under several locks. Correct means that a request
  that ran alone leaves connections, surface and plugins in agreement, and that a failed
  reload changes nothing.

## Modules

    TurnLease  <-- implemented by --  TurnLock          (two files)
        ^
        | extended by
    TurnMutation <-- SessionBranch                       (turns of one session)
        : appends through
    SessionState ........ ConversationStream             (log -> client)
        :                 Transcript <- LiveTranscript   (a turn -> client)
        : EventStore
    BatchAppender ....... CheckpointFiles                (one JSONL file)

    DeliveryContract  <-- implemented by --  ParentDelivery    (reports of children)
                                                : registry
                                             AgentControl      (tree of agents)

    HistoryProjection <- ContextWindow <- RuntimeLoop    (a turn, and the next one)

    ExternalSurface                                      (MCP, plugins, reload)

    Selection <- BatchAppender, ParentDelivery           (filters)

A dotted line is an interface that both sides model: SessionState takes the `EventStore`
for what its trait promises, BatchAppender and CheckpointFiles say what the files do
about the promise. `TurnLease` is the abstract specification of the session lease;
`TurnLock` is shown to refine it (`INSTANCE TurnLease WITH owner <- lock, answer <-
answerOf`), and `TurnMutation` extends it and is shown to use it only as it allows.
`DeliveryContract` is the abstract specification of a child's report, which
`ParentDelivery` refines. The other arrows are EXTENDS: the loop is the composition of
the projector, the passes and the turn, and branches are composed with the turns of
their source.

**Selection**. What `retain` and `filter` leave of a sequence, said by the places that
are kept: `Selected(q, K)` has the elements of q at the places K in their order. Unlike
`SelectSeq`, of which the prover knows no fact, it can be reasoned about.

**TurnLease** (`core/src/store.rs:79-106`). One owner; a call is granted, refused while
somebody else owns the session, or fails; ownership ends with the lease or the process.

**TurnLock**. `lock` is the OS lock, `meta` the content of the payload file (a turn,
`Absent`, or `Torn` between truncation and write), `pc` where each acquisition or lease
stands, `attempt` and the payload read so far belong to a call. One action per system
call: `TryAcquire`, `TruncatePayload`, `WritePayload`, `WriteFails`, `ReadPayload`,
`Confirm` (look at the lock again), `Retry`, `Unlock`, `Unlink`, and `ProcessDies`, the
end of a whole process. A drop unlocks first and unlinks afterwards, as the code does.

**BatchAppender**. `queue`, `flushScheduled`, `draining`, `paused` are the
`BatchAppenderState`; `sleeping` counts cycles in their 50 ms window and `cycles` holds
those that took a batch; `handle`, `nextSeq`, `buffer` are the `EventLog`; `log` the
file; `reply` what each caller was told; `ck` where each checkpoint stands. An action is
what one lock or one system call covers. A batch can fail before its first entry, after
some of them were numbered, during or after its flush; a failed flush leaves entries in
the `BufWriter` that a later flush or the drop writes, as far as it gets. The job that
writes a batch may also panic: its callers are answered, but the log mutex is `poisoned`
and nothing can be written any more. The checkpoint's work is its three file steps,
without the log mutex; its blocking job may panic too, in which case the `?` on the join
error leaves before the barrier is lifted.

**CheckpointFiles**. The same checkpoint with every file operation as a step of its own
and a crash or an error between any two; `stage` is the position in
`persist_checkpoint`, `log`/`bak`/`snaps`/`marker` what is on disk. `TailRecovered`,
`Checkpointed` and `Listed` are what `recover_session` and the listing would read at
that moment. Numbers increase within a log, so a log is the set of its entries. Appends
come from one caller and never overlap a rewrite, for BatchAppender has that; an event
is numbered by what the file says when it is opened, as `last_storage_seq_from_path`
does.

**TurnMutation**. `pc[t]` is the position of a turn's request and, once spawned, of its
task; `active` and `pending` are the `TurnMutationState`, `running` the count of the
`ActiveSessionRegistry`, `call` the position of each interrupt (its local variable
`active` is `call[i].turn`), `request` of each compact request, `log` the events as
(turn, kind). Every `?` of the code is an alternative with a failure. A turn's inputs
are appended one by one, and those before a failure stay. The request is the future of
an HTTP handler: one dropped before the turn has begun gives the lease back
(`DroppedBefore`), one dropped after it leaves an active turn without a task,
"abandoned" (`DroppedAfter`). `OthersReport` is what a child's watcher and a wake-up's
acknowledgement append under the id of a turn, at any time after its spawn.
`MaxFailures` bounds failures, panics, dropped requests and such reports together.

**SessionBranch**. The state of TurnMutation, with `payload` (whom `active-turn.json`
names), `base` (what a checkpoint has removed from the file) and `copy[c]`, the position
of a call. `Stored` is what a replay reads. A prompt looks at the lock (`FindBusy`),
again (`Confirm`), and reads the log (`ReplaySource`), with steps of the turns in
between; `Kept` is what it keeps, and `Accepts(Stored, p)` whether a fork at p succeeds.
The new session is independent of the source from then on, so only its way to a turn of
its own is kept: `CopyFails`, `Copied`, `BranchBusy`. The late events of a source's
turns are those of TurnMutation, the reports of others among them.

**SessionState**. `log` is the durable log, `at[p]` where each appender stands between
append, application and broadcast, `state` the projections (what they have applied, the
tracker's phase, the agent state's phase, the ends of turns, the recent cache), `sent`
the broadcasts, `batch` the events a task persists with one call, `checkpoint` the last
one written, `waiter` the position of `wait_for_turn_terminal_snapshot`. What it looks
at in between are three reads, each under its own lock: the events (`ReadRecent`,
`Replay`, `Receive`), the phase (`ReadPhase`) and the projection of the turn
(`ReadProjection`). `Restart` recovers from the checkpoint and the events after it, and
keeps the checkpoint's phase normalisation where the code has it: before the tail, not
after it. What it computes is `ApplyAfter`, a function of the number of the last event
applied.

**ConversationStream**. `records`, `base` (what checkpoints removed from the file),
`storing` (each appender between append and broadcast, in its own time) and `broadcasts`
are the session; `stage`, `cursor`, `blocks`, `history`, `next` are a connection;
`shown` is what the client got. `Hydrate`, `CheckCursor`, `Replay`, `Subscribe` are the
reads of `build_terminal_*_facts`, each at its own moment; `Lagged` rebuilds the facts
on the same projector, `Break` makes a new one. `mark` and `replayed` remember what had
been broadcast and stored at the replay: `Overtaken` are the records that a later one
has passed on its way to the broadcaster, `Due` those that the replay had before their
broadcast. A record is a block (its second projection yields nothing) or a delta.

**Transcript**, **LiveTranscript**. `Transcript` has the operations of
`ConversationDeltaProjector` on the blocks of a turn, each with the frames it sends, and
what `ConversationState` of the terminal client makes of a frame. A text or an output is
a sequence of pieces. `LiveTranscript` puts them on the way of a turn: `script` the
events of the step that the bridge takes one by one, first live (`Broadcast`), then as a
record (`Stored`); `live` and `durable` what the stream's two receivers hold, with their
own capacities; `stage`, `cursor`, `history`, `projector`, `shown` the stream and its
client. `lost` is a ghost: the reasons why a client may be shown something else, each a
disagreement below.

**AgentControl**. A sub-run is a number, an agent the number of its first run.
`entries`, `index`, `active`, `nextSeq` are the `AgentRegistryState`; `turn` and
`watched` the children's turns and their watchers; `call[c]` the position of a tool call
with what it has copied. Every method of the registry is one step (`Spawn`, `Resume`,
`CompleteTurn`, `Terminate`, `Push`, ...) and prunes where the code does (`PruneTo`: an
agent leaves the index with any of its runs, `tree_ops.rs:223`); a `launch`, `send` or
`close` is a sequence of them. Tools are called from running turns only, as
`verify_caller_owns_child` has it. A watcher that cannot project its turn's outcome
gives up before it completes the turn (`WatcherFails`, "unprojected"), and a close may
end before it terminates anything (`CloseFails`). Four ghosts remember messages and
revived runs.

**DeliveryContract** (`openspec/specs/agent-delivery-contracts/spec.md`). A report is
open until a turn that was given it has succeeded, or the parent is closed.

**ParentDelivery**. One parent session. `notes`, `logged`, `pending`, `active`,
`batchId`, `discarded` are the log and its `InputQueueProjection`; `queue` is the
registry's `ParentDeliveryQueue`; `turn` is whoever runs the session; `task[t]` is what
report t sets off: writing it, queueing it, the attempt to wake the parent, and the
watcher that goes on to the next attempt. Every call that may fail has a failing twin;
`Crash` loses all but the log. `MaxFaults` counts crashes, failed calls, failed turns
and closes together.

**HistoryProjection**. Messages, the events that matter to them, and `ApplyEvent` of
`AgentStateProjector`. A text is the number of its reply, a tool result is its form
("big", "persisted", "cleared", ...).

**ContextWindow**. The passes as operators on a sequence of messages, with one weight
for bytes and tokens.

**RuntimeLoop**. `pc` is the position in `run_single_step` and its callees; `live` the
messages, `pending`/`emitted`/`output` the events on their two ways to the sink, `proj`
the projector on the other side, `exec` the `TurnExecutionContext`, `comp` a compaction
under way, `tools` the calls under way. A step is what happens between two awaits. The
model's answers, the hooks' answers and the tools' results are chosen from sets. When a
turn ends `live` is forgotten and the next turn begins with `Snapshot(proj)`. The tokens
that the loop, the model and the tools look at are made with the turn and cancelled by
nobody, so what the loop would do after a cancellation is no behaviour of the program
and is not modelled.

**ExternalSurface**. `declared` and `connections` are the `McpConnectionManager`;
`source` the files, `approved` the approvals; `surface` the three places that
`apply_external_invokers` writes one after the other; `registry`, `runtime`, `dead`,
`born` the plugin side of a reload; `ops[a]` where each caller stands with what it has
read. `current_surface` reads the declarations and the connections under two locks
(`List` or `Identify`, then `Survey`), and what a reload captures are four reads
(`Capture`, `List`, `Identify`, `Keep`). A server has one tool, known by the number of
its transport, and the plugins of one bootstrap have one, known by the generation.
`Install` replaces the four catalogs and the coordinator's surface in one step although
the code takes a lock for each.

`MC*` modules name the elements of the small instances; `*Proofs` modules hold theorems.

## Runs

Bounds appear in the `.cfg` files. Deadlock is not checked where actors make finitely
many calls and the system then really stops; the loop has an explicit `Rest` instead, so
there a turn that cannot go on is found.

| run | checks | instance |
|---|---|---|
| `turn_lock` | `TurnLease` implemented: granted to one, refused only while held, given back once | 3 turns, 2 processes (a crash takes a holder and a contender together), 2 attempts |
| `appender` | acknowledgements in the file and in their caller's order, no event forgotten: everybody answered | 3 appends, two of one caller, 2 checkpoints, 2 failures or panics |
| `checkpoint_files` | nothing destroyed, nothing applied twice | 8 events, 4 checkpoints, 3 failures, any crashes |
| `turn` | the right turn is active, holds the lease and is counted whatever interrupted tasks do; what uninterrupted turns write themselves is whole; the lease contract is kept; the session becomes free again unless a turn panicked or its request was dropped | 2 turns, one of a sub-agent and one with a queued input, 1 interrupt, 1 compact request, 1 failure, panic, dropped request or report of another |
| `branch` | a branch has the turns that are over and nothing of the running one, a fork whole turns and all of them | 2 turns, 1 interrupt, 1 checkpoint, 1 failure, panic, dropped request or report, 1 caller that branches and forks again and again, 2 levels of branches |
| `session` | recovery of the task's own events, waiters right and answered | 2 turns, 4 log entries, 1 concurrent appender, 1 waiter, channel of 1, 1 restart |
| `stream` | what a client gets goes back only to records overtaken or due, every gap is explained | 2 appenders, 4 records, channel of 1, 1 broken connection, 1 checkpoint |
| `live` | every text shown once, whole and in order; every piece of output once | 2 steps, texts of up to 2 deltas of which one begins the other, drafts of failed attempts, shown and plan tools, 2 pieces of output, live channel of 2, durable one of 3 |
| `agents` | slots counted, one live run per agent, messages kept, a close reaches the known subtree, closed stays closed, a launched child gives its slot back unless its outcome cannot be projected | 4 tool calls (two launches, then sends and closes of any order and target), depth 2, 3 slots, 1 finalized leaf kept, inbox of 1 |
| `deliveries` | one batch at a time, no report dropped silently, `DeliveryContract` implemented, the queue's front is freed | 2 reports of 2 children, queue of 2, 2 follow-ups, 1 fault |
| `loop` | every event once, calls before output before results, the rebuilt history paired and complete, replaced results stay replaced, the prompt in every request once, every turn ends | 2 turns, 2 calls in one batch, 2 replies a turn, any surface, compactions by threshold, refusal or hook, 1 retry of each kind, at most 2 upsets (a hook that adds a prompt, blocks, denies or summarises, a refusal, a failing tool) |
| `surface` | a request that ran alone puts things right, a failed reload keeps the plugins, connections overwritten only under overlap | 1 server of the project scope, 3 declarations, the warm-up and 2 requests on 2 threads, 1 failure |

Why the bounds are enough. The hazards need few actors: two contenders and a dying
holder for the lock; two overlapping cycles and a barrier for the appender, where the
second event of one caller and an event of another give every order of two batches; four
checkpoints and three errors for the files, because a second checkpoint meets the files
of a first that failed and a third those of both; two turns and an interrupt for the
lifecycle, where one of the turns has two inputs, the fewest that a failure can come
between, and for a branch, which meets one turn that is over and one that is not. Two
appenders are what it takes to broadcast in the opposite order of the log. A channel of
one record makes every lag happen, the 2048 of the code only make it rarer. `Attempts`
is 2 in the `turn_lock` run and 8 in the code; the theorems about TurnLock hold for any
number. For `agents` two launches give a grandchild or two siblings, and two more calls
are what it takes to race a resume with a resume or a close; one retained leaf makes
every prune happen. For `deliveries` the second report meets the first in each of its
stages, and a queue of 2 is never too small, a fault is what blocks it. For the loop the
second turn is the one that sees what the first left behind, a batch of two calls has a
first and a last, and two upsets (`MaxUpsets`) are one that makes the turn leave its
path and one that meets it there. For `live` two texts meet in one block or do not, and
the channels are smaller than what a step sends. In `surface` the third request may
begin when the first two are over: it is the one that has to put right what their
overlap left. The largest run (`surface`) has 5.0 million distinct states under its
symmetry, about two minutes on two workers.

What the properties are conditioned on is the code's doing, and each condition is the
counterpart of a disagreement below: `AckedInFile` holds until a checkpoint has
rewritten the file, `WholeTurns` for what turns nobody interrupted write themselves,
`EveryTurnEnds` (of TurnMutation) but for turns that panicked or whose request was
dropped, `BranchExact` for a payload that is the holder's, `ForkExact` for turns under
which nothing was written after their end, `TextsShown` and `OutputOnce` while no record
has overtaken its live event, no event has been lost and the turn is a regular one
(`lost`, `Regular`; `TextsShown` for clients that joined before the turn's first event,
`OutputOnce` also for later ones), for which the `live` run follows behaviours up to the
first loss only, `OwnRecovered` for the events of the compacting task itself,
`WaiterRight` for turns that no queued input began, `OrderedDelivery` up to records
overtaken by later ones or replayed before their broadcast, `GapsExplained` up to what
was missed before the subscription or overtaken, `SlotReleased` up to outcomes that
cannot be projected, `Slots` up to runs revived after a close, `ClosedStays` once
nothing of the agent is in flight, `CloseReaches` for what the index knows, `OneBatch`
for reports not queued anew, `NotDropped` and `WakingEnds` but for what an error left
checked out, `RebuiltPaired` for calls neither blocked nor cut off and compactions that
are exact, `NothingForgotten` for turns without one, `PromptKept` up to the second one,
`SettledSurface` for requests without overlap.

Properties that are defined, proved or were checked earlier but are in no run (`TypeOK`
of most modules, `LeaseExclusive`, `LeasePayload`, `RefusedOnlyWhileHeld`,
`NoStrandedAppend`, `AcceptedAlone`, `InterruptedStillHolds`, `StillOwned`,
`RunningIfActive`, `NoIdleFlush`, `BarrierExclusive`, `OneSleeper`) are there for the
proofs, where they are parts of the inductive invariants, and `RightTurn` is made of
several of them.

## Fairness

- BatchAppender: weak fairness of waking cycles, of the cycles' blocking jobs and of
  each checkpoint under way; the tokio runtime polls ready tasks, runs blocking jobs and
  fires timers. Callers need never call.
- TurnMutation: weak fairness of a request that has won its lease, until it is dropped
  (the HTTP server polls a handler as long as its client is there), of each spawned task
  and of an interrupt that has taken a turn. A runtime loop is assumed to end or panic
  (`MaxWork` bounds its events).
- SessionState: weak fairness of an appender's application and broadcast, and of a
  waiter that can go on.
- AgentControl: weak fairness of each tool call that has begun, of the end of each
  child's turn and of the watcher, which completes it or gives up. Nobody has to call a
  tool.
- ParentDelivery: weak fairness of each report's task, and of wake turns and user turns,
  which end and then free the session. Faults and restarts need never come.
- RuntimeLoop: weak fairness of what a turn does when nothing befalls it (hooks,
  requests, compactions, replies and tool calls); upsets need never come. A model that
  calls tools for ever keeps a turn running for ever, for the code has no limit on tool
  cycles; `MaxReplies` is the assumption that it does not.
- TurnLock, TurnLease, CheckpointFiles, SessionBranch, ConversationStream,
  LiveTranscript, ExternalSurface: safety only.

## Proofs

All theorems hold for every value of the constants under the named assumptions of the
modules (`Attempts` positive, `PidOf` a function, the model values that stand for
"nothing" outside the sets they complete). They are safety results. Most are properties
of a run; the others (`TypeCorrect`, the parts of `RightTurn` and of the refinement of
the lease, `NoStrandedAppendHolds` and its like, and those named `...Invariant` or
`...Sound`) are the invariants the first kind rests on. An inductive invariant was
checked by TLC on the run's instance before it was proved.

**SessionFilesProofs**, of TurnLock. `LockTypeCorrect`, `LeaseExclusiveHolds`,
`LeasePayloadHolds`, `RefusedOnlyWhileHeldHolds`, `LockImplementsLease`. Exclusion says
that a turn in a holding state owns the lock file. To know that a contender is refused
by somebody else one also needs the converse, that the owner of the lock file is in a
holding state; `HolderIffLock` is that equivalence and is inductive with the types and
`LeasePayload`. The refinement maps each step to a step of `TurnLease` or to a stutter;
a crash maps to `Die` only when it takes the holder.

**SessionFilesProofs**, of CheckpointFiles. `NothingDestroyedHolds`,
`NoDoubleApplyHolds` and `LoadedIsComplete`, for any number of events, checkpoints,
errors and crashes. While a checkpoint is under way its snapshot and the log beyond its
number cover every acknowledged event (`Covered`) and have none in common (`Apart`),
wherever the log lies at that moment (`Kept`: under its backup's name between the
rotation and the promotion). The next snapshot is taken from memory, so one also needs
that memory is complete after a restart. It is, for only a log that still begins with
sessionStart is loaded: no checkpoint has shortened it, and in it the number of an entry
and that of its event agree (`Whole`). This is the counterpart of the disagreement about
listing: what is loaded is complete, at the price that a session with a shortened log is
not found any more.

**BatchAppenderProofs**. `NoStrandedAppendHolds`, `NoIdleFlushHolds`, `OneSleeperHolds`,
`BarrierExclusiveHolds`, `AckedInFileHolds`. Of the first four none is inductive alone:
a queued event has its cycle only if the flag means exactly one sleeping cycle; a cycle
finds work only if an event is queued whenever one sleeps; and events queued under a
pause are picked up only if the pause belongs to one checkpointer who will lift it.
Their conjunction with the types of the five variables is inductive, and the other
variables play no part: overlap of cycles, failures, panics and a poisoned mutex cannot
break it. `AckedInFileHolds` builds on it: before the first checkpoint the session has
one log, whose file only grows, and a cycle about to answer its callers has its whole
batch in that file under the numbers it will tell them. `ProgramOrderHolds` speaks of
all logs there ever were. What lands later than another entry was not acknowledged when
that one landed (`Loose`, `Unanswered`), and when it is acknowledged its caller has not
made its next call yet (`CallOrder`, `Issued`): so the entries of one caller never
change places, even where an entry reaches a file from a stale buffer. `OrderInv` is the
conjunction, for any number of events, checkpoints and failures.

**TurnMutationProofs**. `TypeCorrect`, `AcceptedAloneHolds`,
`InterruptedStillHoldsHolds`, `StillOwnedHolds`, `RunningIfActiveHolds`,
`RightTurnHolds`, `KeepsLeaseContractHolds`, `WholeTurnsHolds`, and of SessionBranch
`BranchInvariant`, `BranchExactHolds`, `ForkExactHolds`. The strengthening says who may
hold the lease at each point: a turn that waits to begin (`Waiting`), the active turn
(`Held`), or an interrupt that has taken one and is alone in that (`Taken`); `Counted`
says that the registry's number is the cardinality of the set of spawned tasks, from
which "an active spawned turn keeps the session running" follows, dropped requests
included, for an abandoned turn was never counted; `Granted` relates positions to
answers, for the lease contract. `WholeTurns` speaks of the log only and needs to be
tied to where the turns stand: a turn that nobody interrupted, and after which another
such turn has written events of its own, is completed (`Follows`), since whoever writes
its own events is the active turn. Reports that others append under a turn's id come at
any time after its spawn and are spoken of by their kind only. The theorems rest on the
library's facts about finite sets.

A branch reads the payload, the lock and the log at different moments, so `BranchInv`
says what of an earlier look is still true: turns that were over when a copy looked stay
over and write nothing after the holder it saw (`CopySound`), for a turn after which an
uninterrupted one has written has lost the session for good (`Behind`, `Progress`). For
forks the log must be read as `is_stable_prefix` reads it, event by event. What that
scan has computed at a position (`Scan`) is shown by taking the least position at which
it would be wrong; the turns it has open (`OpenSince`) and those that never change again
beyond a stable point (`StableEnds`) then give `ForkExact`.

**ParentDeliveryProofs**. `DeliveryInvariant` and `KeepsContract`, the refinement of
`DeliveryContract` for any reports, children, queue limit and faults. A report is
settled by one of three steps (an acknowledgement, a discard, a close), and to see that
an acknowledgement settles only what a successful turn was given, one has to know what
the log's active batch and the wake turn have to do with one another at every position
of the attempt. `PlacesInvariant` says of a report where it may be at the same time: in
the log only, in the queue once, in the hands of one attempt, in the batch of one turn.
From it follow `OneBatchHolds` and `NotDroppedHolds`, the second for reports that no
error has left checked out.

**AgentControlProofs**. `RegistrySound`, `OneLiveRunHolds` and `ClosedStaysHolds`, for
any number of agents, calls, retained leaves and slots. A resume asks only whether the
run that the index names is live, so what is inductive is that no *other* run of that
agent can be: of an agent in the index, only the run it names may occupy a slot. That a
prune may take the index entry from a live run does no harm to this, since such an agent
is never indexed again (only the root is registered twice, and it has one run).
`ClosedStaysHolds` is proved step by step: each step leaves the run that a resting
agent's index entry names closed, or takes the entry away. `SlotsInvariant` and
`SlotsHold` bound the registry's count by the set of runs that hold a slot, those
revived after a close counted apart; this needs that nothing but a close touches a
spawned agent before its launch marks it running, that no two launches have one agent in
hand, and that the root stays indexed while registered. `MessagesInvariant` and
`MessagesKeptHolds` give each message one holder: an inbox, or the call that has drained
it and not submitted it yet (`OnePlace`, `HandSound`); a call that was accepted has
nothing in hand any more.

`TreeInvariant` and `CloseReachesHolds`: a close follows the children of each run
(`Below`), while the property asks the index and the parents (`Under`). What ties the
two is that a current run whose parent is present is among the children of its parent's
current run (`Attached`). A spawn adds the child, a resume hands the children on and
replaces the old run in its parent's list, and a prune takes leaves only, so a run that
stays keeps its children that stay (`Lessened`). No agent may be its own parent, or a
resume would lose its list, and when the root comes back without children none may be
left that name it as their parent. `Pruned`, `Below`, `Under` and `FlattenSeq` are
recursive functions: that they are defined up to `MaxSubs` is proved once for each by a
least counterexample, and what they contain by the same argument along the levels.

**RuntimeLoopProofs**. `LoopIsSound`, `EmittedOnceHolds` and `ToolOrderHolds`, for any
number of events, calls, tools at work at the same time and ways to end a step. For the
first, a step meets the sink without events that are emitted at once (`Quiet`) or with
them (`Loud`), and in both ways the counts balance (`Balanced`): whatever set of events
one counts, the sink has had as many as the output and, of those that do not wait, the
pending ones. For the second the order of the log (`Ordered`) is inductive only with
what the calls under way are (`BatchOf`): numbers given once, new to the log until their
hook has allowed them, output only of allowed calls, in the channel and in hand, and no
result before all tools have returned. Every step outside the tool calls is `Calm` and
adds no event of a call. That steps add events of known kinds at all needs that messages
stay lists through the passes of the context window and the projector (`Work`,
`ProjectSound`).

`NothingForgottenHolds`: as long as a turn has not been compacted, its messages tell
(`Told`: texts, results, prompts) exactly what the sink knows (`Knows`): what the
projector has, its last text included, which is no message yet, and what the pending
events that wait for the flush will tell it (`Heard`). A step adds messages and events
that tell the same (`Says`), whichever way its events take (`SinkTells`), and the passes
of the context window change the form of results only (`Alike`). The messages a
compaction is about must tell the same as well, since the turn goes on with them when
the compaction is called off. Between turns nothing waits.

`PromptKeptHolds`: until the first compaction the prompt of the turn is the last message
a user wrote, and there once (`Prompted`): no prompt in the projector or in its pending
events is of a later turn (`Dates`), what a step adds is none, and what the passes of
the window change are results. A compaction has the same of the messages it is about
(`Stands`). It keeps the last `KeepUsers` prompts, at least one and so the turn's own,
as recent user context, and takes them out of the suffix it appends
(`CompactedMessages`); that holds of the suffix cut at the place chosen first, and a
retry moves that place, hence the condition. Afterwards the prompt is in the turn's
messages once in one of the two forms (`OneOurs`).

`ReplacedStaysHolds`: what the turn takes for moved to a file is what the log has moved
and what its pending references will (`MovedInv`). In every list in use, the
projector's, the turn's, the source of a compaction and the suffix it keeps, a call has
at most one result, the call was made, and it is not one that is still to be answered
(`Kept`, `Open`); if it was moved, its result is in a file in what the projector holds
(`Stored`) and there or in one of the short forms in what the turn holds (`Short`). The
passes of the window change forms toward the short ones only, a compaction draws its
messages from its source, each at most once, and the projector puts a result at the end
or changes the one its reference names. That no second result of a call appears in full
needs that a tool returns once (`Returned`) and that the results of a batch are of calls
new to every list. Two assumptions are used: a cap on results is positive
(`ContextSettings`; the server refuses a configured zero), so that the cap never cuts a
reference, which weighs as little as a cleared text; and every form a tool may answer in
has a weight (`LoopSettings`).

**ExternalSurfaceProofs**. `SurfaceIsSound` and `ReplacedOnlyByOverlapHolds`: a
connection is overwritten, and its transport lost, only under a caller that was
overlapped, for any servers, declarations, threads and failures. The invariant says that
the callers at work beside one another all know that they are not alone, and what one
that is alone has in hand: the servers it is about to connect have no connection, or one
that it will close first. `SettlingInvariant`, `SettledSurfaceHolds` and
`FailedReloadKeepsHolds`: only the caller that acts matters, since another that is busy
makes it overlapped; for a caller that is alone the invariant says what each stage of
its request has achieved so far (connections closed, connected, read, applied, a
candidate staged), and at its last stage this is the property.

**SessionProofs**, of SessionState. `SessionIsSound`, `OwnRecoveredHolds`,
`WaiterRightHolds`, for any number of turns, events, other appenders, waiters and
restarts and a channel of any size. That a restart rebuilds the task's own events
follows from what the projections hold at any time: all own events in their order but
one that is stored and not applied yet (`Projected`), and when a checkpoint is built
there is no such event and the checkpoint's number is that of the last own one
(`Places`). An event of another appender may lie between, which is the disagreement
about the tail, and why the property speaks of the task's own. `WaiterRight` needs a
fact about each source a waiter trusts. The projections may be those of a restart, but
know of no end that is not in the log (`Truthful`). A session whose phase is
"interrupted" is taken for a cancelled turn; that is right because the phase is a
running one from the first event of a turn to its end (`PhaseTells`), because the waiter
looks for that end after it has read the phase (`Looking`), because the next turn does
not begin before that end has been applied (`Underway`), and because nobody waits for a
turn that the process has not seen (`Seen`, `Waiting`), so that the "interrupted" of a
restart misleads no waiter of a turn that a prompt began.

**SessionProofs**, of ConversationStream. `StreamIsSound`, `OrderedDeliveryHolds`,
`GapsExplainedHolds`, for any number of appenders, which may broadcast in another order
than they stored, of records, connections and checkpoints and a channel of any size.
Every record of the file before the cursor, in the last replay or before the receiver
was shown, is about to be, was broadcast before the subscription or has been overtaken
by a later one (`Accounted`). A frame can go back only when it is received, since what
is replayed is after the cursor (`Ahead`); and since a record is broadcast once
(`Once`), one that is received before the cursor was either replayed before its
broadcast or overtaken. A recovery from lag reads everything again on the old projector,
so one also needs that what the projector knows was shown.

How far induction goes here. The library's induction theorems take an operator as a
parameter, which none of the provers can instantiate, and of operators declared
RECURSIVE, `FoldLeft` and `SelectSeq` the prover knows nothing. What recursion over a
sequence computes is proved only where the recursion is a function and a least
counterexample can be taken (`NatLessThanWellFounded`), as for forks, recovery, the
projector and the prunes and walks of the agents' tree; what a filter leaves only where
it is `Selected` of its places, whose facts the proofs of BatchAppender, ParentDelivery,
RuntimeLoop and AgentControl each prove. `Project` and the budget of results are written
as such functions, and `Delayed` and the dedupe of a compaction as such selections.

Only model-checked: all liveness (the prover has no rule for fairness and ENABLED), so
`EveryAppendAnswered`, `EveryTurnEnds`, `WaiterEnds`, `SlotReleased`, `WakingEnds`;
Transcript and LiveTranscript (`TextsShown`, `OutputOnce`), where what is shown is
compared with folds over the text of every block; of the loop that a rebuilt history has
every result right after the reply that called for it (`RebuiltPaired`), which is about
the places of results and not their forms only, through the compaction and the
projector.

## Disagreements

What the code does and a document, a comment, a test or the name of the thing says
otherwise, as met while modelling. The properties above are stated so as to leave them
out, and say by their conditions where.

*Turns and lock*

- The token that an interrupt cancels is never given to the loop, so the task of an
  interrupted turn goes on writing without a lease, within the next turn
  (`turn_mutation.rs:407`, `adapter.rs:343-382` against `core/src/store.rs:83-84` and
  `turn_mutation.rs:108-109`). The loop looks at a token of its own
  (`agent-runtime/src/types.rs:98`) and its tools at a third one (`adapter.rs:365`),
  which nobody cancels: an interrupted turn goes on asking the model.
- A client that goes away while its prompt's inputs are appended leaves a turn that is
  active, holds the lease and has no task: the session is busy until somebody interrupts
  it (`http/routes/sessions/mutation.rs:48-70`, `adapter.rs:254-268`).
- What others append under a turn's id, the report of its child (`terminal.rs:178`) and
  the acknowledgement after a wake turn (`wake.rs:444`), asks nobody for the session and
  lands within later turns.
- After the last attempt a contender is answered with the read error instead of `Busy`
  (`turn_lock.rs:33` against `:213`).
- `Busy` may name a previous holder: the payload is read before the lock is looked at
  again (`turn_lock.rs:166` against `core/src/store.rs:93-94`).
- After `TurnDone(Cancelled)` the bridge still appends the interrupted turn's other
  events; only terminal ones are checked for staleness, and before the append that
  follows an await (`adapter.rs:969` against
  `openspec/specs/session-runtime-subdomain-boundaries/spec.md:139-140`), and the phase
  they leave behind is a running one (`phase.rs:8-12,77`).
- `request_manual_compact` may register its request after the turn it saw has ended
  (`turn_mutation.rs:347`), and a request registered in time is returned by
  `complete_running_turn` to a caller that drops it (`adapter.rs:1055` against
  `openspec/specs/session-runtime/spec.md:261`).

*Branch and fork*

- Any event that follows the terminal event of its turn opens the turn again for
  `is_stable_prefix`, and nothing closes it: no later point of the log is stable
  (`fork.rs:164-184`). Such events are usual: `SubRunFinished` of a sub-agent's turn,
  the report of a child that ends after its parent's turn (`terminal.rs:178`), the
  acknowledgement after a wake turn (`wake.rs:444`). A session with one of them cannot
  be forked at a later turn, idle or not, against
  `openspec/specs/session-fork/spec.md:21-34`. A turn whose terminal event could not be
  written has the same effect.
- A fork from the latest point leaves out what follows the last terminal event even if
  the session is idle (the same spec, line 29: all events).
- The second terminal event of an interrupted turn makes the latest point lie within the
  running turn: the fork is refused, or, when that turn is open again, copies a part of
  the running one.
- A branch is cut before the turn that the payload names, and a new holder's file may
  still name the last one, whose turn is then missing; and if that turn never wrote
  anything, nothing is cut off and the branch has a part of the running turn.
- After a checkpoint the file has no `sessionStart` and no earlier event: branches and
  forks of a compacted session lose its history (`repository.rs:103` against
  `PROJECT_ARCHITECTURE.md:17`).
- An append that fails leaves a session with a part of the events, which the listing
  shows.

*Files*

- A checkpoint can rewrite the log under a second flush cycle, whose acknowledged events
  go with the unlinked file (`batch_appender.rs:161,122` against `event_log.rs:9-10`).
  The `EventLog` stays open on that file, and entries left in a stale `BufWriter` are
  written after another open, with numbers that repeat.
- After its first checkpoint a session's log has no `sessionStart` and a restarted
  process does not find it (`query.rs:392`).
- A flush job that panics poisons the log mutex, and every later append and checkpoint
  of the session fails until the process is restarted
  (`batch_appender.rs:147-157,212-217`).
- Numbers start again at 1 after a checkpoint has emptied the log, and recovery filters
  the new events as old (`checkpoint.rs:51`; `event_log.rs:170,256` against the module's
  "单调递增" and `PROJECT_ARCHITECTURE.md:17`).
- A crash between the two renames leaves no log at its path, only the backup, which
  nothing reads (`checkpoint.rs:159`).

*Session and stream*

- A durable event of another task can be in neither the checkpoint nor the tail
  (`state.rs:289`).
- A session recovered from a checkpoint and a tail that ends within a turn looks as if
  it were running (`state.rs:60` against `phase.rs:61-64`).
- A turn begun by a queued input leaves the phase `Interrupted` of an earlier recovery,
  and its waiter answers Cancelled while it runs (`query.rs:344,391` against
  `openspec/specs/session-runtime/spec.md:311`).
- What is broadcast between a replay and its subscription never reaches the client
  (`routes/conversation.rs:632,666` against
  `openspec/specs/terminal-chat-read-model/spec.md:85`).
- Deltas that come from the replay and from the broadcaster are shown twice
  (`read_model/conversation/mod.rs:1212` against the same spec, line 80).
- Two appenders may broadcast in the opposite order of the log: a client then gets
  frames late, the cursor moves back, or a record that was overtaken before the
  subscription is skipped for good (`state.rs:258` against the same spec, line 79).
- A checkpoint between the validation of a cursor and its use cuts the replay short
  (`query.rs:321` against the same spec, line 91).

*Live transcript*

- `select!` takes from either receiver, and a refresh lets both queue up: a record read
  before its live twin shows its content twice. Output is appended again, a durable
  `ToolCallStart` files the draft so that the final text opens a second block, and a
  delta after its final text opens a new one (`routes/conversation.rs:247`).
- A durable piece of output that was shown live yields no frame, so the cursor stays,
  and a recovery from lag replays and shows it again. If the live piece was lost, the
  rest is taken off the next one at a byte offset (`delta[consumed..]`).
- Two texts of a turn with no visible tool between them (a continuation, or a step whose
  only tool is `upsertSessionPlan` or `exitPlanMode`) share a block, and the second
  replaces the first. From records alone the last two steps always do, and every text
  stands after its tools, where a live client sees it before them, for the final text is
  stored after the step's tool events.
- The draft of a failed attempt stays as a pending block if the attempt that succeeds
  has no text, and the next step's text goes into it; a refused turn's draft is seen by
  live clients only.
- The result of a plan tool is pushed by its live event and again by its record.
- `normalize_markdown_append` of the client takes a delta that equals the end of the
  text for a repetition ("ha", "ha"), and the final text is not sent again, for the
  server's copy has it (against the test
  `append_markdown_keeps_true_incremental_append`, `cli/src/state/conversation.rs:437`).

*Agents*

- A turn that completes after its agent was closed makes the agent Idle, and so
  resumable, again (`mod.rs:287`); the lifecycle may also be set to Running after the
  close (`subagent.rs:108`). A resume takes a slot without the check against the limit
  that a spawn makes (`mod.rs:369`).
- A resumed turn is never finalized by a watcher: its run keeps its slot
  (`child_send.rs:173` against `openspec/specs/subagent-execution/spec.md:171-175`).
- Pruning a superseded run takes the index entry of the run that replaced it
  (`tree_ops.rs:223`).
- A watcher that cannot project the outcome of its child's turn ends with a warning, and
  the child's slot stays taken until it is closed (`terminal.rs:96-98,110-113`).
- A launch or resume whose submission fails leaves its slot taken; a message pushed to a
  superseded run's inbox is never drained; messages reach the inbox before the log
  (`core/src/agent/input_queue.rs:57` has the opposite order); a child can be spawned
  under a parent that was closed meanwhile.

*Reports of children*

- The follow-up attempt starts when `TurnDone` is in the log but before
  `finalize_turn_execution` releases the lease: it may find the session busy, and
  nothing tries again. The same holds of a parent kept busy by a user's turn.
- A reporter racing with the reconciliation after a wake queues an acknowledged report
  again.
- An error between the checkout of a batch and its submission leaves the queue's front
  `WakingParent`, and the queue blocked until a restart (`wake.rs:124-141`).
- `BatchStarted` is appended after the submission, where `core/src/agent/input_queue.rs`
  calls it the first durable event; a crash or a failed wake before a restart leaves an
  active batch that is never recovered (`session_bridge.rs:706` against the
  at-least-once of `input_queue.rs:16-19`).

*Loop and context*

- After a compaction has put the last prompts into a summary no user message remains,
  and the next prune clears even results that were just returned (`prune_pass.rs:82-97`
  against `request.rs:43`, "旧的可清除结果被清空").
- A compaction whose retry salvaged less under-reports `messages_removed`
  (`compaction.rs:490`), and `messages_removed` counts live messages where the projector
  has another number of them, so that what is rebuilt differs from what was sent
  (`projection.rs:290,300`). Digest and recent user messages are not in the events at
  all (`openspec/specs/session-runtime/spec.md:461`); a second compaction, a fallback or
  a hook's summary drops the prompt.
- `ToolCall` and `ToolResult` reach the sink before the step's `AssistantFinal` (the
  test at `projection.rs:803` feeds the other order); a blocked call has a result
  without a call, a stopped turn a call without a result; a hook's denial persists a
  prompt the live history never had.
- No limit on tool cycles exists, and the count of continuations is never reset.

*External tools and reload*

- Every MCP request re-applies MCP tools only (`mcp.rs:194`), so plugin tools are gone
  until the next reload (`capabilities.rs`: "用 MCP + plugin 的外部调用器替换整份 surface";
  `kernel/spec.md:229`).
- A reconnect that fails returns before the synchronisation, so the tools of the closed
  connection stay on the router (`openspec/specs/auxiliary-features/spec.md:45-48`), and
  the next reload's rollback takes them for a plugin's.
- The warm-up applies the start-up plugins even after a reload has shut them down.
- Two reloads share one candidate slot: one may commit the snapshot of the other and
  both fail, with a registry that is active without its hooks and catalogs
  (`plugin-host-runtime/spec.md:48-51`). Router, index and records may then come from
  different requests (`capabilities.rs`: "不做半刷新").
- Two connects to a server leak the first transport, and so does a failed handshake; a
  server rejected while its approval connects may stay connected.
- Plugins started by a reload that fails are never shut down; the MCP manager is never
  shut down; a configuration file that cannot be read disconnects its servers.
- A turn that begins after a reload has looked at the running sessions keeps its hook
  snapshot (`adapter.rs:303`), but its plugin processes are shut down under it
  (`governance.rs:135` against `plugin-host-runtime/spec.md:43-46`).

## Not modelled

- TurnLock: the contents of payloads beyond the turn; Windows sharing modes.
- BatchAppender, CheckpointFiles: malformed lines, path encoding, metadata; the part of
  a record that a write failing inside it leaves in the buffer.
- TurnMutation: `TurnErrored` (it precedes `TurnCompleted` through the same check),
  `delete_session`.
- SessionBranch: what a new session does later; the plan artifacts a fork copies beside
  the log.
- SessionState: failing appends (they are in TurnMutation), Error events (terminal like
  `TurnDone`), messages (HistoryProjection has them), child nodes, tasks, modes, and the
  limit of the recent cache.
- ConversationStream: control and child panels, contents of blocks; live events
  (LiveTranscript has them).
- LiveTranscript: thinking blocks, which go through the code of the assistant's; what a
  tool block says beside its output and status; contents of plans, notes, metrics and
  panels; what happens after a loss.
- AgentControl: the collaboration facts, `observe`, profiles, spawn budgets.
- ParentDelivery: more than one parent session; what a report says; the reports of
  closed children are made by the caller of the close.
- RuntimeLoop, ContextWindow: the cancel tokens, which nobody cancels; what prompts,
  hooks and tools contain, model selection, usage; one weight stands for bytes and
  tokens. A failing write of a large result fails for all or none of a step; the session
  directory is found.
- ExternalSurface: resources and prompts of servers, the operations of the manager the
  server never calls (`begin_call`, health checks, the reconnect loop, hot reload,
  `list_changed`), the result of closing a transport, which every caller ignores.
- Model and prompt adapters, tools, skills, HTTP plumbing and clients: sequential
  computations, external services or plain I/O. `PROJECT.json` gives the reason for
  each.

## Plan

The order is by what a defect would cost. Done are, in this order, the lock and its
contract, the appender and the files, the turns, the session and the stream, branches
and forks, the agents and their reports, the loop with its context, the external
surface, and the live transcript. To come:

1. Turns composed with ExternalSurface: the window between a turn's begin and
   `mark_running` (`governance.rs:135`) is described above and in no module.
2. Proofs: of RuntimeLoop what the projector rebuilds, and of LiveTranscript that no
   text is lost while records do not overtake their live events.
3. Modes and workflow of a session, whose transitions are events like the others;
   observation and spawn budgets of agents.
