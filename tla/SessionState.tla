---------------------------- MODULE SessionState ----------------------------
(***************************************************************************)
(* crates/host-session/src/state.rs with compaction.rs, catalog.rs,        *)
(* query.rs and projection_registry.rs: a loaded session.  An event is     *)
(* appended through the EventStore (awaited), then applied to the          *)
(* projections under their mutex, then broadcast; the three steps are not  *)
(* one, so the steps of two appenders interleave.  After the events of a   *)
(* batch that holds a CompactApplied its appender writes a checkpoint: the *)
(* projections as they are, under the number of its own last event.  A     *)
(* restart recovers the session from the checkpoint and the events after   *)
(* it.  Waiters (wake.rs, terminal.rs) wait for the end of a turn.         *)
(*                                                                         *)
(* The EventStore is what its trait promises: appends are numbered in the  *)
(* order in which they become durable, a checkpoint is atomic.  What the   *)
(* files do about that is CheckpointFiles and BatchAppender.  Left out:    *)
(* failing appends (TurnMutation), Error events (terminal like TurnDone),  *)
(* the 16384-event limit of the recent cache.                              *)
(***************************************************************************)
EXTENDS Naturals, Sequences, SequencesExt, FiniteSets

CONSTANTS Task,          \* the tasks that run the turns, one after the other
          Others,        \* concurrent appenders: agent input, deliveries, mode switches
          Waiters,
          Prompts,       \* origins of the first message of a turn: "user", "queued"
          Batches,       \* what a running turn persists with one call
          Capacity,      \* SESSION_BROADCAST_CAPACITY
          MaxTurns, MaxLog, MaxRestarts   \* bounds

ASSUME SessionAssumption ==
    /\ Task \notin Others
    /\ Batches \subseteq Seq({"work", "compact"})
    /\ Prompts \subseteq {"user", "queued"}
    /\ Capacity \in Nat \ {0}
    /\ MaxTurns \in Nat /\ MaxLog \in Nat /\ MaxRestarts \in Nat

VARIABLES
    log,         \* durable events: [turn, kind]; the storage_seq is the index
    state,       \* the projections of the loaded SessionState
    at,          \* each appender: its stage and the event it is at
    batch,       \* what the task's call has still to append, and its persisted_events
    turn, open,  \* the last turn, and whether it has not ended
    checkpoint,  \* the recovery checkpoint: [seq, state]
    sent,        \* what the broadcaster has sent, in order
    waiter,      \* each waiter: [stage, turn, next, verdict], and of the look it is at
                 \* [found, phase], and where it goes if the turn has not ended (then)
    restarts

vars == <<log, state, at, batch, turn, open, checkpoint, sent, waiter, restarts>>

Appenders == Others \cup {Task}
Turns == 0..MaxTurns        \* 0: events of no turn
Kinds == {"user", "queued", "work", "compact", "done", "cancelled", "note"}
Phases == {"idle", "thinking", "streaming", "interrupted"}
Running == {"thinking", "streaming"}
Ends == {"done", "cancelled"}

-----------------------------------------------------------------------------
\* target_phase: CallingTool counts as streaming.
TargetPhase(kind) ==
    CASE kind = "user" -> "thinking"
      [] kind = "work" -> "streaming"
      [] kind = "cancelled" -> "interrupted"
      [] OTHER -> "idle"

\* Bug: a user's prompt is taken for an internal one.
PhaseAfterUnmoved(phase, kind) ==
    IF kind \in {"work", "done", "cancelled"} THEN TargetPhase(kind) ELSE phase

\* PhaseTracker::on_event: internal prompts and auxiliary events move nothing.
PhaseAfter(phase, kind) ==
    IF kind \in {"user", "work", "done", "cancelled"} THEN TargetPhase(kind) ELSE phase

\* AgentStateProjector's own phase: a running turn is "thinking" until it ends.
AgentPhaseAfter(phase, kind) ==
    CASE kind = "user" -> "thinking"
      [] kind \in Ends -> "idle"
      [] OTHER -> phase

\* normalize_recovered_phase
NormalizePhase(phase) == IF phase \in Running THEN "interrupted" ELSE phase

\* TurnProjectionIndex::apply
EndAfter(end, kind) ==
    IF kind \in Ends THEN kind ELSE IF end = "absent" THEN "open" ELSE end

\* ProjectionRegistry::apply of the event numbered i.
Apply(s, i) ==
    LET e == log[i] IN
    [applied |-> Append(s.applied, i),
     recent |-> s.recent \cup {i},
     phase |-> PhaseAfter(s.phase, e.kind),
     agentPhase |-> AgentPhaseAfter(s.agentPhase, e.kind),
     ends |-> IF e.turn = 0 THEN s.ends ELSE [s.ends EXCEPT ![e.turn] = EndAfter(@, e.kind)]]

NoState == [applied |-> <<>>, recent |-> {}, phase |-> "idle", agentPhase |-> "idle",
            ends |-> [t \in Turns |-> "absent"]]
NoCheckpoint == [seq |-> 0, state |-> NoState]

\* ... and of every event after the one numbered last.
ApplyAfter(s, last) ==
    LET through[i \in last..Len(log)] == IF i = last THEN s ELSE Apply(through[i - 1], i)
    IN  through[Len(log)]

\* SessionState::from_recovery, and SessionState::new for a session without a
\* checkpoint, whose phase is that of its last event.
Recovered ==
    IF checkpoint.seq = 0
    THEN [ApplyAfter(NoState, 0) EXCEPT
            !.phase = IF log = <<>> THEN "idle" ELSE NormalizePhase(TargetPhase(Last(log).kind))]
    ELSE ApplyAfter([checkpoint.state EXCEPT !.phase = NormalizePhase(checkpoint.state.agentPhase),
                                             !.recent = {}],
                    checkpoint.seq)

NoBatch == [turn |-> 0, left |-> <<>>, last |-> 0, compacted |-> FALSE, snapshot |-> NoState]
Off == [stage |-> "off", turn |-> 0, next |-> 1, verdict |-> "none",
        found |-> "absent", phase |-> "idle", then |-> "off"]

Init ==
    /\ log = <<>>
    /\ state = NoState
    /\ at = [p \in Appenders |-> [stage |-> "idle", seq |-> 0]]
    /\ batch = NoBatch
    /\ turn = 0 /\ open = FALSE
    /\ checkpoint = NoCheckpoint
    /\ sent = <<>>
    /\ waiter = [w \in Waiters |-> Off]
    /\ restarts = 0

TaskFree == at[Task].stage = "idle" /\ batch.left = <<>>
Stage(p, stage, seq) == at' = [at EXCEPT ![p] = [stage |-> stage, seq |-> seq]]
Persist(t, events) ==
    /\ Len(log) + Len(events) <= MaxLog
    /\ batch' = [NoBatch EXCEPT !.turn = t, !.left = events]

-----------------------------------------------------------------------------
\* A prompt is accepted, and its message is the first event of a new turn.
StartTurn(origin) ==
    /\ TaskFree /\ ~open /\ turn < MaxTurns
    /\ Persist(turn + 1, <<origin>>)
    /\ turn' = turn + 1
    /\ open' = TRUE
    /\ UNCHANGED <<log, state, at, checkpoint, sent, waiter, restarts>>

\* The running turn persists the events of one call.
ContinueTurn(events) ==
    /\ TaskFree /\ open
    /\ Persist(turn, events)
    /\ UNCHANGED <<log, state, at, turn, open, checkpoint, sent, waiter, restarts>>

\* The turn completes or is interrupted.
EndTurn(end) ==
    /\ TaskFree /\ open
    /\ Persist(turn, <<end>>)
    /\ open' = FALSE
    /\ UNCHANGED <<log, state, at, turn, checkpoint, sent, waiter, restarts>>

\* persist_compact_events, outside a turn: today only tests call it.
CompactBetween ==
    /\ TaskFree /\ ~open /\ turn > 0
    /\ <<"compact">> \in Batches
    /\ Persist(0, <<"compact">>)
    /\ UNCHANGED <<log, state, at, turn, open, checkpoint, sent, waiter, restarts>>

\* Bug: the checkpoint is numbered by the first event of the batch.
StoreNextFirst ==
    /\ at[Task].stage = "idle" /\ batch.left # <<>>
    /\ Len(log) < MaxLog
    /\ log' = Append(log, [turn |-> batch.turn, kind |-> Head(batch.left)])
    /\ batch' = [batch EXCEPT !.left = Tail(@), !.last = IF @ = 0 THEN Len(log) + 1 ELSE @,
                              !.compacted = @ \/ Head(batch.left) = "compact"]
    /\ Stage(Task, "stored", Len(log) + 1)
    /\ UNCHANGED <<state, turn, open, checkpoint, sent, waiter, restarts>>

\* append_and_broadcast: writer.append returns to the turn's task ...
StoreNext ==
    /\ at[Task].stage = "idle" /\ batch.left # <<>>
    /\ Len(log) < MaxLog
    /\ log' = Append(log, [turn |-> batch.turn, kind |-> Head(batch.left)])
    /\ batch' = [batch EXCEPT !.left = Tail(@), !.last = Len(log) + 1,
                              !.compacted = @ \/ Head(batch.left) = "compact"]
    /\ Stage(Task, "stored", Len(log) + 1)
    /\ UNCHANGED <<state, turn, open, checkpoint, sent, waiter, restarts>>

\* ... or to another appender.
StoreNote(p) ==
    /\ p # Task /\ at[p].stage = "idle"
    /\ turn > 0 /\ Len(log) < MaxLog
    /\ log' = Append(log, [turn |-> 0, kind |-> "note"])
    /\ Stage(p, "stored", Len(log) + 1)
    /\ UNCHANGED <<state, batch, turn, open, checkpoint, sent, waiter, restarts>>

\* translate_store_and_cache, under the mutex of the projections.
ApplyStored(p) ==
    /\ at[p].stage = "stored"
    /\ state' = Apply(state, at[p].seq)
    /\ Stage(p, "applied", at[p].seq)
    /\ UNCHANGED <<log, batch, turn, open, checkpoint, sent, waiter, restarts>>

\* The records go to the broadcaster; after the last event of a batch with a
\* CompactApplied the task turns to the checkpoint.
Send(p) ==
    /\ at[p].stage = "applied"
    /\ sent' = Append(sent, at[p].seq)
    /\ IF p = Task /\ batch.left = <<>> /\ batch.compacted
       THEN Stage(p, "check", batch.last)
       ELSE Stage(p, "idle", 0)
    /\ UNCHANGED <<log, state, batch, turn, open, checkpoint, waiter, restarts>>

\* checkpoint_if_compacted takes the projections as they are ...
BuildCheckpoint ==
    /\ at[Task].stage = "check"
    /\ batch' = [batch EXCEPT !.snapshot = state]
    /\ Stage(Task, "built", at[Task].seq)
    /\ UNCHANGED <<log, state, turn, open, checkpoint, sent, waiter, restarts>>

\* ... and hands them to the EventStore, whose failure is only logged.
PersistCheckpoint ==
    /\ at[Task].stage = "built"
    /\ checkpoint' \in {[seq |-> at[Task].seq, state |-> batch.snapshot], checkpoint}
    /\ batch' = NoBatch
    /\ Stage(Task, "idle", 0)
    /\ UNCHANGED <<log, state, turn, open, sent, waiter, restarts>>

\* The process ends, a new one loads the session (ensure_loaded_session).
Restart ==
    /\ restarts < MaxRestarts /\ log # <<>>
    /\ restarts' = restarts + 1
    /\ state' = Recovered
    /\ at' = [p \in Appenders |-> [stage |-> "idle", seq |-> 0]]
    /\ batch' = NoBatch
    /\ open' = FALSE
    /\ sent' = <<>>
    /\ waiter' = [w \in Waiters |-> Off]
    /\ UNCHANGED <<log, turn, checkpoint>>

-----------------------------------------------------------------------------
\* Events of turn t among those numbered in S.
EventsOf(t, S) == {i \in S : log[i].turn = t}

\* What resolve_terminal_kind makes of a snapshot with these events and this
\* phase, the projection looked up now; "none" when turn_snapshot_is_terminal says it is
\* not one.  The projection is that of the index or, failing that, of the events found.
Verdict(t, found, phase) ==
    LET end == IF state.ends[t] # "absent" THEN state.ends[t] ELSE found IN
    CASE end \in Ends -> end
      [] end \notin Ends /\ found # "absent" /\ phase = "interrupted" -> "cancelled"
      [] OTHER -> "none"

\* project_turn_projection of the turn's events.
Found(t, S) ==
    IF EventsOf(t, S) = {} THEN "absent"
    ELSE IF \E i \in EventsOf(t, S) : log[i].kind \in Ends
         THEN LET last == CHOOSE i \in EventsOf(t, S) :
                            /\ log[i].kind \in Ends
                            /\ \A j \in EventsOf(t, S) : log[j].kind \in Ends => j <= i
              IN log[last].kind
         ELSE "open"

\* A look at the turn begins with its events.
Look(w, found, then) ==
    waiter' = [waiter EXCEPT ![w].stage = "phase", ![w].found = found, ![w].then = then]

\* Bug: it has looked at the session before it subscribes.
SubscribeLate(w, t) ==
    /\ waiter[w].stage = "off"
    /\ EventsOf(t, ToSet(sent)) # {}
    /\ waiter' = [waiter EXCEPT ![w] = [Off EXCEPT !.stage = "receiving", !.turn = t,
                                                   !.next = Len(sent) + 1]]
    /\ UNCHANGED <<log, state, at, batch, turn, open, checkpoint, sent, restarts>>

\* wait_for_turn_terminal_snapshot of a turn whose prompt has been accepted
\* subscribes ...
Subscribe(w, t) ==
    /\ waiter[w].stage = "off"
    /\ EventsOf(t, ToSet(sent)) # {}
    /\ waiter' = [waiter EXCEPT ![w] = [Off EXCEPT !.stage = "checking", !.turn = t,
                                                   !.next = Len(sent) + 1]]
    /\ UNCHANGED <<log, state, at, batch, turn, open, checkpoint, sent, restarts>>

\* ... looks at the recent events ...
ReadRecent(w) ==
    /\ waiter[w].stage = "checking"
    /\ Look(w, Found(waiter[w].turn, state.recent), "replaying")
    /\ UNCHANGED <<log, state, at, batch, turn, open, checkpoint, sent, restarts>>

\* ... and then at what it replays from the log; ...
Replay(w) ==
    /\ waiter[w].stage = "replaying"
    /\ Look(w, Found(waiter[w].turn, DOMAIN log), "receiving")
    /\ UNCHANGED <<log, state, at, batch, turn, open, checkpoint, sent, restarts>>

Lags(w) == Len(sent) >= waiter[w].next + Capacity

\* ... after that it looks again at every record of its turn, or begins again when
\* it lags.
Receive(w) ==
    /\ waiter[w].stage = "receiving" /\ waiter[w].next <= Len(sent)
    /\ LET t == waiter[w].turn IN
       waiter' = IF Lags(w)
                 THEN [waiter EXCEPT ![w].stage = "checking", ![w].next = Len(sent) - Capacity + 1]
                 ELSE IF log[sent[waiter[w].next]].turn = t
                 THEN [waiter EXCEPT ![w].stage = "phase", ![w].next = @ + 1,
                                     ![w].found = Found(t, state.recent), ![w].then = "receiving"]
                 ELSE [waiter EXCEPT ![w].next = @ + 1]
    /\ UNCHANGED <<log, state, at, batch, turn, open, checkpoint, sent, restarts>>

\* Each look goes on with the phase (current_phase) ...
ReadPhase(w) ==
    /\ waiter[w].stage = "phase"
    /\ waiter' = [waiter EXCEPT ![w].stage = "projection", ![w].phase = state.phase]
    /\ UNCHANGED <<log, state, at, batch, turn, open, checkpoint, sent, restarts>>

\* ... and ends with the projection of the turn (turn_projection), each under the
\* mutex for itself.
ReadProjection(w) ==
    /\ waiter[w].stage = "projection"
    /\ LET looked == waiter[w]
           verdict == Verdict(looked.turn, looked.found, looked.phase)
       IN  waiter' = [waiter EXCEPT ![w] =
               [Off EXCEPT !.turn = looked.turn, !.verdict = verdict,
                           !.next = IF verdict = "none" THEN looked.next ELSE 1,
                           !.stage = IF verdict = "none" THEN looked.then ELSE "over"]]
    /\ UNCHANGED <<log, state, at, batch, turn, open, checkpoint, sent, restarts>>

Waits(w) == ReadRecent(w) \/ Replay(w) \/ Receive(w) \/ ReadPhase(w) \/ ReadProjection(w)

Next ==
    \/ \E o \in Prompts : StartTurn(o)
    \/ \E b \in Batches : ContinueTurn(b)
    \/ \E e \in Ends : EndTurn(e)
    \/ CompactBetween
    \/ StoreNext
    \/ \E p \in Appenders : StoreNote(p) \/ ApplyStored(p) \/ Send(p)
    \/ BuildCheckpoint
    \/ PersistCheckpoint
    \/ Restart
    \/ \E w \in Waiters :
        \/ \E t \in 1..turn : Subscribe(w, t)
        \/ Waits(w)

Spec == Init /\ [][Next]_vars

\* Tasks that can take a step are polled again by the runtime.
Fairness ==
    /\ \A p \in Appenders : WF_vars(ApplyStored(p)) /\ WF_vars(Send(p))
    /\ \A w \in Waiters : WF_vars(Waits(w))

FairSpec == Spec /\ Fairness

-----------------------------------------------------------------------------
\* Nobody but the task that compacts stores notes, so a checkpoint is right
\* about every other event; a note that another task has stored but not applied
\* may be missing from it (README, disagreements).
Own(i) == log[i].kind # "note"

\* The checkpoint and the events after it hold the task's own events, each once
\* and in order, whenever the process ends and whatever others append: what a
\* restart rebuilds is what the projections would have become
\* (recover_session, checkpoint_if_compacted).
OwnRecovered ==
    LET applied == Recovered.applied
        own == {k \in DOMAIN applied : Own(applied[k])}
    IN  /\ {applied[k] : k \in own} = {i \in DOMAIN log : Own(i)}
        /\ \A j, k \in own : j < k => applied[j] < applied[k]

\* A waiter that returns tells how its turn ended: the log holds that end.  A
\* turn that a queued input began is the exception (query.rs:344).
BeganQueued(t) == \E i \in DOMAIN log : log[i] = [turn |-> t, kind |-> "queued"]
WaiterRight ==
    \A w \in Waiters : waiter[w].stage = "over" /\ ~BeganQueued(waiter[w].turn) =>
        \E i \in DOMAIN log : log[i] = [turn |-> waiter[w].turn, kind |-> waiter[w].verdict]

\* Once the end of its turn is durable a waiter returns, unless the process ends.
WaiterEnds ==
    \A w \in Waiters :
        (/\ waiter[w].stage \notin {"off", "over"}
         /\ \E i \in DOMAIN log : log[i].turn = waiter[w].turn /\ log[i].kind \in Ends)
        ~> waiter[w].stage \in {"off", "over"}
=============================================================================
