--------------------------- MODULE ParentDelivery ---------------------------
(***************************************************************************)
(* How the reports of child agents reach the session of their parent       *)
(* (crates/server/src/application/agent/{terminal,wake}.rs): a report is   *)
(* written to the parent's session, put into an in-memory queue of the     *)
(* registry (agent_control_registry/delivery_queue.rs), taken out in       *)
(* batches, given to a turn of the parent that only runs when the session  *)
(* is free, and acknowledged when that turn has succeeded.                 *)
(*                                                                         *)
(* One parent session.  A task is what one report sets off: the code that  *)
(* makes the report, the attempt to wake the parent, and the watcher of    *)
(* the turn that it started, which goes on to the next attempt.  Every     *)
(* step that can fail does so by chance; a crash loses the queue, the turn *)
(* and all tasks.                                                          *)
(***************************************************************************)
EXTENDS Integers, Sequences, FiniteSets, SequencesExt, Selection

CONSTANTS Reports,       \* the reports: numbers
          Child,         \* the child that makes each: a function on Reports
          Capacity,      \* parent_delivery_capacity
          MaxFollowUps,  \* MAX_AUTOMATIC_INPUT_FOLLOW_UPS
          MaxFaults      \* bound on the crashes, failed calls, failed turns and closes

ASSUME ReportAssumption == Reports \subseteq Nat \ {0}
ASSUME LimitAssumption == /\ Capacity \in Nat /\ MaxFollowUps \in Nat \ {0}
                          /\ MaxFaults \in Nat

VARIABLES
    notes,      \* ChildSessionNotification events of the session's log, in order
    logged,     \* reports with an AgentInputQueued event in the log
    pending,    \* pending_delivery_ids of the projection of that log
    active,     \* active_delivery_ids
    batchId,    \* active_batch_id: the wake turn's task and round
    discarded,  \* discarded_delivery_ids
    queue,      \* ParentDeliveryQueue: reports, each with its state
    turn,       \* who runs the session's turn
    task,       \* the tasks
    closer,     \* the close of the parent itself
    faults,     \* how many of these there were
    heard,      \* reports given to a wake turn that succeeded (ghost)
    stuck,      \* checked-out reports an error has left behind (ghost)
    gone,       \* reports that a close or a crash took from the queue (ghost)
    again       \* reports queued while a task had them or after their ack (ghost)

log == <<notes, logged, pending, active, batchId, discarded>>
ghosts == <<heard, stuck, gone, again>>
vars == <<log, queue, turn, task, closer, faults, ghosts>>

Free == 0
User == -1
NoBatch == <<>>
Stages == {"new", "append", "enqueue", "reconcile", "refill", "checkout", "submit", "begin",
           "wait", "ack", "consume", "requeue", "done"}
Outcomes == {"none", "ok", "failed"}
Holding == {"submit", "begin", "wait", "ack", "consume", "requeue"}

TypeOK ==
    /\ notes \in Seq(Reports)
    /\ logged \subseteq Reports /\ pending \subseteq Reports
    /\ active \subseteq Reports /\ discarded \subseteq Reports
    /\ batchId \in {NoBatch} \cup (Reports \X Nat)
    /\ queue \in Seq([id : Reports, waking : BOOLEAN])
    /\ turn \in Reports \cup {Free, User}
    /\ task \in [Reports -> [stage : Stages, snap : Seq(Reports), batch : Seq(Reports),
                             left : Nat, outcome : Outcomes]]
    /\ closer \in [stage : {"none", "read", "written", "done"}, ids : SUBSET Reports]
    /\ faults \in Nat
    /\ heard \subseteq Reports /\ stuck \subseteq Reports
    /\ gone \subseteq Reports /\ again \subseteq Reports

Idle == [stage |-> "new", snap |-> <<>>, batch |-> <<>>, left |-> 0, outcome |-> "none"]
Over == [Idle EXCEPT !.stage = "done"]

Init ==
    /\ notes = <<>> /\ logged = {} /\ pending = {} /\ active = {} /\ discarded = {}
    /\ batchId = NoBatch
    /\ queue = <<>>
    /\ turn = Free
    /\ task = [d \in Reports |-> Idle]
    /\ closer = [stage |-> "none", ids |-> {}]
    /\ faults = 0
    /\ heard = {} /\ stuck = {} /\ gone = {} /\ again = {}

-----------------------------------------------------------------------------
\* The queue.
Ids(q) == {q[k].id : k \in DOMAIN q}                  \* known_delivery_ids
Batch(t) == Range(task[t].batch)
Held == UNION {Batch(t) : t \in {u \in Reports : task[u].stage \in Holding}}

\* enqueue_parent_delivery_locked: known ids and what exceeds the capacity are
\* refused.
Enqueued(q, d) ==
    IF d \in Ids(q) \/ Len(q) >= Capacity THEN q ELSE Append(q, [id |-> d, waking |-> FALSE])

\* Bug: the front may be in the hands of another wake turn.
ReadyAny(q) == IF q = <<>> THEN 0 ELSE Len(q)

\* checkout_parent_delivery_batch_locked: how many entries from the front are
\* queued.  All reports of a session are for the same parent agent.
Ready(q) ==
    CHOOSE n \in 0..Len(q) : /\ \A k \in 1..n : ~q[k].waking
                             /\ n < Len(q) => q[n+1].waking

Woken(q, n) == [k \in DOMAIN q |-> [q[k] EXCEPT !.waking = @ \/ k <= n]]

\* Bug: only the front of the batch is put back.
RequeuedFront(q, S) == [k \in DOMAIN q |-> [q[k] EXCEPT !.waking = @ /\ (k > 1 \/ q[k].id \notin S)]]

\* requeue_parent_delivery_batch_locked
Requeued(q, S) == [k \in DOMAIN q |-> [q[k] EXCEPT !.waking = @ /\ q[k].id \notin S]]

\* consume_front_deliveries: the batch is taken from the front as far as the two
\* agree.
Agree(q, b) ==
    CHOOSE n \in 0..Len(b) : /\ n <= Len(q)
                             /\ \A k \in 1..n : q[k].id = b[k]
                             /\ n < Len(b) => n = Len(q) \/ q[n+1].id # b[n+1]

\* discard_parent_deliveries_locked
Without(q, S) == Selected(q, {k \in DOMAIN q : q[k].id \notin S})

\* recoverable_parent_deliveries: what is pending and in no active batch, in
\* the order of the notifications.
Recoverable == Selected(notes, {k \in DOMAIN notes : notes[k] \in pending \ active})

-----------------------------------------------------------------------------
Move(t, stage) == task' = [task EXCEPT ![t].stage = stage]
Ends(t) == task' = [task EXCEPT ![t] = Over]
Faulty == faults < MaxFaults /\ faults' = faults + 1

\* finalize_child_turn_with_outcome and send_to_parent: the notification is
\* written to the parent's session.
Notify(t) ==
    /\ task[t].stage = "new"
    /\ notes' = Append(notes, t)
    /\ Move(t, "append")
    /\ UNCHANGED <<logged, pending, active, batchId, discarded, queue, turn, closer, faults, ghosts>>

NotifyFails(t) ==
    /\ task[t].stage = "new"
    /\ Faulty
    /\ Ends(t)
    /\ UNCHANGED <<log, queue, turn, closer, ghosts>>

\* reactivate_parent_agent_if_idle: first the AgentInputQueued event ...
AppendQueued(t) ==
    /\ task[t].stage = "append"
    /\ logged' = logged \cup {t}
    /\ pending' = pending \cup ({t} \ discarded)
    /\ Move(t, "enqueue")
    /\ UNCHANGED <<notes, active, batchId, discarded, queue, turn, closer, faults, ghosts>>

AppendQueuedFails(t) ==
    /\ task[t].stage = "append"
    /\ Faulty
    /\ Ends(t)
    /\ UNCHANGED <<log, queue, turn, closer, ghosts>>

Enters(d) ==
    /\ queue' = Enqueued(queue, d)
    /\ again' = IF Len(queue') > Len(queue) /\ (d \in Held \/ d \notin pending)
                THEN again \cup {d} ELSE again
    /\ gone' = gone \ Ids(queue')

\* ... then the queue, full or not, and then the attempt to wake the parent.
Enqueue(t) ==
    /\ task[t].stage = "enqueue"
    /\ Enters(t)
    /\ task' = [task EXCEPT ![t].stage = "reconcile", ![t].left = MaxFollowUps]
    /\ UNCHANGED <<log, turn, closer, faults, heard, stuck>>

\* try_start_parent_delivery_turn begins with reconcile_parent_delivery_queue:
\* the log is read, and what could be recovered is queued, one by one.
Reconcile(t) ==
    /\ task[t].stage = "reconcile"
    /\ task' = [task EXCEPT ![t].stage = "refill", ![t].snap = Recoverable]
    /\ UNCHANGED <<log, queue, turn, closer, faults, ghosts>>

ReconcileFails(t) ==
    /\ task[t].stage = "reconcile"
    /\ Faulty
    /\ Ends(t)
    /\ UNCHANGED <<log, queue, turn, closer, ghosts>>

Refill(t) ==
    LET snap == task[t].snap IN
    /\ task[t].stage = "refill"
    /\ IF snap = <<>>
       THEN Move(t, "checkout") /\ UNCHANGED <<queue, gone, again>>
       ELSE /\ Enters(Head(snap))
            /\ task' = [task EXCEPT ![t].snap = Tail(snap)]
    /\ UNCHANGED <<log, turn, closer, faults, heard, stuck>>

Checkout(t) ==
    LET n == Ready(queue) IN
    /\ task[t].stage = "checkout"
    /\ IF n = 0
       THEN Ends(t) /\ UNCHANGED queue
       ELSE /\ queue' = Woken(queue, n)
            /\ task' = [task EXCEPT ![t].stage = "submit",
                                    ![t].batch = [k \in 1..n |-> queue[k].id]]
    /\ UNCHANGED <<log, turn, closer, faults, ghosts>>

\* The task is over; what it had checked out stays as it is.
GivesUp(t) ==
    /\ Faulty
    /\ Ends(t)
    /\ stuck' = stuck \cup Batch(t)
    /\ UNCHANGED <<log, queue, turn, closer, heard, gone, again>>

\* resolve_runtime_config_for_session fails.
ConfigFails(t) == task[t].stage = "submit" /\ GivesUp(t)

\* The wake turn is submitted if the session is free ...
Submit(t) ==
    /\ task[t].stage = "submit"
    /\ turn = Free
    /\ turn' = t
    /\ Move(t, "begin")
    /\ UNCHANGED <<log, queue, closer, faults, ghosts>>

\* ... or else, and when the submission fails or a hook handles the input, the
\* batch goes back.
SubmitRefused(t) ==
    /\ task[t].stage = "submit"
    /\ IF turn = Free THEN Faulty ELSE UNCHANGED faults
    /\ Move(t, "requeue")
    /\ UNCHANGED <<log, queue, turn, closer, ghosts>>

\* append_parent_delivery_batch_started, best effort.
AppendStarted(t) ==
    /\ task[t].stage = "begin"
    /\ batchId' = <<t, task[t].left>>
    /\ active' = Batch(t)
    /\ Move(t, "wait")
    /\ UNCHANGED <<notes, logged, pending, discarded, queue, turn, closer, faults, ghosts>>

AppendStartedFails(t) ==
    /\ task[t].stage = "begin"
    /\ Faulty
    /\ Move(t, "wait")
    /\ UNCHANGED <<log, queue, turn, closer, ghosts>>

\* Bug: the batch of a failed wake turn is not put back.
WaitedOnly(t) ==
    /\ task[t].stage = "wait"
    /\ task[t].outcome # "none"
    /\ task' = [task EXCEPT ![t] = IF task[t].outcome = "ok"
                                   THEN [@ EXCEPT !.stage = "ack", !.outcome = "none"] ELSE Over]
    /\ UNCHANGED <<log, queue, turn, closer, faults, ghosts>>

\* Bug: the batch is acknowledged whatever became of the turn.
WaitedAny(t) ==
    /\ task[t].stage = "wait"
    /\ task[t].outcome # "none"
    /\ task' = [task EXCEPT ![t].stage = "ack", ![t].outcome = "none"]
    /\ UNCHANGED <<log, queue, turn, closer, faults, ghosts>>

\* finalize_parent_wake_turn: the outcome of the turn decides.
Waited(t) ==
    /\ task[t].stage = "wait"
    /\ task[t].outcome # "none"
    /\ task' = [task EXCEPT ![t].stage = IF task[t].outcome = "ok" THEN "ack" ELSE "requeue",
                            ![t].outcome = "none"]
    /\ UNCHANGED <<log, queue, turn, closer, faults, ghosts>>

WaitFails(t) == task[t].stage = "wait" /\ task[t].outcome # "none" /\ GivesUp(t)

\* append_parent_delivery_batch_acked
AppendAcked(t) ==
    /\ task[t].stage = "ack"
    /\ pending' = pending \ (Batch(t) \cup discarded)
    /\ IF batchId = <<t, task[t].left>> THEN batchId' = NoBatch /\ active' = {}
       ELSE UNCHANGED <<batchId, active>>
    /\ Move(t, "consume")
    /\ UNCHANGED <<notes, logged, discarded, queue, turn, closer, faults, ghosts>>

AppendAckedFails(t) == task[t].stage = "ack" /\ GivesUp(t)

\* consume_parent_delivery_batch; then the next round, up to the limit.
Consume(t) ==
    LET b == task[t].batch
        n == Agree(queue, b)
    IN
    /\ task[t].stage = "consume"
    /\ queue' = SubSeq(queue, n + 1, Len(queue))
    /\ task' = IF n < Len(b) THEN [task EXCEPT ![t].stage = "requeue"]
               ELSE IF task[t].left > 1
               THEN [task EXCEPT ![t].stage = "reconcile", ![t].batch = <<>>, ![t].left = @ - 1]
               ELSE [task EXCEPT ![t] = Over]
    /\ UNCHANGED <<log, turn, closer, faults, ghosts>>

Requeue(t) ==
    /\ task[t].stage = "requeue"
    /\ queue' = Requeued(queue, Batch(t))
    /\ Ends(t)
    /\ UNCHANGED <<log, turn, closer, faults, ghosts>>

-----------------------------------------------------------------------------
\* The turns of the session: the user's and the wake turns.
UserTurnStarts ==
    /\ turn = Free
    /\ turn' = User
    /\ UNCHANGED <<log, queue, task, closer, faults, ghosts>>

UserTurnEnds ==
    /\ turn = User
    /\ turn' = Free
    /\ UNCHANGED <<log, queue, task, closer, faults, ghosts>>

Running(t) == turn = t /\ task[t].stage \in {"begin", "wait"} /\ task[t].outcome = "none"

\* A wake turn writes its last event, which is what the watcher waits for ...
WakeTurnEnds(t) ==
    /\ Running(t)
    /\ \/ /\ task' = [task EXCEPT ![t].outcome = "ok"]
          /\ heard' = heard \cup Batch(t)
          /\ UNCHANGED faults
       \/ /\ Faulty
          /\ task' = [task EXCEPT ![t].outcome = "failed"]
          /\ UNCHANGED heard
    /\ UNCHANGED <<log, queue, turn, closer, stuck, gone, again>>

\* ... and leaves the session free some time later.
WakeTurnFrees(t) ==
    /\ turn = t
    /\ ~Running(t)
    /\ turn' = Free
    /\ UNCHANGED <<log, queue, task, closer, faults, ghosts>>

-----------------------------------------------------------------------------
Discard(S) == /\ queue' = Without(queue, S)
              /\ gone' = gone \cup (Ids(queue) \cap S)

\* A child is closed: terminate_subtree takes its reports from the queue.
CloseChild(c) ==
    /\ Faulty
    /\ Discard({d \in Reports : Child[d] = c})
    /\ UNCHANGED <<log, turn, task, closer, heard, stuck, again>>

\* The parent is closed by its own parent: its pending input is read ...
CloserReads ==
    /\ closer.stage = "none"
    /\ Faulty
    /\ closer' = [stage |-> "read", ids |-> pending]
    /\ UNCHANGED <<log, queue, turn, task, ghosts>>

\* ... written off ...
CloserDiscards ==
    /\ closer.stage = "read"
    /\ closer' = [closer EXCEPT !.stage = "written"]
    /\ discarded' = discarded \cup closer.ids
    /\ pending' = IF closer.ids = {} THEN pending ELSE pending \ discarded'
    /\ IF closer.ids # {} /\ active \cap discarded' # {}
       THEN active' = {} /\ batchId' = NoBatch
       ELSE UNCHANGED <<active, batchId>>
    /\ UNCHANGED <<notes, logged, queue, turn, task, faults, ghosts>>

\* ... and the subtree terminated, all children with it.
CloserTerminates ==
    /\ closer.stage = "written"
    /\ closer' = [closer EXCEPT !.stage = "done"]
    /\ Discard(Reports)
    /\ UNCHANGED <<log, turn, task, faults, heard, stuck, again>>

\* The server stops and starts again.
Crash ==
    /\ Faulty
    /\ queue' = <<>>
    /\ turn' = Free
    /\ task' = [d \in Reports |-> IF task[d].stage = "new" THEN Idle ELSE Over]
    /\ closer' = [closer EXCEPT !.stage = IF closer.stage = "none" THEN "none" ELSE "done"]
    /\ stuck' = {}
    /\ gone' = gone \cup active
    /\ UNCHANGED <<log, heard, again>>

-----------------------------------------------------------------------------
Makes(t) == Notify(t) \/ NotifyFails(t) \/ AppendQueued(t) \/ AppendQueuedFails(t) \/ Enqueue(t)
Attempts(t) == \/ Reconcile(t) \/ ReconcileFails(t) \/ Refill(t) \/ Checkout(t) \/ ConfigFails(t)
               \/ Submit(t) \/ SubmitRefused(t)
Watches(t) == \/ AppendStarted(t) \/ AppendStartedFails(t) \/ Waited(t) \/ WaitFails(t) \/ AppendAcked(t)
              \/ AppendAckedFails(t) \/ Consume(t) \/ Requeue(t)
Runs(t) == task[t].stage # "new" /\ (Makes(t) \/ Attempts(t) \/ Watches(t))

Next ==
    \/ \E t \in Reports : Makes(t) \/ Attempts(t) \/ Watches(t) \/ WakeTurnEnds(t) \/ WakeTurnFrees(t)
    \/ UserTurnStarts \/ UserTurnEnds
    \/ \E c \in Range(Child) : CloseChild(c)
    \/ CloserReads \/ CloserDiscards \/ CloserTerminates
    \/ Crash

Spec == Init /\ [][Next]_vars

\* The tasks of the runtime are scheduled and a turn comes to its end.
Fairness == /\ WF_vars(\E t \in Reports : Runs(t))
            /\ WF_vars(\E t \in Reports : WakeTurnEnds(t) \/ WakeTurnFrees(t))
            /\ WF_vars(UserTurnEnds)
FairSpec == Spec /\ Fairness

-----------------------------------------------------------------------------
\* Hazard: a report is checked out, carried by calls that fail, refilled from
\* a log read earlier, put back.  One task at a time has it, unless a close took
\* it from the queue, or the log was read before its ack, and it was queued anew.
OneBatch ==
    \A d \in Reports \ again :
       Cardinality({t \in Reports : task[t].stage \in Holding /\ d \in Batch(t)}) <= 1

\* Hazard: a report vanishes between the log, the queue and a batch
\* (openspec/specs/agent-delivery-contracts/spec.md:128: it MUST NOT be dropped
\* silently).  While it is pending a task has it, or it is ready in the queue, or
\* the next attempt recovers it; but for what an error left checked out and what
\* the queue lost while the log named it in a started batch.
InQueue(d, waking) == \E k \in DOMAIN queue : queue[k].id = d /\ queue[k].waking = waking
NotDropped ==
    \A d \in pending :
       \/ d \in Held
       \/ InQueue(d, FALSE)
       \/ d \notin active /\ ~InQueue(d, TRUE)
       \/ d \in stuck \cup gone

\* Hazard: the queue is blocked for good by a front that no task will put back.
\* A report that is checked out is put back or taken out, unless an error or a
\* crash ended the task.
WakingEnds == \A d \in Reports : InQueue(d, TRUE) ~> (~InQueue(d, TRUE) \/ d \in stuck)

\* What DeliveryContract promises: a report is settled only by a wake turn that
\* was given it and succeeded, or by a close of the parent, whatever fails.
Contract == INSTANCE DeliveryContract
               WITH reported <- logged, open <- pending, withdrawn <- discarded
ContractKept == Contract!Spec
=============================================================================
