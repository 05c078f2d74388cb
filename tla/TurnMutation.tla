---------------------------- MODULE TurnMutation ----------------------------
(***************************************************************************)
(* crates/host-session/src/turn_mutation.rs with its callers in            *)
(* crates/server/src/runtime_bridge/session_port/adapter.rs: the turns of  *)
(* one session in one process, from the submitted prompt to the end of the *)
(* spawned task, while other calls interrupt the session or ask for a      *)
(* manual compact.  The right to write the session comes from TurnLease.   *)
(*                                                                         *)
(* A turn's task owns a runtime loop and a bridge that appends the loop's  *)
(* events one by one; what the loop computes is left out.  The CancelToken *)
(* that interrupt_running_turn cancels is never handed to the loop         *)
(* (adapter.rs:342-380 builds the TurnInput without it), so an interrupt   *)
(* does not stop the task.  A loop that fails reports TurnErrored before   *)
(* TurnCompleted, through the same check; only the latter is kept here.    *)
(*                                                                         *)
(* The request that submits a prompt is the future of an HTTP handler      *)
(* (http/routes/sessions/mutation.rs:48-70): it is dropped at an await     *)
(* when its client goes away.                                              *)
(***************************************************************************)
EXTENDS TurnLease, Naturals, Sequences, FiniteSets

CONSTANTS Interrupts,   \* calls of interrupt_running_turn
          Requests,     \* calls of request_manual_compact
          NoRequest,
          SubRuns,      \* the turns of a sub-agent, whose task reports its start and end
          MaxWork,      \* bound on the non-terminal events of a turn
          Inputs,       \* how many messages each turn begins with, queued ones and its prompt
          MaxFailures   \* bound on what befalls the turns: failing appends and loads,
                        \* panics, dropped requests, and reports of others

ASSUME TurnBoundAssumption == {MaxWork, MaxFailures} \subseteq Nat
ASSUME InputAssumption == Inputs \in [Turns -> Nat \ {0}]
ASSUME SubRunAssumption == SubRuns \subseteq Turns
ASSUME AbsentAssumption == NoTurn \notin Turns /\ NoRequest \notin Requests

VARIABLES
    pc,        \* where each turn stands
    active,    \* TurnMutationState::active_turn
    pending,   \* TurnMutationState::pending_manual_compact
    work,      \* events of the loop each turn's bridge has handled
    log,       \* durable events of the session: [turn, kind]
    running,   \* count of the session in the ActiveSessionRegistry
    call,      \* each interrupt call: where it stands and the turn it took
    request,   \* what became of each compact request
    failures

vars == <<leaseVars, pc, active, pending, work, log, running, call, request, failures>>

Event(t, kind) == [turn |-> t, kind |-> kind]
Kinds == {"input", "started", "work", "done", "cancelled", "finished", "report"}
Terminal == {"done", "cancelled"}
Tasked == {"spawned", "running", "terminal", "ended", "reported", "completed"}
Ended == {"refused", "failed", "over", "panicked", "abandoned"}

TypeOK ==
    /\ LeaseTypeOK
    /\ pc \in [Turns -> {"idle", "calling", "accepted", "begun", "inputs"} \cup Tasked \cup Ended]
    /\ active \in Turns \cup {NoTurn}
    /\ pending \in Requests \cup {NoRequest}
    /\ work \in [Turns -> 0..MaxWork]
    /\ log \in Seq([turn : Turns, kind : Kinds])
    /\ running \in Nat
    /\ call \in [Interrupts -> [stage : {"idle", "taken", "appended", "done"},
                                turn : Turns \cup {NoTurn}]]
    /\ request \in [Requests -> {"none", "checked", "immediate", "deferred", "replaced", "dropped"}]
    /\ failures \in 0..MaxFailures

Init ==
    /\ LeaseInit
    /\ pc = [t \in Turns |-> "idle"]
    /\ active = NoTurn
    /\ pending = NoRequest
    /\ work = [t \in Turns |-> 0]
    /\ log = <<>>
    /\ running = 0
    /\ call = [i \in Interrupts |-> [stage |-> "idle", turn |-> NoTurn]]
    /\ request = [r \in Requests |-> "none"]
    /\ failures = 0

Logged(t, kind) == {k \in DOMAIN log : log[k] = Event(t, kind)}

Goto(t, stage) == pc' = [pc EXCEPT ![t] = stage]
Log(t, kind) == log' = Append(log, Event(t, kind))
MayFail == failures < MaxFailures /\ failures' = failures + 1

\* The SubmitTarget that carries turn t's lease is dropped.
DropLease(t) ==
    /\ owner' = IF owner = t THEN NoTurn ELSE owner
    /\ Tell(t, "ended")

-----------------------------------------------------------------------------
\* accept_submit_prompt: try_acquire_turn wins the session ...
Acquire(t) ==
    /\ pc[t] = "idle"
    /\ Own(t)
    /\ Goto(t, "calling")
    /\ UNCHANGED <<active, pending, work, log, running, call, request, failures>>

\* ... and returns the lease in a SubmitTarget.
Accept(t) ==
    /\ pc[t] = "calling"
    /\ Grant(t)
    /\ Goto(t, "accepted")
    /\ UNCHANGED <<active, pending, work, log, running, call, request, failures>>

\* The lock files cannot be opened or written.
AcquireFails(t) ==
    /\ pc[t] = "calling"
    /\ MayFail
    /\ Fail(t)
    /\ Goto(t, "failed")
    /\ UNCHANGED <<active, pending, work, log, running, call, request>>

\* Bug: Busy is taken for Acquired.
RejectMistaken(t) ==
    /\ pc[t] = "idle"
    /\ owner \notin {t, NoTurn}
    /\ Tell(t, "granted")
    /\ Goto(t, "accepted")
    /\ UNCHANGED <<owner, active, pending, work, log, running, call, request, failures>>

\* Busy: the prompt is rejected (RejectOnBusy) or goes to a branch session.
Reject(t) ==
    /\ pc[t] = "idle"
    /\ Refuse(t)
    /\ Goto(t, "refused")
    /\ UNCHANGED <<active, pending, work, log, running, call, request, failures>>

\* The session cannot be loaded, before or after the prompt is accepted: its
\* SubmitTarget is dropped.
BeginFails(t) ==
    /\ pc[t] = "accepted"
    /\ MayFail
    /\ DropLease(t)
    /\ Goto(t, "failed")
    /\ UNCHANGED <<active, pending, work, log, running, call, request>>

\* begin_accepted_turn.  Its "already has an active turn" error never happens
\* (AcceptedAlone).
Begin(t) ==
    /\ pc[t] = "accepted"
    /\ active = NoTurn
    /\ active' = t
    /\ Goto(t, "begun")
    /\ UNCHANGED <<leaseVars, pending, work, log, running, call, request, failures>>

\* persist_begun_turn_inputs appends the queued inputs and the prompt one by one,
\* whether or not the turn is still the active one.
PersistInputs(t) ==
    /\ pc[t] = "begun"
    /\ Log(t, "input")
    /\ IF Cardinality(Logged(t, "input")) + 1 = Inputs[t] THEN Goto(t, "inputs") ELSE UNCHANGED pc
    /\ UNCHANGED <<leaseVars, active, pending, work, running, call, request, failures>>

\* The request that complete_running_turn returns: no caller looks at it.
DropPending ==
    /\ pending' = NoRequest
    /\ request' = [r \in Requests |-> IF r = pending THEN "dropped" ELSE request[r]]

\* complete_running_turn: only the active turn is cleared, and its lease and
\* the pending compact go with it.
CompleteRunningTurn(t) ==
    IF active = t
    THEN /\ active' = NoTurn
         /\ DropLease(t)
         /\ DropPending
    ELSE UNCHANGED <<leaseVars, active, pending, request>>

\* Bug: a turn whose inputs cannot be written stays the active one.
PersistInputsLeaks(t) ==
    /\ pc[t] = "begun"
    /\ MayFail
    /\ Goto(t, "failed")
    /\ UNCHANGED <<leaseVars, active, pending, request, work, log, running, call>>

\* An input cannot be written: the turn is completed and the error returned; the
\* inputs before it stay in the log.
PersistInputsFails(t) ==
    /\ pc[t] = "begun"
    /\ MayFail
    /\ CompleteRunningTurn(t)
    /\ Goto(t, "failed")
    /\ UNCHANGED <<work, log, running, call>>

\* The request is dropped while it waits for the session to load: its
\* SubmitTarget goes with it.
DroppedBefore(t) ==
    /\ pc[t] = "accepted"
    /\ MayFail
    /\ DropLease(t)
    /\ Goto(t, "failed")
    /\ UNCHANGED <<active, pending, work, log, running, call, request>>

\* The request is dropped while it waits for an append, which is carried out or not:
\* the turn has been made the active one, no task is spawned, and nobody
\* but an interrupt will give its lease back.
DroppedAfter(t) ==
    /\ pc[t] = "begun"
    /\ MayFail
    /\ Log(t, "input") \/ UNCHANGED log
    /\ Goto(t, "abandoned")
    /\ UNCHANGED <<leaseVars, active, pending, work, running, call, request>>

\* mark_running, then the task is spawned.
MarkRunning(t) ==
    /\ pc[t] = "inputs"
    /\ running' = running + 1
    /\ Goto(t, "spawned")
    /\ UNCHANGED <<leaseVars, active, pending, work, log, call, request, failures>>

\* A sub-run's report of kind k, on the way to stage: a failed append is ignored.
Report(t, kind, stage) ==
    /\ Goto(t, stage)
    /\ IF t \in SubRuns
       THEN \/ Log(t, kind) /\ UNCHANGED failures
            \/ MayFail /\ UNCHANGED log
       ELSE UNCHANGED <<log, failures>>
    /\ UNCHANGED <<leaseVars, active, pending, work, running, call, request>>

\* The task begins: append_subrun_started.
TaskStarts(t) == pc[t] = "spawned" /\ Report(t, "started", "running")

\* The bridge appends a non-terminal event of the loop; a failed append is
\* logged and the event lost.
BridgeWork(t) ==
    /\ pc[t] = "running"
    /\ work[t] < MaxWork
    /\ work' = [work EXCEPT ![t] = @ + 1]
    /\ \/ Log(t, "work") /\ UNCHANGED failures
       \/ MayFail /\ UNCHANGED log
    /\ UNCHANGED <<leaseVars, pc, active, pending, running, call, request>>

\* Bug: the turn is completed before its terminal event is appended.
BridgeCompletes(t) ==
    /\ pc[t] = "running"
    /\ CompleteRunningTurn(t)
    /\ Goto(t, "terminal")
    /\ UNCHANGED <<work, log, running, call, failures>>

\* is_stale_terminal_runtime_event: TurnCompleted is dropped unless the turn is
\* the active one when the bridge looks, or the session cannot be read ...
BridgeChecksTerminal(t) ==
    /\ pc[t] = "running"
    /\ \/ UNCHANGED failures /\ Goto(t, IF active = t THEN "terminal" ELSE "ended")
       \/ MayFail /\ Goto(t, "terminal")
    /\ UNCHANGED <<leaseVars, active, pending, work, log, running, call, request>>

\* ... and appended afterwards.
BridgeTerminal(t) ==
    /\ pc[t] = "terminal"
    /\ \/ Log(t, "done") /\ UNCHANGED failures
       \/ MayFail /\ UNCHANGED log
    /\ Goto(t, "ended")
    /\ UNCHANGED <<leaseVars, active, pending, work, running, call, request>>

\* finalize_turn_execution: append_subrun_finished ...
TaskReports(t) == pc[t] = "ended" /\ Report(t, "finished", "reported")

\* ... complete the turn ...
Complete(t) ==
    /\ pc[t] = "reported"
    /\ CompleteRunningTurn(t)
    /\ Goto(t, "completed")
    /\ UNCHANGED <<work, log, running, call, failures>>

\* Bug: the session is idle whoever else runs.
MarkIdleForAll(t) ==
    /\ pc[t] = "completed"
    /\ running' = 0
    /\ Goto(t, "over")
    /\ UNCHANGED <<leaseVars, active, pending, work, log, call, request, failures>>

\* ... and mark_idle.
MarkIdle(t) ==
    /\ pc[t] = "completed"
    /\ running' = IF running <= 1 THEN 0 ELSE running - 1
    /\ Goto(t, "over")
    /\ UNCHANGED <<leaseVars, active, pending, work, log, call, request, failures>>

\* The runtime loop panics: the task is gone before finalize_turn_execution.
Panic(t) ==
    /\ pc[t] = "running"
    /\ MayFail
    /\ Goto(t, "panicked")
    /\ UNCHANGED <<leaseVars, active, pending, work, log, running, call, request>>

\* The watcher of a child appends the child's report, and the wake-up of an agent
\* its acknowledgement, under the id of a turn that was spawned, be it over or not.
OthersReport(t) ==
    /\ pc[t] \in Tasked \cup {"over", "panicked"}
    /\ MayFail
    /\ Log(t, "report")
    /\ UNCHANGED <<leaseVars, pc, active, pending, work, running, call, request>>

-----------------------------------------------------------------------------
Stage(i, stage, t) == call' = [call EXCEPT ![i] = [stage |-> stage, turn |-> t]]

\* interrupt_running_turn takes the active turn, cancels its token ...
Interrupt(i) ==
    /\ call[i].stage = "idle"
    /\ active # NoTurn
    /\ active' = NoTurn
    /\ Stage(i, "taken", active)
    /\ UNCHANGED <<leaseVars, pc, pending, work, log, running, request, failures>>

\* ... appends TurnDone(Cancelled) ...
AppendCancelled(i) ==
    /\ call[i].stage = "taken"
    /\ Log(call[i].turn, "cancelled")
    /\ Stage(i, "appended", call[i].turn)
    /\ UNCHANGED <<leaseVars, pc, active, pending, work, running, request, failures>>

\* ... or fails to, and returns early, dropping the lease it took.
AppendCancelledFails(i) ==
    /\ call[i].stage = "taken"
    /\ MayFail
    /\ DropLease(call[i].turn)
    /\ Stage(i, "done", call[i].turn)
    /\ UNCHANGED <<pc, active, pending, work, log, running, request>>

\* ... takes the pending compact (which its callers ignore) and drops the lease.
InterruptReturns(i) ==
    /\ call[i].stage = "appended"
    /\ DropPending
    /\ DropLease(call[i].turn)
    /\ Stage(i, "done", call[i].turn)
    /\ UNCHANGED <<pc, active, work, log, running, failures>>

-----------------------------------------------------------------------------
Answer(r, a) == request' = [request EXCEPT ![r] = a]

\* request_manual_compact looks at the active turn, unlocks ...
CheckCompact(r) ==
    /\ request[r] = "none"
    /\ Answer(r, IF active = NoTurn THEN "immediate" ELSE "checked")
    /\ UNCHANGED <<leaseVars, pc, active, pending, work, log, running, call, failures>>

\* ... and registers the request if a turn was running; the last one wins.
RegisterCompact(r) ==
    /\ request[r] = "checked"
    /\ pending' = r
    /\ request' = [q \in Requests |->
          IF q = r THEN "deferred" ELSE IF q = pending THEN "replaced" ELSE request[q]]
    /\ UNCHANGED <<leaseVars, pc, active, work, log, running, call, failures>>

-----------------------------------------------------------------------------
Submit(t) ==
    \/ Acquire(t) \/ Accept(t) \/ AcquireFails(t) \/ Reject(t)
    \/ BeginFails(t) \/ Begin(t)
    \/ PersistInputs(t) \/ PersistInputsFails(t) \/ MarkRunning(t)

Task(t) ==
    \/ TaskStarts(t) \/ BridgeWork(t) \/ BridgeChecksTerminal(t) \/ BridgeTerminal(t)
    \/ TaskReports(t) \/ Complete(t) \/ MarkIdle(t)

InterruptCall(i) ==
    \/ Interrupt(i) \/ AppendCancelled(i) \/ AppendCancelledFails(i) \/ InterruptReturns(i)

Next ==
    \/ \E t \in Turns : \/ Submit(t) \/ Task(t) \/ Panic(t)
                       \/ DroppedBefore(t) \/ DroppedAfter(t) \/ OthersReport(t)
    \/ \E i \in Interrupts : InterruptCall(i)
    \/ \E r \in Requests : CheckCompact(r) \/ RegisterCompact(r)

Spec == Init /\ [][Next]_vars

\* The runtime drives a request that has won the lease until it is dropped, every
\* spawned task and an interrupt that has taken a turn; nobody has to submit or
\* interrupt.
FairSpec ==
    /\ Spec
    /\ \A t \in Turns : WF_vars(Submit(t) /\ pc[t] # "idle") /\ WF_vars(Task(t))
    /\ \A i \in Interrupts : WF_vars(InterruptCall(i) /\ call[i].stage # "idle")

-----------------------------------------------------------------------------
\* An accepted prompt finds no active turn and the session in its own hands, so
\* begin_accepted_turn never fails with "already has an active turn".
AcceptedAlone == \A t \in Turns : pc[t] = "accepted" => active = NoTurn /\ owner = t

\* The active turn, and a turn an interrupt has taken but not yet closed, hold
\* the lease: nobody else can begin before TurnDone(Cancelled) is in the log.
InterruptedStillHolds ==
    /\ active # NoTurn => owner = active
    /\ \A i \in Interrupts :
          call[i].stage \in {"taken", "appended"} => active = NoTurn /\ owner = call[i].turn

\* A turn nobody interrupted stays the active one until its own task completes
\* it, whatever tasks of interrupted turns finish meanwhile
\* (openspec/specs/session-runtime/spec.md:407-412, stale finalize).
Interrupted(t) == \E i \in Interrupts : call[i].turn = t
StillOwned ==
    \A t \in Turns :
        pc[t] \in {"begun", "inputs", "panicked", "abandoned"} \cup (Tasked \ {"completed"}) /\ ~Interrupted(t)
            => active = t /\ owner = t

\* While a spawned turn is active the session counts as running, so that a
\* reload of the runtime surface is refused.
RunningIfActive ==
    active # NoTurn /\ pc[active] \in Tasked \cup {"panicked"} => running > 0

\* The control state is the right turn's, whatever interrupted tasks still do: an
\* uninterrupted turn stays active with its lease until it completes itself, and
\* the session counts as running as long as a spawned turn is active.
RightTurn == StillOwned /\ RunningIfActive

\* The callers keep to the lease contract: what is released was granted, once.
KeepsLeaseContract == LeaseSpec

\* A turn that holds the session gives it back, unless its loop panicked or its
\* request was dropped after it had begun: time and again the session is free (a
\* turn takes it once).
EveryTurnEnds == []<>(owner = NoTurn \/ pc[owner] \in {"panicked", "abandoned"})

\* The lease is held from the first event that a turn's request, task or
\* interrupt writes to the last, failures, panics and dropped requests included: such
\* events of two turns that nobody interrupted do not mix.  The reports that others
\* write under a turn's id do come within later turns (terminal.rs:178,
\* wake.rs:444): they are not the turn's own, and none comes before its own.
Whole == {t \in Turns : ~Interrupted(t)}
Owned == {k \in DOMAIN log : log[k].kind # "report"}
WholeTurns ==
    \A i \in DOMAIN log, j, k \in Owned :
        i < j /\ j < k /\ log[i].turn = log[k].turn /\ {log[i].turn, log[j].turn} \subseteq Whole
            => log[j].turn = log[i].turn
=============================================================================
