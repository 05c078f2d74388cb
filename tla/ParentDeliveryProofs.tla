------------------------ MODULE ParentDeliveryProofs ------------------------
(***************************************************************************)
(* ParentDelivery keeps the contract of DeliveryContract for any number of *)
(* reports, children, crashes and closes: a report is settled only when a  *)
(* turn that was given it has succeeded, or when it is withdrawn.  And it  *)
(* shows where a report is: in one batch at a time (OneBatch), and never   *)
(* nowhere while it is pending (NotDropped).                               *)
(***************************************************************************)
EXTENDS ParentDelivery, FiniteSetTheorems, SequenceTheorems, TLAPS

\* The shape of the tasks.
Fields == {"stage", "snap", "batch", "left", "outcome"}
Shape == /\ task = [t \in Reports |-> task[t]]
         /\ \A t \in Reports : task[t] = [f \in Fields |-> task[t][f]]

\* What is pending was logged and is not written off.
LogSound == /\ pending \subseteq logged
            /\ pending \cap discarded = {}
            /\ closer = [stage |-> closer.stage, ids |-> closer.ids]
            /\ closer.ids \subseteq logged

\* A report that has not got that far is not in the log; the outcome of a
\* turn is kept only while its task waits for it; and the batch of a successful
\* turn has been heard until it is acknowledged.
TaskSound(t) ==
    /\ task[t].stage \in {"new", "append"} => t \notin logged
    /\ task[t].outcome # "none" => task[t].stage \in {"begin", "wait"}
    /\ task[t].outcome = "ok" \/ task[t].stage = "ack" => Batch(t) \subseteq heard

DeliveryInv == Shape /\ LogSound /\ \A t \in Reports : TaskSound(t)

LEMMA InitHolds == Init => DeliveryInv
  <1> SUFFICES ASSUME Init PROVE DeliveryInv
    OBVIOUS
  <1>1. Idle = [f \in Fields |-> Idle[f]]
    BY DEF Idle, Fields
  <1>2. Shape
    BY <1>1 DEF Init, Shape
  <1>3. \A t \in Reports : task[t].stage = "new" /\ task[t].outcome = "none"
    BY DEF Init, Idle
  <1>4. LogSound
    BY DEF Init, LogSound
  <1> QED
    BY <1>2, <1>3, <1>4 DEF Init, DeliveryInv, TaskSound

-----------------------------------------------------------------------------
\* Steps of one task leave the others sound.
LEMMA OthersSound ==
    ASSUME DeliveryInv, NEW t \in Reports, \A d \in Reports \ {t} : task'[d] = task[d],
           logged' \subseteq logged \cup {t}, heard \subseteq heard'
    PROVE  \A d \in Reports \ {t} : TaskSound(d)'
  BY DEF DeliveryInv, TaskSound, Batch

\* A task moves on to another stage.
LEMMA Moves ==
    ASSUME Shape, NEW t \in Reports, NEW s, Move(t, s)
    PROVE  /\ Shape'
           /\ task'[t].stage = s
           /\ task'[t].batch = task[t].batch /\ task'[t].outcome = task[t].outcome
           /\ task'[t].snap = task[t].snap
           /\ \A d \in Reports \ {t} : task'[d] = task[d]
  <1>1. task' = [task EXCEPT ![t] = [task[t] EXCEPT !["stage"] = s]]
    BY DEF Move
  <1>2. task'[t] = [task[t] EXCEPT !["stage"] = s]
    BY <1>1 DEF Shape
  <1>3. \A d \in Reports \ {t} : task'[d] = task[d]
    BY <1>1 DEF Shape
  <1>4. /\ task'[t].stage = s
        /\ task'[t].batch = task[t].batch /\ task'[t].outcome = task[t].outcome
        /\ task'[t].snap = task[t].snap
        /\ task'[t] = [f \in Fields |-> task'[t][f]]
    BY <1>2 DEF Shape, Fields
  <1>5. task' = [d \in Reports |-> task'[d]]
    BY <1>1 DEF Shape
  <1> QED
    BY <1>3, <1>4, <1>5 DEF Shape

LEMMA OverShape == /\ Over = [f \in Fields |-> Over[f]] /\ Over.stage = "done" /\ Over.outcome = "none"
                   /\ Over.batch = <<>> /\ Over.snap = <<>>
                   /\ Idle = [f \in Fields |-> Idle[f]] /\ Idle.stage = "new" /\ Idle.outcome = "none"
                   /\ Idle.batch = <<>> /\ Idle.snap = <<>>
  BY DEF Over, Idle, Fields

\* A task is over.
LEMMA Finishes ==
    ASSUME Shape, NEW t \in Reports, Ends(t)
    PROVE  /\ Shape'
           /\ task'[t] = Over
           /\ \A d \in Reports \ {t} : task'[d] = task[d]
  BY OverShape DEF Ends, Shape

\* A task changes some of its fields.
LEMMA Changes ==
    ASSUME Shape, NEW t \in Reports, NEW r, task' = [task EXCEPT ![t] = r],
           r = [f \in Fields |-> r[f]]
    PROVE  /\ Shape'
           /\ task'[t] = r
           /\ \A d \in Reports \ {t} : task'[d] = task[d]
  BY DEF Shape

-----------------------------------------------------------------------------
\* A task that is over, or moves on without a turn, a log or a batch of its own
\* changing, stays sound.
LEMMA EndsKeeps ==
    ASSUME DeliveryInv, NEW t \in Reports, Ends(t), UNCHANGED <<log, closer, heard>>
    PROVE  DeliveryInv'
  <1>1. /\ Shape' /\ task'[t] = Over
        /\ \A d \in Reports \ {t} : task'[d] = task[d]
    BY Finishes DEF DeliveryInv
  <1>2. \A d \in Reports \ {t} : TaskSound(d)'
    BY <1>1, OthersSound DEF log
  <1>3. TaskSound(t)'
    BY <1>1, OverShape DEF TaskSound
  <1> QED
    BY <1>1, <1>2, <1>3 DEF DeliveryInv, LogSound, log

LEMMA ChangeKeeps ==
    ASSUME DeliveryInv, NEW t \in Reports, NEW r, task' = [task EXCEPT ![t] = r],
           r = [f \in Fields |-> r[f]], r.stage \notin {"new", "append", "ack"},
           r.outcome = "none", UNCHANGED <<log, closer, heard>>
    PROVE  DeliveryInv'
  <1>1. /\ Shape' /\ task'[t] = r
        /\ \A d \in Reports \ {t} : task'[d] = task[d]
    BY Changes DEF DeliveryInv
  <1>2. \A d \in Reports \ {t} : TaskSound(d)'
    BY <1>1, OthersSound DEF log
  <1>3. TaskSound(t)'
    BY <1>1 DEF TaskSound
  <1> QED
    BY <1>1, <1>2, <1>3 DEF DeliveryInv, LogSound, log

LEMMA MoveKeeps ==
    ASSUME DeliveryInv, NEW t \in Reports, NEW s, Move(t, s), s \notin {"new", "append", "ack"},
           task[t].outcome = "none",
           logged' \subseteq logged \cup {t}, heard' = heard, LogSound'
    PROVE  DeliveryInv'
  <1>1. /\ Shape' /\ task'[t].stage = s /\ task'[t].outcome = task[t].outcome
        /\ \A d \in Reports \ {t} : task'[d] = task[d]
    BY Moves DEF DeliveryInv
  <1>2. \A d \in Reports \ {t} : TaskSound(d)'
    BY <1>1, OthersSound
  <1>3. TaskSound(t)'
    BY <1>1 DEF TaskSound
  <1> QED
    BY <1>1, <1>2, <1>3 DEF DeliveryInv

-----------------------------------------------------------------------------
\* What is left of a task whose stage is not that of a waiting one.
LEMMA NoTurn ==
    ASSUME DeliveryInv, NEW t \in Reports, task[t].stage \notin {"begin", "wait"}
    PROVE  task[t].outcome = "none"
  BY DEF DeliveryInv, TaskSound

LEMMA MakesKeeps == ASSUME DeliveryInv, NEW t \in Reports, Makes(t) PROVE DeliveryInv'
  <1>1. CASE Notify(t)
    <2>1. /\ Shape' /\ task'[t].stage = "append" /\ task'[t].outcome = "none"
          /\ \A d \in Reports \ {t} : task'[d] = task[d]
      BY <1>1, Moves, NoTurn DEF DeliveryInv, Notify
    <2>2. \A d \in Reports \ {t} : TaskSound(d)'
      BY <1>1, <2>1, OthersSound DEF Notify, ghosts
    <2>3. TaskSound(t)'
      BY <1>1, <2>1 DEF DeliveryInv, TaskSound, Notify
    <2> QED
      BY <1>1, <2>1, <2>2, <2>3 DEF DeliveryInv, LogSound, Notify
  <1>2. CASE NotifyFails(t)
    BY <1>2, NoTurn, EndsKeeps DEF NotifyFails, ghosts
  <1>3. CASE AppendQueued(t)
    <2>1. LogSound'
      BY <1>3 DEF DeliveryInv, LogSound, AppendQueued
    <2> QED
      BY <1>3, <2>1, NoTurn, MoveKeeps DEF AppendQueued, ghosts
  <1>4. CASE AppendQueuedFails(t)
    BY <1>4, NoTurn, EndsKeeps DEF AppendQueuedFails, ghosts
  <1>5. CASE Enqueue(t)
    <2> DEFINE r == [task[t] EXCEPT !["stage"] = "reconcile", !["left"] = MaxFollowUps]
    <2>1. task' = [task EXCEPT ![t] = r]
      BY <1>5 DEF Enqueue
    <2>2. r = [f \in Fields |-> r[f]] /\ r.stage = "reconcile" /\ r.outcome = task[t].outcome
      BY DEF DeliveryInv, Shape, Fields
    <2>3. task[t].outcome = "none"
      BY <1>5, NoTurn DEF Enqueue
    <2> HIDE DEF r
    <2> QED
      BY <1>5, <2>1, <2>2, <2>3, ChangeKeeps DEF Enqueue, log
  <1> QED
    BY <1>1, <1>2, <1>3, <1>4, <1>5 DEF Makes

LEMMA AttemptsKeeps == ASSUME DeliveryInv, NEW t \in Reports, Attempts(t) PROVE DeliveryInv'
  <1>1. CASE Reconcile(t)
    <2> DEFINE r == [task[t] EXCEPT !["stage"] = "refill", !["snap"] = Recoverable]
    <2>1. task' = [task EXCEPT ![t] = r]
      BY <1>1 DEF Reconcile
    <2>2. r = [f \in Fields |-> r[f]] /\ r.stage = "refill" /\ r.outcome = task[t].outcome
      BY DEF DeliveryInv, Shape, Fields
    <2>3. task[t].outcome = "none"
      BY <1>1, NoTurn DEF Reconcile
    <2> HIDE DEF r
    <2> QED
      BY <1>1, <2>1, <2>2, <2>3, ChangeKeeps DEF Reconcile, log, ghosts
  <1>2. CASE ReconcileFails(t)
    BY <1>2, NoTurn, EndsKeeps DEF ReconcileFails, ghosts
  <1>3. CASE Refill(t) /\ task[t].snap = <<>>
    <2>1. Move(t, "checkout") /\ UNCHANGED <<log, closer, heard>> /\ task[t].outcome = "none"
      BY <1>3, NoTurn DEF Refill
    <2> QED
      BY <2>1, MoveKeeps DEF DeliveryInv, LogSound, log
  <1>4. CASE Refill(t) /\ task[t].snap # <<>>
    <2> DEFINE r == [task[t] EXCEPT !["snap"] = Tail(@)]
    <2>1. task' = [task EXCEPT ![t] = r] /\ task[t].stage = "refill" /\ UNCHANGED <<log, closer, heard>>
      BY <1>4 DEF Refill
    <2>2. r = [f \in Fields |-> r[f]] /\ r.stage = task[t].stage /\ r.outcome = task[t].outcome
      BY DEF DeliveryInv, Shape, Fields
    <2>3. task[t].outcome = "none"
      BY <2>1, NoTurn
    <2> HIDE DEF r
    <2> QED
      BY <2>1, <2>2, <2>3, ChangeKeeps
  <1>5. CASE Checkout(t) /\ Ready(queue) = 0
    BY <1>5, NoTurn, EndsKeeps DEF Checkout, ghosts
  <1>6. CASE Checkout(t) /\ Ready(queue) # 0
    <2> DEFINE b == [k \in 1..Ready(queue) |-> queue[k].id]
               r == [task[t] EXCEPT !["stage"] = "submit", !["batch"] = b]
    <2>1. /\ task' = [task EXCEPT ![t] = r] /\ task[t].stage = "checkout"
          /\ UNCHANGED <<log, closer, heard>>
      BY <1>6 DEF Checkout, ghosts
    <2> HIDE DEF b
    <2>2. r = [f \in Fields |-> r[f]] /\ r.stage = "submit" /\ r.outcome = task[t].outcome
      BY DEF DeliveryInv, Shape, Fields
    <2>3. task[t].outcome = "none"
      BY <2>1, NoTurn
    <2> HIDE DEF r
    <2> QED
      BY <2>1, <2>2, <2>3, ChangeKeeps
  <1>7. CASE ConfigFails(t)
    BY <1>7, NoTurn, EndsKeeps DEF ConfigFails, GivesUp
  <1>8. CASE Submit(t)
    <2>1. /\ Shape' /\ task'[t].stage = "begin" /\ task'[t].outcome = "none"
          /\ \A d \in Reports \ {t} : task'[d] = task[d]
      BY <1>8, Moves, NoTurn DEF DeliveryInv, Submit
    <2>2. \A d \in Reports \ {t} : TaskSound(d)'
      BY <1>8, <2>1, OthersSound DEF Submit, ghosts, log
    <2>3. TaskSound(t)'
      BY <2>1 DEF TaskSound
    <2> QED
      BY <1>8, <2>1, <2>2, <2>3 DEF DeliveryInv, LogSound, Submit, log
  <1>9. CASE SubmitRefused(t)
    <2>1. Move(t, "requeue") /\ UNCHANGED <<log, closer, heard>> /\ task[t].outcome = "none"
      BY <1>9, NoTurn DEF SubmitRefused, ghosts
    <2> QED
      BY <2>1, MoveKeeps DEF DeliveryInv, LogSound, log
  <1> QED
    BY <1>1, <1>2, <1>3, <1>4, <1>5, <1>6, <1>7, <1>8, <1>9 DEF Attempts

LEMMA WatchesKeeps == ASSUME DeliveryInv, NEW t \in Reports, Watches(t) PROVE DeliveryInv'
  <1>1. CASE AppendStarted(t) \/ AppendStartedFails(t)
    <2>1. /\ Shape' /\ task'[t].stage = "wait" /\ task'[t].outcome = task[t].outcome
          /\ task'[t].batch = task[t].batch
          /\ \A d \in Reports \ {t} : task'[d] = task[d]
      BY <1>1, Moves DEF DeliveryInv, AppendStarted, AppendStartedFails
    <2>2. UNCHANGED <<logged, pending, discarded, closer, heard>>
      BY <1>1 DEF AppendStarted, AppendStartedFails, log, ghosts
    <2>3. \A d \in Reports \ {t} : TaskSound(d)'
      BY <2>1, <2>2, OthersSound
    <2>4. TaskSound(t)'
      BY <2>1, <2>2 DEF DeliveryInv, TaskSound, Batch
    <2> QED
      BY <2>1, <2>2, <2>3, <2>4 DEF DeliveryInv, LogSound
  <1>2. CASE Waited(t)
    <2> DEFINE s == IF task[t].outcome = "ok" THEN "ack" ELSE "requeue"
               r == [task[t] EXCEPT !["stage"] = s, !["outcome"] = "none"]
    <2>1. task' = [task EXCEPT ![t] = r] /\ task[t].stage = "wait" /\ task[t].outcome # "none"
      BY <1>2 DEF Waited
    <2>2. UNCHANGED <<log, closer, heard>>
      BY <1>2 DEF Waited, ghosts
    <2> HIDE DEF s
    <2>3. r = [f \in Fields |-> r[f]] /\ r.stage = s /\ r.outcome = "none" /\ r.batch = task[t].batch
      BY DEF DeliveryInv, Shape, Fields
    <2> HIDE DEF r
    <2>4. Shape' /\ task'[t] = r /\ \A d \in Reports \ {t} : task'[d] = task[d]
      BY <2>1, <2>3, Changes DEF DeliveryInv
    <2>5. \A d \in Reports \ {t} : TaskSound(d)'
      BY <2>2, <2>4, OthersSound DEF log
    <2>7. TaskSound(t)'
      BY <2>1, <2>2, <2>3, <2>4 DEF DeliveryInv, TaskSound, Batch, log, s
    <2> QED
      BY <2>2, <2>4, <2>5, <2>7 DEF DeliveryInv, LogSound, log
  <1>3. CASE WaitFails(t)
    BY <1>3, EndsKeeps DEF WaitFails, GivesUp
  <1>4. CASE AppendAcked(t)
    <2>1. LogSound'
      BY <1>4 DEF DeliveryInv, LogSound, AppendAcked
    <2> QED
      BY <1>4, <2>1, NoTurn, MoveKeeps DEF AppendAcked, ghosts
  <1>5. CASE AppendAckedFails(t)
    BY <1>5, NoTurn, EndsKeeps DEF AppendAckedFails, GivesUp
  <1>6. CASE Consume(t)
    <2> DEFINE s == IF Agree(queue, task[t].batch) < Len(task[t].batch) THEN "requeue" ELSE "reconcile"
               b == IF s = "requeue" THEN task[t].batch ELSE <<>>
               l == IF s = "requeue" THEN task[t].left ELSE task[t].left - 1
               r == [task[t] EXCEPT !["stage"] = s, !["batch"] = b, !["left"] = l]
    <2>1. /\ task[t].stage = "consume" /\ UNCHANGED <<log, closer, heard>>
          /\ task[t].outcome = "none"
      BY <1>6, NoTurn DEF Consume, ghosts
    <2>2. Ends(t) \/ task' = [task EXCEPT ![t] = r]
      <3>1. CASE s = "requeue"
        <4>1. task' = [task EXCEPT ![t] = [task[t] EXCEPT !["stage"] = "requeue"]]
          BY <1>6, <3>1 DEF Consume
        <4>2. [task[t] EXCEPT !["stage"] = "requeue"] = r
          BY <3>1 DEF DeliveryInv, Shape, Fields
        <4> QED
          BY <4>1, <4>2
      <3>2. CASE s # "requeue" /\ task[t].left > 1
        BY <1>6, <3>2 DEF Consume
      <3>3. CASE s # "requeue" /\ ~(task[t].left > 1)
        BY <1>6, <3>3 DEF Consume, Ends
      <3> QED
        BY <3>1, <3>2, <3>3
    <2>3. s \in {"requeue", "reconcile"}
      OBVIOUS
    <2> HIDE DEF s, b, l
    <2>4. r = [f \in Fields |-> r[f]] /\ r.stage = s /\ r.outcome = task[t].outcome
      BY DEF DeliveryInv, Shape, Fields
    <2> HIDE DEF r
    <2> QED
      BY <2>1, <2>2, <2>3, <2>4, ChangeKeeps, EndsKeeps DEF log
  <1>7. CASE Requeue(t)
    BY <1>7, NoTurn, EndsKeeps DEF Requeue, ghosts
  <1> QED
    BY <1>1, <1>2, <1>3, <1>4, <1>5, <1>6, <1>7 DEF Watches

LEMMA TurnKeeps == ASSUME DeliveryInv, NEW t \in Reports, WakeTurnEnds(t) PROVE DeliveryInv'
  <1>1. \E o \in {"ok", "failed"} :
           /\ task' = [task EXCEPT ![t] = [task[t] EXCEPT !["outcome"] = o]]
           /\ heard \subseteq heard' /\ (o = "ok" => Batch(t) \subseteq heard')
    BY DEF WakeTurnEnds
  <1>2. PICK o \in {"ok", "failed"} :
           /\ task' = [task EXCEPT ![t] = [task[t] EXCEPT !["outcome"] = o]]
           /\ heard \subseteq heard' /\ (o = "ok" => Batch(t) \subseteq heard')
    BY <1>1
  <1> DEFINE r == [task[t] EXCEPT !["outcome"] = o]
  <1>3. r = [f \in Fields |-> r[f]] /\ r.stage = task[t].stage /\ r.outcome = o /\ r.batch = task[t].batch
    BY DEF DeliveryInv, Shape, Fields
  <1>4. task' = [task EXCEPT ![t] = r]
    BY <1>2
  <1> HIDE DEF r
  <1>5. Shape' /\ task'[t] = r /\ \A d \in Reports \ {t} : task'[d] = task[d]
    BY <1>3, <1>4, Changes DEF DeliveryInv
  <1>6. UNCHANGED <<log, closer>> /\ task[t].stage \in {"begin", "wait"}
    BY DEF WakeTurnEnds, Running
  <1>7. \A d \in Reports \ {t} : TaskSound(d)'
    BY <1>2, <1>5, <1>6, OthersSound DEF log
  <1>8. TaskSound(t)'
    BY <1>2, <1>3, <1>5, <1>6 DEF DeliveryInv, TaskSound, Batch, log
  <1> QED
    BY <1>5, <1>6, <1>7, <1>8 DEF DeliveryInv, LogSound, log

LEMMA CrashKeeps == ASSUME DeliveryInv, Crash PROVE DeliveryInv'
  <1>1. task' = [d \in Reports |-> IF task[d].stage = "new" THEN Idle ELSE Over]
    BY DEF Crash
  <1>2. Shape'
    BY <1>1, OverShape DEF Shape
  <1>3. \A d \in Reports : TaskSound(d)'
    BY <1>1, OverShape DEF DeliveryInv, TaskSound, Crash, log
  <1>4. closer' = [stage |-> IF closer.stage = "none" THEN "none" ELSE "done", ids |-> closer.ids]
    BY DEF DeliveryInv, LogSound, Crash
  <1> QED
    BY <1>2, <1>3, <1>4 DEF DeliveryInv, LogSound, Crash, log

\* Steps of no task leave all tasks sound.
LEMMA TasksKept ==
    ASSUME DeliveryInv, task' = task, logged' = logged, heard' = heard, LogSound'
    PROVE  DeliveryInv'
  BY DEF DeliveryInv, Shape, TaskSound, Batch

\* DeliveryInv is inductive.
LEMMA InvStep == DeliveryInv /\ [Next]_vars => DeliveryInv'
  <1> SUFFICES ASSUME DeliveryInv, [Next]_vars PROVE DeliveryInv'
    OBVIOUS
  <1>1. ASSUME NEW t \in Reports, Makes(t) \/ Attempts(t) \/ Watches(t) \/ WakeTurnEnds(t)
        PROVE  DeliveryInv'
    BY <1>1, MakesKeeps, AttemptsKeeps, WatchesKeeps, TurnKeeps
  <1>2. CASE UserTurnStarts \/ UserTurnEnds \/ \E t \in Reports : WakeTurnFrees(t)
    BY <1>2, TasksKept DEF UserTurnStarts, UserTurnEnds, WakeTurnFrees, DeliveryInv, LogSound, log, ghosts
  <1>3. ASSUME NEW c \in Range(Child), CloseChild(c) PROVE DeliveryInv'
    BY <1>3, TasksKept DEF CloseChild, DeliveryInv, LogSound, log
  <1>4. CASE CloserReads
    BY <1>4, TasksKept DEF CloserReads, DeliveryInv, LogSound, log, ghosts
  <1>5. CASE CloserDiscards
    BY <1>5, TasksKept DEF CloserDiscards, DeliveryInv, LogSound, ghosts
  <1>6. CASE CloserTerminates
    BY <1>6, TasksKept DEF CloserTerminates, DeliveryInv, LogSound, log
  <1>7. CASE Crash
    BY <1>7, CrashKeeps
  <1>8. CASE UNCHANGED vars
    BY <1>8, TasksKept DEF vars, DeliveryInv, LogSound, log, ghosts
  <1> QED
    BY <1>1, <1>2, <1>3, <1>4, <1>5, <1>6, <1>7, <1>8 DEF Next

\* In every state a report that is pending was logged, a task waits for its wake
\* turn only while that runs, and the batch it acknowledges was heard
\* (parent_delivery and the wake of agent orchestration).
THEOREM DeliveryInvariant == Spec => []DeliveryInv
  BY InitHolds, InvStep, PTL DEF Spec

-----------------------------------------------------------------------------
\* A step that leaves what is logged, pending and written off alone, and forgets
\* nothing that was heard, is a stutter of the contract or a hearing.
LEMMA Hears == ASSUME UNCHANGED <<logged, pending, discarded>>, heard \subseteq heard'
               PROVE  [Contract!Next]_(Contract!vars)
  BY DEF Contract!Next, Contract!Hear, Contract!vars

\* Every step of the code is a step of the contract or a stutter.
LEMMA ContractStep == DeliveryInv /\ [Next]_vars => [Contract!Next]_(Contract!vars)
  <1> SUFFICES ASSUME DeliveryInv, [Next]_vars PROVE [Contract!Next]_(Contract!vars)
    OBVIOUS
  <1>1. ASSUME NEW t \in Reports, Makes(t) PROVE [Contract!Next]_(Contract!vars)
    <2>1. CASE AppendQueued(t)
      <3>1. t \notin logged
        BY <2>1 DEF AppendQueued, DeliveryInv, TaskSound
      <3>2. Contract!Report(t)
        BY <2>1, <3>1 DEF AppendQueued, Contract!Report, ghosts
      <3> QED
        BY <3>2 DEF Contract!Next
    <2>2. CASE ~AppendQueued(t)
      BY <1>1, <2>2, Hears DEF Makes, Notify, NotifyFails, AppendQueuedFails, Enqueue, log, ghosts
    <2> QED
      BY <2>1, <2>2
  <1>2. ASSUME NEW t \in Reports, Attempts(t) PROVE [Contract!Next]_(Contract!vars)
    BY <1>2, Hears DEF Attempts, Reconcile, ReconcileFails, Refill, Checkout, ConfigFails, GivesUp,
       Submit, SubmitRefused, log, ghosts
  <1>3. ASSUME NEW t \in Reports, Watches(t) PROVE [Contract!Next]_(Contract!vars)
    <2>1. CASE AppendAcked(t)
      <3> DEFINE S == pending \cap Batch(t)
      <3>1. S \subseteq heard /\ S \subseteq pending
        BY <2>1 DEF AppendAcked, DeliveryInv, TaskSound
      <3>2. pending' = pending \ S
        BY <2>1 DEF AppendAcked, DeliveryInv, LogSound
      <3>3. Contract!Settle(S)
        BY <2>1, <3>1, <3>2 DEF AppendAcked, Contract!Settle, ghosts
      <3> QED
        BY <3>1, <3>3 DEF Contract!Next
    <2>2. CASE ~AppendAcked(t)
      BY <1>3, <2>2, Hears DEF Watches, AppendStarted, AppendStartedFails, Waited, WaitFails,
         AppendAckedFails, GivesUp, Consume, Requeue, log, ghosts
    <2> QED
      BY <2>1, <2>2
  <1>4. ASSUME NEW t \in Reports, WakeTurnEnds(t) PROVE [Contract!Next]_(Contract!vars)
    BY <1>4, Hears DEF WakeTurnEnds, log
  <1>5. ASSUME CloserDiscards PROVE [Contract!Next]_(Contract!vars)
    <2>1. Contract!Withdraw(closer.ids)
      BY <1>5 DEF CloserDiscards, DeliveryInv, LogSound, Contract!Withdraw, ghosts
    <2> QED
      BY <2>1 DEF DeliveryInv, LogSound, Contract!Next
  <1>6. ASSUME NEW c \in Range(Child), CloseChild(c) PROVE [Contract!Next]_(Contract!vars)
    BY <1>6, Hears DEF CloseChild, log
  <1>7. CASE \/ UserTurnStarts \/ UserTurnEnds \/ \E t \in Reports : WakeTurnFrees(t)
             \/ CloserReads \/ CloserTerminates \/ Crash \/ UNCHANGED vars
    BY <1>7, Hears DEF UserTurnStarts, UserTurnEnds, WakeTurnFrees, CloserReads, CloserTerminates, Crash, vars, log, ghosts
  <1> QED
    BY <1>1, <1>2, <1>3, <1>4, <1>5, <1>6, <1>7 DEF Next

\* ParentDelivery implements DeliveryContract: whatever is lost, repeated or
\* fails, a report in the log stays open until a wake turn that was given it has
\* succeeded, or the parent is closed.
THEOREM KeepsContract == Spec => ContractKept
  <1>1. Init => Contract!Init
    BY DEF Init, Contract!Init
  <1> QED
    BY <1>1, DeliveryInvariant, ContractStep, PTL DEF Spec, ContractKept, Contract!Spec

-----------------------------------------------------------------------------
\* Picking elements of a sequence by their places.
\* The ranks of the places K run from 1 to their number, each once.
LEMMA Ranks ==
    ASSUME NEW n \in Nat, NEW K \in SUBSET (1..n)
    PROVE  /\ Cardinality(K) \in Nat
           /\ \A k \in K : Rank(K, k) \in 1..Cardinality(K)
           /\ \A j, k \in K : Rank(K, j) = Rank(K, k) => j = k
           /\ \A i \in 1..Cardinality(K) : \E k \in K : Rank(K, k) = i
  <1> DEFINE Upto(k) == {j \in K : j <= k}
  <1>0. IsFiniteSet(1..n)
    BY FS_Interval
  <1>1. IsFiniteSet(K) /\ Cardinality(K) \in Nat
    BY <1>0, FS_Subset, FS_CardinalityType
  <1>2. \A k \in K : IsFiniteSet(Upto(k)) /\ Cardinality(Upto(k)) \in Nat
                     /\ Cardinality(Upto(k)) <= Cardinality(K)
    <2> SUFFICES ASSUME NEW k \in K PROVE IsFiniteSet(Upto(k)) /\ Cardinality(Upto(k)) \in Nat
                     /\ Cardinality(Upto(k)) <= Cardinality(K)
      OBVIOUS
    <2>1. Upto(k) \in SUBSET K
      OBVIOUS
    <2> HIDE DEF Upto
    <2> QED
      BY <1>1, <2>1, FS_Subset, FS_CardinalityType
  <1>3. \A k \in K : Cardinality(Upto(k)) # 0
    <2> TAKE k \in K
    <2>1. k \in Upto(k)
      OBVIOUS
    <2> HIDE DEF Upto
    <2> QED
      BY <1>2, <2>1, FS_EmptySet
  <1>4. \A j, k \in K : j < k => Cardinality(Upto(j)) # Cardinality(Upto(k))
    <2> SUFFICES ASSUME NEW j \in K, NEW k \in K, j < k, Cardinality(Upto(j)) = Cardinality(Upto(k))
                 PROVE FALSE
      OBVIOUS
    <2>1. \A i \in K : i \in Int
      OBVIOUS
    <2>2. Upto(j) \subseteq Upto(k)
      <3> SUFFICES ASSUME NEW i \in K, i <= j PROVE i <= k
        OBVIOUS
      <3> QED
        BY <2>1
    <2>3. k \in Upto(k) /\ k \notin Upto(j)
      BY <2>1
    <2> HIDE DEF Upto
    <2>4. Upto(k) = Upto(j)
      BY <1>2, <2>2, FS_Subset
    <2> QED
      BY <2>3, <2>4
  <1>5. \A j, k \in K : Cardinality(Upto(j)) = Cardinality(Upto(k)) => j = k
    BY <1>4
  <1>6. \A k \in K : Rank(K, k) = Cardinality(Upto(k))
    BY DEF Rank
  <1> HIDE DEF Upto
  <1> DEFINE f == [k \in K |-> Rank(K, k)]
  <1>7. \A k \in K : Rank(K, k) \in 1..Cardinality(K)
    BY <1>1, <1>2, <1>3, <1>6
  <1>8. \A j, k \in K : Rank(K, j) = Rank(K, k) => j = k
    BY <1>5, <1>6
  <1>9. f \in Injection(K, 1..Cardinality(K))
    BY <1>7, <1>8 DEF Injection, IsInjective
  <1>10. IsFiniteSet(1..Cardinality(K)) /\ Cardinality(1..Cardinality(K)) = Cardinality(K)
    BY <1>1, FS_Interval
  <1>11. f \in Surjection(K, 1..Cardinality(K))
    BY <1>9, <1>10, FS_Injection
  <1>12. \A i \in 1..Cardinality(K) : \E k \in K : f[k] = i
    BY <1>11 DEF Surjection
  <1> QED
    BY <1>1, <1>7, <1>8, <1>12

\* Selected picks the elements at the places, each once.
LEMMA SelectedPlaces ==
    ASSUME NEW S, NEW q \in Seq(S), NEW K \in SUBSET DOMAIN q, NEW T, \A k \in K : q[k] \in T
    PROVE  /\ DOMAIN Selected(q, K) = 1..Cardinality(K) /\ Cardinality(K) \in Nat
           /\ Selected(q, K) \in Seq(T)
           /\ \A k \in K : Selected(q, K)[Rank(K, k)] = q[k] /\ Rank(K, k) \in DOMAIN Selected(q, K)
           /\ \A i \in DOMAIN Selected(q, K) : \E k \in K : Rank(K, k) = i
           /\ \A j, k \in K : Rank(K, j) = Rank(K, k) => j = k
  <1>1. DOMAIN q = 1..Len(q) /\ Len(q) \in Nat
    BY LenProperties
  <1>2. /\ Cardinality(K) \in Nat
        /\ \A k \in K : Rank(K, k) \in 1..Cardinality(K)
        /\ \A j, k \in K : Rank(K, j) = Rank(K, k) => j = k
        /\ \A i \in 1..Cardinality(K) : \E k \in K : Rank(K, k) = i
    BY <1>1, Ranks
  <1>3. DOMAIN Selected(q, K) = 1..Cardinality(K)
    BY DEF Selected
  <1>4. \A k \in K : Selected(q, K)[Rank(K, k)] = q[k]
    <2> TAKE k \in K
    <2>1. Selected(q, K)[Rank(K, k)] = q[CHOOSE j \in K : Rank(K, j) = Rank(K, k)]
      BY <1>2 DEF Selected
    <2>2. (CHOOSE j \in K : Rank(K, j) = Rank(K, k)) = k
      BY <1>2
    <2> QED
      BY <2>1, <2>2
  <1>5. \A i \in 1..Cardinality(K) : Selected(q, K)[i] \in T
    BY <1>2, <1>4
  <1>6. Selected(q, K) = [i \in 1..Cardinality(K) |-> Selected(q, K)[i]]
    BY DEF Selected
  <1>7. Selected(q, K) \in Seq(T)
    <2>1. Selected(q, K) \in [1..Cardinality(K) -> T]
      BY <1>5, <1>6
    <2> QED
      BY <1>2, <2>1, SeqDef
  <1> QED
    BY <1>2, <1>3, <1>4, <1>7

-----------------------------------------------------------------------------
\* What the operations of the queue do to the reports that are queued and to
\* those that are checked out.
Entries == [id : Reports, waking : BOOLEAN]
Sound(q) == /\ q \in Seq(Entries)
            /\ \A j, k \in DOMAIN q : q[j].id = q[k].id => j = k
Queued(q) == {q[k].id : k \in {j \in DOMAIN q : ~q[j].waking}}
Waking(q) == {q[k].id : k \in {j \in DOMAIN q : q[j].waking}}

LEMMA Split == ASSUME NEW q, Sound(q)
               PROVE  Ids(q) = Queued(q) \cup Waking(q) /\ Queued(q) \cap Waking(q) = {}
  BY DEF Sound, Queued, Waking, Ids

LEMMA In == ASSUME NEW q, NEW d
            PROVE  /\ d \in Queued(q) <=> \E k \in DOMAIN q : ~q[k].waking /\ q[k].id = d
                   /\ d \in Waking(q) <=> \E k \in DOMAIN q : q[k].waking /\ q[k].id = d
                   /\ d \in Ids(q) <=> \E k \in DOMAIN q : q[k].id = d
  BY DEF Queued, Waking, Ids

LEMMA Entry == ASSUME NEW q, Sound(q)
               PROVE  /\ DOMAIN q = 1..Len(q) /\ Len(q) \in Nat
                      /\ \A k \in DOMAIN q : q[k] \in Entries /\ q[k].id \in Reports /\ q[k].waking \in BOOLEAN
                      /\ \A k \in DOMAIN q : q[k] = [id |-> q[k].id, waking |-> q[k].waking]
  <1>1. DOMAIN q = 1..Len(q) /\ Len(q) \in Nat
    BY LenProperties DEF Sound
  <1>2. \A k \in DOMAIN q : q[k] \in Entries
    BY <1>1, ElementOfSeq DEF Sound
  <1> QED
    BY <1>1, <1>2 DEF Entries

\* What enqueueing does: nothing, or one more queued report.
LEMMA EnqueuedDoes ==
    ASSUME NEW q, Sound(q), NEW d \in Reports
    PROVE  LET r == Enqueued(q, d) IN
           /\ Sound(r) /\ Waking(r) = Waking(q)
           /\ \/ r = q
              \/ Len(r) > Len(q) /\ Queued(r) = Queued(q) \cup {d} /\ d \notin Ids(q)
  <1> DEFINE e == [id |-> d, waking |-> FALSE]
             r == Append(q, e)
  <1> SUFFICES ASSUME d \notin Ids(q)
               PROVE  /\ Sound(r) /\ Waking(r) = Waking(q)
                      /\ Len(r) > Len(q) /\ Queued(r) = Queued(q) \cup {d}
    BY DEF Enqueued
  <1>1. /\ DOMAIN q = 1..Len(q) /\ Len(q) \in Nat
        /\ \A k \in DOMAIN q : q[k] \in Entries
    BY Entry
  <1>2. e \in Entries /\ e.id = d /\ e.waking = FALSE
    BY DEF Entries
  <1> HIDE DEF e
  <1>3. /\ r \in Seq(Entries) /\ Len(r) = Len(q) + 1 /\ DOMAIN r = 1..(Len(q) + 1)
        /\ r[Len(q) + 1] = e
        /\ \A k \in DOMAIN q : r[k] = q[k]
    BY <1>1, <1>2 DEF Sound
  <1> HIDE DEF r
  <1>4. DOMAIN r = DOMAIN q \cup {Len(q) + 1} /\ Len(q) + 1 \notin DOMAIN q
    BY <1>1, <1>3
  <1>5. \A j, k \in DOMAIN r : r[j].id = r[k].id => j = k
    BY <1>2, <1>3, <1>4 DEF Sound, Ids
  <1>6. Waking(r) = Waking(q)
    BY <1>2, <1>3, <1>4 DEF Waking
  <1>7. Queued(r) = Queued(q) \cup {d}
    <2>1. ASSUME NEW x PROVE x \in Queued(r) <=> x \in Queued(q) \/ x = d
      <3>1. /\ x \in Queued(r) <=> \E k \in DOMAIN r : ~r[k].waking /\ r[k].id = x
            /\ x \in Queued(q) <=> \E k \in DOMAIN q : ~q[k].waking /\ q[k].id = x
        BY In
      <3> QED
        BY <1>2, <1>3, <1>4, <3>1
    <2> QED
      BY <2>1
  <1>8. Len(r) > Len(q)
    BY <1>1, <1>3
  <1> QED
    BY <1>3, <1>5, <1>6, <1>7, <1>8 DEF Sound

\* A queue whose entries change nothing but their state.
LEMMA Restated ==
    ASSUME NEW q, Sound(q), NEW r \in [DOMAIN q -> Entries],
           \A k \in DOMAIN q : r[k].id = q[k].id
    PROVE  Sound(r)
  <1>1. DOMAIN q = 1..Len(q) /\ Len(q) \in Nat
    BY Entry
  <1>2. r \in Seq(Entries)
    BY <1>1, SeqDef
  <1> QED
    BY <1>2 DEF Sound

\* How many entries from the front are queued: as many as there are before
\* the first that is checked out.
LEMMA ReadyIs ==
    ASSUME NEW q, Sound(q)
    PROVE  Ready(q) \in 0..Len(q) /\ \A k \in 1..Ready(q) : ~q[k].waking
  <1>1. DOMAIN q = 1..Len(q) /\ Len(q) \in Nat
    BY Entry
  <1> DEFINE T == {m \in 1..(Len(q) + 1) : m = Len(q) + 1 \/ q[m].waking}
  <1>2. T \subseteq Nat /\ T # {}
    BY <1>1
  <1> HIDE DEF T
  <1>3. \E m \in T : \A j \in T : ~(<<j, m>> \in OpToRel(<, Nat))
    BY <1>2, WFMin, NatLessThanWellFounded
  <1>4. PICK m \in T : \A j \in T : ~(<<j, m>> \in OpToRel(<, Nat))
    BY <1>3
  <1>5. \A j \in T : ~(j < m)
    BY <1>2, <1>4 DEF OpToRel
  <1>6. m \in 1..(Len(q) + 1) /\ (m = Len(q) + 1 \/ q[m].waking)
    BY <1>4 DEF T
  <1>7. \A k \in 1..(m - 1) : ~q[k].waking
    BY <1>1, <1>5, <1>6 DEF T
  <1>8. m - 1 \in 0..Len(q) /\ (m - 1 < Len(q) => q[(m - 1) + 1].waking)
    BY <1>1, <1>6
  <1>9. \E n \in 0..Len(q) : /\ \A k \in 1..n : ~q[k].waking
                             /\ n < Len(q) => q[n+1].waking
    BY <1>7, <1>8
  <1> QED
    BY <1>9 DEF Ready

\* A function on 1..n is a sequence.
LEMMA MadeSeq == ASSUME NEW S, NEW n \in Nat, NEW f \in [1..n -> S] PROVE f \in Seq(S)
  BY SeqDef

\* Checking out takes queued reports and makes them waking.
LEMMA WokenDoes ==
    ASSUME NEW q, Sound(q), NEW b, b = [k \in 1..Ready(q) |-> q[k].id]
    PROVE  LET r == Woken(q, Ready(q)) IN
           /\ Sound(r) /\ b \in Seq(Reports) /\ Range(b) \subseteq Queued(q)
           /\ Waking(r) = Waking(q) \cup Range(b)
           /\ Queued(r) = Queued(q) \ Range(b)
  <1> DEFINE n == Ready(q)
             r == Woken(q, n)
  <1>1. /\ DOMAIN q = 1..Len(q) /\ Len(q) \in Nat
        /\ \A k \in DOMAIN q : q[k] \in Entries /\ q[k].id \in Reports /\ q[k].waking \in BOOLEAN
    BY Entry
  <1>2. n \in 0..Len(q) /\ \A k \in 1..n : ~q[k].waking
    BY ReadyIs
  <1> HIDE DEF n
  <1>3. n \in Nat /\ 1..n \subseteq DOMAIN q
    BY <1>1, <1>2
  <1>4. \A k \in DOMAIN q : [q[k] EXCEPT !.waking = q[k].waking \/ k <= n] \in Entries
    BY <1>1 DEF Entries
  <1>5. r \in [DOMAIN q -> Entries]
    BY <1>4 DEF Woken
  <1>6. \A k \in DOMAIN q : r[k].id = q[k].id /\ r[k].waking = (q[k].waking \/ k <= n)
    BY <1>1 DEF Woken, Entries
  <1> HIDE DEF r
  <1>7. Sound(r) /\ DOMAIN r = DOMAIN q
    BY <1>5, <1>6, Restated
  <1>8. b \in [1..n -> Reports] /\ \A k \in 1..n : b[k] = q[k].id
    BY <1>1, <1>3 DEF n
  <1>9. b \in Seq(Reports) /\ Range(b) = {q[k].id : k \in 1..n}
    <2>1. b \in Seq(Reports)
      BY ONLY <1>3, <1>8, MadeSeq
    <2>2. Range(b) = {q[k].id : k \in 1..n}
      BY <1>8 DEF Range
    <2> QED
      BY <2>1, <2>2
  <1>10. \A k \in DOMAIN q : k <= n <=> k \in 1..n
    BY <1>1, <1>2
  <1>11. \A k \in DOMAIN q : q[k].id \in Range(b) <=> k \in 1..n
    BY <1>3, <1>9 DEF Sound
  <1>12. \A k \in DOMAIN q : r[k].waking <=> (q[k].waking \/ q[k].id \in Range(b))
    BY <1>6, <1>10, <1>11
  <1>13. \A x : x \in Range(b) => \E k \in DOMAIN q : q[k].id = x /\ ~q[k].waking
    BY <1>2, <1>3, <1>9
  <1>14. \A x : x \in Waking(r) <=> x \in Waking(q) \/ x \in Range(b)
    BY <1>6, <1>7, <1>12, <1>13, In
  <1>15. \A x : x \in Queued(r) <=> x \in Queued(q) /\ x \notin Range(b)
    BY <1>6, <1>7, <1>12, In
  <1>16. Range(b) \subseteq Queued(q)
    BY <1>13, In
  <1>17. Waking(r) = Waking(q) \cup Range(b) /\ Queued(r) = Queued(q) \ Range(b)
    BY <1>14, <1>15
  <1> QED
    BY <1>7, <1>9, <1>16, <1>17 DEF r, n

LEMMA RequeuedDoes ==
    ASSUME NEW q, Sound(q), NEW S
    PROVE  LET r == Requeued(q, S) IN
           /\ Sound(r) /\ Waking(r) = Waking(q) \ S
           /\ Queued(r) = Queued(q) \cup (Waking(q) \cap S)
  <1> DEFINE r == Requeued(q, S)
  <1>1. \A k \in DOMAIN q : q[k] \in Entries /\ q[k].waking \in BOOLEAN
    BY Entry
  <1>2. \A k \in DOMAIN q : [q[k] EXCEPT !.waking = q[k].waking /\ q[k].id \notin S] \in Entries
    BY <1>1 DEF Entries
  <1>3. r \in [DOMAIN q -> Entries]
    BY <1>2 DEF Requeued
  <1>4. \A k \in DOMAIN q : r[k].id = q[k].id /\ r[k].waking = (q[k].waking /\ q[k].id \notin S)
    BY <1>1 DEF Requeued, Entries
  <1> HIDE DEF r
  <1>5. Sound(r) /\ DOMAIN r = DOMAIN q
    BY <1>3, <1>4, Restated
  <1>6. \A x : x \in Waking(r) <=> x \in Waking(q) /\ x \notin S
    <2> TAKE x
    <2>1. x \in Waking(r) <=> \E k \in DOMAIN q : r[k].waking /\ r[k].id = x
      BY <1>5, In
    <2>2. x \in Waking(q) <=> \E k \in DOMAIN q : q[k].waking /\ q[k].id = x
      BY In
    <2> QED
      BY <1>4, <2>1, <2>2
  <1>7. \A x : x \in Queued(r) <=> x \in Queued(q) \/ (x \in Waking(q) /\ x \in S)
    <2> TAKE x
    <2>1. x \in Queued(r) <=> \E k \in DOMAIN q : ~r[k].waking /\ r[k].id = x
      BY <1>5, In
    <2>2. /\ x \in Waking(q) <=> \E k \in DOMAIN q : q[k].waking /\ q[k].id = x
          /\ x \in Queued(q) <=> \E k \in DOMAIN q : ~q[k].waking /\ q[k].id = x
      BY In
    <2> QED
      BY <1>4, <2>1, <2>2
  <1>8. Waking(r) = Waking(q) \ S /\ Queued(r) = Queued(q) \cup (Waking(q) \cap S)
    BY <1>6, <1>7
  <1> QED
    BY <1>5, <1>8 DEF r

\* How far the front of the queue and a batch agree.
LEMMA AgreeIs ==
    ASSUME NEW q, Sound(q), NEW S, NEW b \in Seq(S)
    PROVE  /\ Agree(q, b) \in 0..Len(b) /\ Agree(q, b) <= Len(q)
           /\ \A k \in 1..Agree(q, b) : q[k].id = b[k]
  <1>1. DOMAIN q = 1..Len(q) /\ Len(q) \in Nat /\ Len(b) \in Nat
    BY Entry, LenProperties
  <1> DEFINE T == {m \in 1..(Len(b) + 1) : m = Len(b) + 1 \/ m > Len(q) \/ q[m].id # b[m]}
  <1>2. T \subseteq Nat /\ T # {}
    BY <1>1
  <1> HIDE DEF T
  <1>3. \E m \in T : \A j \in T : ~(<<j, m>> \in OpToRel(<, Nat))
    BY <1>2, WFMin, NatLessThanWellFounded
  <1>4. PICK m \in T : \A j \in T : ~(<<j, m>> \in OpToRel(<, Nat))
    BY <1>3
  <1>5. \A j \in T : ~(j < m)
    BY <1>2, <1>4 DEF OpToRel
  <1>6. m \in 1..(Len(b) + 1) /\ (m = Len(b) + 1 \/ m > Len(q) \/ q[m].id # b[m])
    BY <1>4 DEF T
  <1>7. m <= Len(q) + 1
    <2> SUFFICES ASSUME m > Len(q) + 1 PROVE FALSE
      BY <1>1, <1>6
    <2>1. Len(q) + 1 \in T
      BY <1>1, <1>6 DEF T
    <2> QED
      BY <1>1, <1>5, <1>6, <2>1
  <1>8. \A k \in 1..(m - 1) : q[k].id = b[k]
    BY <1>1, <1>5, <1>6, <1>7 DEF T
  <1>9. m - 1 \in 0..Len(b) /\ m - 1 <= Len(q)
    BY <1>1, <1>6, <1>7
  <1>10. m - 1 < Len(b) => m - 1 = Len(q) \/ q[(m - 1) + 1].id # b[(m - 1) + 1]
    BY <1>1, <1>6, <1>7
  <1>11. \E n \in 0..Len(b) : /\ n <= Len(q)
                              /\ \A k \in 1..n : q[k].id = b[k]
                              /\ n < Len(b) => n = Len(q) \/ q[n+1].id # b[n+1]
    BY <1>8, <1>9, <1>10
  <1> QED
    BY <1>11 DEF Agree

\* r holds the entries of q but for the reports of S.
Part(r, q, S) ==
    /\ \A j, k \in DOMAIN r : r[j].id = r[k].id => j = k
    /\ \A i \in DOMAIN r : \E k \in DOMAIN q : r[i] = q[k] /\ q[k].id \notin S
    /\ \A k \in DOMAIN q : q[k].id \notin S => \E i \in DOMAIN r : r[i] = q[k]

LEMMA PartSound ==
    ASSUME NEW q, Sound(q), NEW S, NEW r \in Seq(Entries), Part(r, q, S)
    PROVE  Sound(r) /\ Waking(r) = Waking(q) \ S /\ Queued(r) = Queued(q) \ S
  <1>0. /\ \A j, k \in DOMAIN r : r[j].id = r[k].id => j = k
        /\ \A i \in DOMAIN r : \E k \in DOMAIN q : r[i] = q[k] /\ q[k].id \notin S
        /\ \A k \in DOMAIN q : q[k].id \notin S => \E i \in DOMAIN r : r[i] = q[k]
    BY DEF Part
  <1>1. Sound(r)
    BY <1>0 DEF Sound
  <1>2. ASSUME NEW x PROVE x \in Waking(r) <=> x \in Waking(q) /\ x \notin S
    <2>1. /\ x \in Waking(r) <=> \E k \in DOMAIN r : r[k].waking /\ r[k].id = x
          /\ x \in Waking(q) <=> \E k \in DOMAIN q : q[k].waking /\ q[k].id = x
      BY In
    <2> QED
      BY <1>0, <2>1
  <1>3. ASSUME NEW x PROVE x \in Queued(r) <=> x \in Queued(q) /\ x \notin S
    <2>1. /\ x \in Queued(r) <=> \E k \in DOMAIN r : ~r[k].waking /\ r[k].id = x
          /\ x \in Queued(q) <=> \E k \in DOMAIN q : ~q[k].waking /\ q[k].id = x
      BY In
    <2> QED
      BY <1>0, <2>1
  <1> QED
    BY <1>1, <1>2, <1>3

\* Consuming takes reports of the batch from the queue: all, if they agree to
\* the end.
LEMMA ConsumedDoes ==
    ASSUME NEW q, Sound(q), NEW S, NEW b \in Seq(S)
    PROVE  LET n == Agree(q, b)
               r == SubSeq(q, n + 1, Len(q)) IN
           /\ Sound(r)
           /\ \E C \in SUBSET Range(b) : /\ Waking(r) = Waking(q) \ C /\ Queued(r) = Queued(q) \ C
                                         /\ ~(n < Len(b)) => C = Range(b)
  <1> DEFINE n == Agree(q, b)
             r == SubSeq(q, n + 1, Len(q))
             C == {b[k] : k \in 1..n}
             f == [k \in DOMAIN r |-> n + k]
  <1>1. /\ DOMAIN q = 1..Len(q) /\ Len(q) \in Nat
        /\ \A k \in DOMAIN q : q[k] \in Entries
    BY Entry
  <1>2. Len(b) \in Nat /\ DOMAIN b = 1..Len(b)
    BY LenProperties
  <1>3. n \in 0..Len(b) /\ n <= Len(q) /\ \A k \in 1..n : q[k].id = b[k]
    BY AgreeIs
  <1> HIDE DEF n
  <1>4. n \in Nat
    BY <1>2, <1>3
  <1>5. \A i \in (n + 1)..Len(q) : q[i] \in Entries
    BY <1>1, <1>4
  <1>6. /\ r \in Seq(Entries) /\ Len(r) = IF n + 1 <= Len(q) THEN Len(q) - (n + 1) + 1 ELSE 0
        /\ \A i \in 1..(Len(q) - (n + 1) + 1) : r[i] = q[n + 1 + i - 1]
    BY <1>1, <1>4, <1>5, SubSeqProperties
  <1> HIDE DEF r
  <1>7. DOMAIN r = 1..(Len(q) - n)
    BY <1>1, <1>3, <1>4, <1>6, LenProperties
  <1>8. \A k \in DOMAIN r : r[k] = q[n + k]
    <2> TAKE k \in DOMAIN r
    <2>1. k \in 1..(Len(q) - (n + 1) + 1) /\ n + 1 + k - 1 = n + k
      BY <1>1, <1>4, <1>7
    <2> QED
      BY <1>6, <2>1
  <1>9. /\ f \in [DOMAIN r -> DOMAIN q] /\ \A k \in DOMAIN r : f[k] = n + k
        /\ \A j, k \in DOMAIN r : f[j] = f[k] => j = k
    BY <1>1, <1>4, <1>7
  <1>10. \A k \in DOMAIN q : (\E j \in DOMAIN r : f[j] = k) <=> k > n
    <2> SUFFICES ASSUME NEW k \in DOMAIN q PROVE (\E j \in DOMAIN r : n + j = k) <=> k > n
      BY <1>9
    <2>1. k > n => k - n \in DOMAIN r /\ n + (k - n) = k
      BY <1>1, <1>4, <1>7
    <2>2. \A j \in DOMAIN r : n + j > n
      BY <1>1, <1>4, <1>7
    <2> QED
      BY <2>1, <2>2
  <1> HIDE DEF f
  <1>11. \A k \in DOMAIN q : k > n <=> q[k].id \notin C
    <2> TAKE k \in DOMAIN q
    <2>1. k \in 1..n => q[k].id \in C
      BY <1>3
    <2>2. q[k].id \in C => k \in 1..n
      <3> SUFFICES ASSUME NEW j \in 1..n, q[k].id = b[j] PROVE k \in 1..n
        OBVIOUS
      <3>1. j \in DOMAIN q /\ q[j].id = q[k].id
        BY <1>1, <1>3, <1>4
      <3> QED
        BY <3>1 DEF Sound
    <2>3. k > n <=> k \notin 1..n
      BY <1>1, <1>4
    <2> QED
      BY <2>1, <2>2, <2>3
  <1>12. C \in SUBSET Range(b) /\ (~(n < Len(b)) => C = Range(b))
    BY <1>2, <1>3, <1>4 DEF Range
  <1> HIDE DEF C
  <1>13. \A i \in DOMAIN r : \E k \in DOMAIN q : r[i] = q[k] /\ q[k].id \notin C
    BY <1>8, <1>9, <1>10, <1>11
  <1>14. \A k \in DOMAIN q : q[k].id \notin C => \E i \in DOMAIN r : r[i] = q[k]
    BY <1>8, <1>9, <1>10, <1>11
  <1>15. \A j, k \in DOMAIN r : r[j].id = r[k].id => j = k
    BY <1>8, <1>9 DEF Sound
  <1>16. Sound(r) /\ Waking(r) = Waking(q) \ C /\ Queued(r) = Queued(q) \ C
    <2>1. Part(r, q, C)
      BY <1>13, <1>14, <1>15 DEF Part
    <2> QED
      BY <1>6, <2>1, PartSound
  <1> QED
    BY <1>12, <1>16 DEF r, n

LEMMA WithoutDoes ==
    ASSUME NEW q, Sound(q), NEW S
    PROVE  LET r == Without(q, S) IN
           Sound(r) /\ Waking(r) = Waking(q) \ S /\ Queued(r) = Queued(q) \ S
  <1> DEFINE K == {k \in DOMAIN q : q[k].id \notin S}
             r == Selected(q, K)
  <1>1. \A k \in DOMAIN q : q[k] \in Entries
    BY Entry
  <1>2. \A k \in DOMAIN q : k \in K <=> q[k].id \notin S
    OBVIOUS
  <1>3. K \in SUBSET DOMAIN q
    OBVIOUS
  <1> HIDE DEF K
  <1>4. /\ r \in Seq(Entries)
        /\ \A k \in K : r[Rank(K, k)] = q[k] /\ Rank(K, k) \in DOMAIN r
        /\ \A i \in DOMAIN r : \E k \in K : Rank(K, k) = i
        /\ \A j, k \in K : Rank(K, j) = Rank(K, k) => j = k
    <2>1. q \in Seq(Entries) /\ \A k \in K : q[k] \in Entries
      BY <1>1, <1>3 DEF Sound
    <2> QED
      BY <1>3, <2>1, SelectedPlaces
  <1> HIDE DEF r
  <1>5. \A i \in DOMAIN r : \E k \in DOMAIN q : r[i] = q[k] /\ q[k].id \notin S
    BY <1>2, <1>3, <1>4
  <1>6. \A k \in DOMAIN q : q[k].id \notin S => \E i \in DOMAIN r : r[i] = q[k]
    BY <1>2, <1>4
  <1>7. \A i, j \in DOMAIN r : r[i].id = r[j].id => i = j
    <2> SUFFICES ASSUME NEW i \in DOMAIN r, NEW j \in DOMAIN r, r[i].id = r[j].id PROVE i = j
      OBVIOUS
    <2>1. PICK k \in K : Rank(K, k) = i
      BY <1>4
    <2>2. PICK l \in K : Rank(K, l) = j
      BY <1>4
    <2>3. q[k].id = q[l].id
      BY <1>4, <2>1, <2>2
    <2>4. k = l
      BY <1>3, <2>3 DEF Sound
    <2> QED
      BY <2>1, <2>2, <2>4
  <1>8. Sound(r) /\ Waking(r) = Waking(q) \ S /\ Queued(r) = Queued(q) \ S
    <2>1. Part(r, q, S)
      BY <1>5, <1>6, <1>7 DEF Part
    <2> QED
      BY <1>4, <2>1, PartSound
  <1> QED
    BY <1>8 DEF Without, r, K

\* What can be recovered is pending.
LEMMA RecoverableIs ==
    ASSUME NEW S, notes \in Seq(S) PROVE Recoverable \in Seq(pending)
  <1> DEFINE K == {k \in DOMAIN notes : notes[k] \in pending \ active}
  <1>1. K \in SUBSET DOMAIN notes /\ \A k \in K : notes[k] \in pending
    OBVIOUS
  <1> HIDE DEF K
  <1>2. Selected(notes, K) \in Seq(pending)
    BY <1>1, SelectedPlaces
  <1> QED
    BY <1>2 DEF Recoverable, K

-----------------------------------------------------------------------------
\* Where a report is.
\* What a task has in its hands.
Carries(t) == IF task[t].stage \in Holding THEN Batch(t) ELSE {}

\* What is in a task, in the queue and in a started batch has been logged.
TaskTyped(t) ==
    /\ task[t].batch \in Seq(logged) /\ task[t].snap \in Seq(logged)
    /\ task[t].stage = "enqueue" => t \in logged
Typed ==
    /\ logged \subseteq Reports /\ active \subseteq logged
    /\ notes \in Seq(Reports)
    /\ Sound(queue) /\ Queued(queue) \cup Waking(queue) \subseteq logged
    /\ \A t \in Reports : TaskTyped(t)

\* No report is in two hands, or in one and queued, unless it was queued again.
Alone == \A t, u \in Reports : t # u => Carries(t) \cap Carries(u) \subseteq again
Apart == Queued(queue) \cap Held \subseteq again

\* A pending report that is checked out is in some hands, or was left behind;
\* one that is in a started batch was not lost; and what is in a task's hands
\* is still in the queue, until it is acknowledged.
Returns == Waking(queue) \cap pending \subseteq Held \cup stuck
Started == pending \cap active \subseteq Held \cup stuck \cup gone \cup Queued(queue) \cup Waking(queue)
Carried == \A t \in Reports : Carries(t) \cap pending \subseteq Queued(queue) \cup Waking(queue) \cup gone
Acked == \A t \in Reports : task[t].stage = "consume" => Batch(t) \cap pending = {}

Places == Alone /\ Apart /\ Returns /\ Started /\ Carried /\ Acked
PlacesInv == DeliveryInv /\ Typed /\ Places

LEMMA HeldIs == \A d : d \in Held <=> \E t \in Reports : d \in Carries(t)
  BY DEF Held, Carries, Holding

LEMMA HeldNext == \A d : d \in Held' <=> \E t \in Reports : d \in Carries(t)'
  BY DEF Held, Carries, Holding

LEMMA CarriesIs == ASSUME NEW t \in Reports, Typed
                   PROVE  Carries(t) \subseteq logged /\ Batch(t) \subseteq logged
  <1>1. task[t].batch \in Seq(logged)
    BY DEF Typed, TaskTyped
  <1>2. Batch(t) \subseteq logged
    BY <1>1, LenProperties, ElementOfSeq DEF Batch, Range
  <1> QED
    BY <1>2 DEF Carries

\* Steps that leave queue and hands alone.
LEMMA QuietPlaces ==
    ASSUME Typed, Places, UNCHANGED <<queue, again, gone, stuck>>,
           \A t \in Reports : Carries(t)' = Carries(t),
           pending' \cap logged \subseteq pending, active' \subseteq active \cup Held, Acked'
    PROVE  Places'
  <1>1. Held' = Held
    BY HeldIs, HeldNext
  <1>2. Held \subseteq logged /\ Queued(queue) \cup Waking(queue) \subseteq logged /\ active \subseteq logged
    BY HeldIs, CarriesIs DEF Typed
  <1>3. Alone'
    BY DEF Places, Alone
  <1>4. Apart'
    BY <1>1 DEF Places, Apart
  <1>5. Returns'
    BY <1>1, <1>2 DEF Places, Returns
  <1>6. Started'
    BY <1>1, <1>2 DEF Places, Started
  <1>7. Carried'
    BY CarriesIs DEF Places, Carried
  <1> QED
    BY <1>3, <1>4, <1>5, <1>6, <1>7 DEF Places

\* A report enters the queue.
LEMMA EntersPlaces ==
    ASSUME Typed, Places, NEW d \in logged, Enters(d), UNCHANGED <<pending, active, stuck>>,
           \A t \in Reports : Carries(t)' = Carries(t), Acked'
    PROVE  Sound(queue)' /\ (Queued(queue) \cup Waking(queue))' \subseteq logged /\ Places'
  <1>1. Held' = Held
    BY HeldIs, HeldNext
  <1>2. d \in Reports /\ Sound(queue)
    BY DEF Typed
  <1>3. /\ Sound(queue') /\ Waking(queue') = Waking(queue)
        /\ \/ queue' = queue
           \/ Len(queue') > Len(queue) /\ Queued(queue') = Queued(queue) \cup {d}
    BY <1>2, EnqueuedDoes DEF Enters
  <1>4. Ids(queue') = Queued(queue') \cup Waking(queue')
    BY <1>3, Split
  <1>5. again \subseteq again' /\ gone' = gone \ Ids(queue')
    BY DEF Enters
  <1>6. Queued(queue) \subseteq Queued(queue')
    BY <1>3
  <1>7. Alone'
    BY <1>5 DEF Places, Alone
  <1>8. Apart'
    <2>1. CASE queue' = queue
      BY <1>1, <1>5, <2>1 DEF Places, Apart
    <2>2. CASE Len(queue') > Len(queue) /\ Queued(queue') = Queued(queue) \cup {d}
      <3>1. d \in Held => d \in again'
        BY <2>2 DEF Enters
      <3> QED
        BY <1>1, <1>5, <2>2, <3>1 DEF Places, Apart
    <2> QED
      BY <1>3, <2>1, <2>2
  <1>9. Returns'
    BY <1>1, <1>3 DEF Places, Returns
  <1>10. Started'
    BY <1>1, <1>3, <1>4, <1>5, <1>6 DEF Places, Started
  <1>11. Carried'
    BY <1>3, <1>4, <1>5, <1>6 DEF Places, Carried
  <1>12. Queued(queue') \cup Waking(queue') \subseteq logged
    BY <1>3 DEF Typed
  <1> QED
    BY <1>3, <1>7, <1>8, <1>9, <1>10, <1>11, <1>12 DEF Places

\* A task checks reports out.
LEMMA TakesPlaces ==
    ASSUME Typed, Places, NEW t \in Reports, NEW C, C \subseteq Queued(queue),
           Carries(t) = {}, Carries(t)' = C, \A u \in Reports \ {t} : Carries(u)' = Carries(u),
           Queued(queue') = Queued(queue) \ C, Waking(queue') = Waking(queue) \cup C,
           UNCHANGED <<pending, active, stuck, gone, again>>, Acked'
    PROVE  Places'
  <1>1. \A d : d \in Held' <=> d \in Held \/ d \in C
    BY HeldIs, HeldNext
  <1>2. \A u \in Reports : Carries(u) \subseteq Held
    BY HeldIs
  <1>3. Alone'
    BY <1>2 DEF Places, Alone, Apart
  <1>4. Apart'
    BY <1>1 DEF Places, Apart
  <1>5. Returns'
    BY <1>1 DEF Places, Returns
  <1>6. Started'
    BY <1>1 DEF Places, Started
  <1>7. Carried'
    BY DEF Places, Carried
  <1> QED
    BY <1>3, <1>4, <1>5, <1>6, <1>7 DEF Places

\* A task lets go of what it has: into the queue, to what is left behind, or
\* as settled.
LEMMA DropsPlaces ==
    ASSUME Typed, Places, NEW t \in Reports, Carries(t)' = {},
           \A u \in Reports \ {t} : Carries(u)' = Carries(u),
           NEW B, Queued(queue') \subseteq Queued(queue) \cup B, B \subseteq Carries(t),
           Queued(queue) \cup Waking(queue) \subseteq Queued(queue') \cup Waking(queue') \cup (Reports \ pending),
           Waking(queue') \subseteq Waking(queue),
           Waking(queue') \cap Carries(t) \cap pending \subseteq stuck',
           stuck \subseteq stuck', UNCHANGED <<pending, active, gone, again>>, Acked'
    PROVE  Places'
  <1>1. \A d : d \in Held' <=> \E u \in Reports \ {t} : d \in Carries(u)
    BY HeldNext
  <1>2. Held \subseteq Held' \cup Carries(t) /\ Held' \subseteq Held
    BY <1>1, HeldIs
  <1>3. Alone'
    BY DEF Places, Alone
  <1>4. Apart'
    BY <1>1, <1>2 DEF Places, Apart, Alone
  <1>5. Returns'
    BY <1>2 DEF Places, Returns
  <1>6. Started'
    BY <1>2 DEF Places, Started, Carried
  <1>7. Carried'
    BY DEF Places, Carried
  <1> QED
    BY <1>3, <1>4, <1>5, <1>6, <1>7 DEF Places

\* Reports leave the queue: settled ones, or such as are written down as gone.
LEMMA LeavePlaces ==
    ASSUME Typed, Places, \A t \in Reports : Carries(t)' = Carries(t),
           NEW S, Queued(queue') = Queued(queue) \ S, Waking(queue') = Waking(queue) \ S,
           (Queued(queue) \cup Waking(queue)) \cap S \cap pending \subseteq gone',
           gone \subseteq gone', UNCHANGED <<pending, active, stuck, again>>, Acked'
    PROVE  Places'
  <1>1. Held' = Held
    BY HeldIs, HeldNext
  <1>2. Alone'
    BY DEF Places, Alone
  <1>3. Apart'
    BY <1>1 DEF Places, Apart
  <1>4. Returns'
    BY <1>1 DEF Places, Returns
  <1>5. Started'
    BY <1>1 DEF Places, Started
  <1>6. Carried'
    BY DEF Places, Carried
  <1> QED
    BY <1>2, <1>3, <1>4, <1>5, <1>6 DEF Places

-----------------------------------------------------------------------------
LEMMA TypedStep ==
    ASSUME Typed, NEW t \in Reports, \A u \in Reports \ {t} : task'[u] = task[u], TaskTyped(t)',
           logged \subseteq logged', logged' \subseteq Reports, active' \subseteq logged', notes' \in Seq(Reports),
           Sound(queue'), Queued(queue') \cup Waking(queue') \subseteq logged'
    PROVE  Typed'
  <1>1. ASSUME NEW u \in Reports \ {t} PROVE TaskTyped(u)'
    <2>1. task[u].batch \in Seq(logged') /\ task[u].snap \in Seq(logged')
      BY SeqMonotonic DEF Typed, TaskTyped
    <2> QED
      BY <2>1 DEF Typed, TaskTyped
  <1> QED
    BY <1>1 DEF Typed

\* The hands of the tasks that do not take the step.
LEMMA OtherHands ==
    ASSUME NEW t \in Reports, \A u \in Reports \ {t} : task'[u] = task[u]
    PROVE  \A u \in Reports \ {t} : Carries(u)' = Carries(u) /\ Batch(u)' = Batch(u)
  BY DEF Carries, Batch

LEMMA AckedStep ==
    ASSUME Typed, Places, NEW t \in Reports, \A u \in Reports \ {t} : task'[u] = task[u],
           pending' \cap logged \subseteq pending,
           task'[t].stage = "consume" => Batch(t)' \cap pending' = {}
    PROVE  Acked'
  BY CarriesIs, OtherHands DEF Places, Acked

LEMMA QuietStep ==
    ASSUME PlacesInv, NEW t \in Reports, \A u \in Reports \ {t} : task'[u] = task[u],
           TaskTyped(t)', Carries(t)' = Carries(t),
           task'[t].stage = "consume" => Batch(t)' \cap pending' = {},
           UNCHANGED <<queue, again, gone, stuck>>, logged \subseteq logged', logged' \subseteq Reports,
           pending' \cap logged \subseteq pending, active' \subseteq active \cup Held, notes' \in Seq(Reports)
    PROVE  Typed' /\ Places'
  <1>1. Held \subseteq logged
    BY HeldIs, CarriesIs DEF PlacesInv
  <1>2. Typed'
    BY <1>1, TypedStep DEF PlacesInv, Typed
  <1>3. Acked'
    BY AckedStep DEF PlacesInv
  <1>4. \A u \in Reports : Carries(u)' = Carries(u)
    BY OtherHands
  <1>5. Places'
    BY <1>3, <1>4, QuietPlaces DEF PlacesInv
  <1> QED
    BY <1>2, <1>5

LEMMA MoveStep ==
    ASSUME PlacesInv, NEW t \in Reports, NEW s, Move(t, s), s \in Holding <=> task[t].stage \in Holding,
           s = "enqueue" => t \in logged', s = "consume" => Batch(t) \cap pending' = {},
           UNCHANGED <<queue, again, gone, stuck>>, logged \subseteq logged', logged' \subseteq Reports,
           pending' \cap logged \subseteq pending, active' \subseteq active \cup Held, notes' \in Seq(Reports)
    PROVE  Typed' /\ Places'
  <1>1. /\ task'[t].stage = s /\ task'[t].batch = task[t].batch /\ task'[t].snap = task[t].snap
        /\ \A d \in Reports \ {t} : task'[d] = task[d]
    BY Moves DEF PlacesInv, DeliveryInv
  <1>2. Batch(t)' = Batch(t) /\ Carries(t)' = Carries(t)
    BY <1>1 DEF Batch, Carries
  <1>3. task[t].batch \in Seq(logged') /\ task[t].snap \in Seq(logged')
    BY SeqMonotonic DEF PlacesInv, Typed, TaskTyped
  <1>4. TaskTyped(t)'
    BY <1>1, <1>3 DEF TaskTyped
  <1> QED
    BY <1>1, <1>2, <1>4, QuietStep

LEMMA EmptyTask == (\A S : <<>> \in Seq(S)) /\ Range(<<>>) = {}
  BY DEF Range

\* The hands of a task that is over are empty.
LEMMA OverHands ==
    ASSUME PlacesInv, NEW t \in Reports, Ends(t)
    PROVE  /\ task'[t] = Over /\ Carries(t)' = {} /\ Batch(t)' = {} /\ TaskTyped(t)'
           /\ task'[t].stage = "done"
           /\ \A d \in Reports \ {t} : task'[d] = task[d]
  <1>1. task'[t] = Over /\ \A d \in Reports \ {t} : task'[d] = task[d]
    BY Finishes DEF PlacesInv, DeliveryInv
  <1> QED
    BY <1>1, OverShape, EmptyTask DEF Carries, Batch, TaskTyped

LEMMA EndStep ==
    ASSUME PlacesInv, NEW t \in Reports, Ends(t), task[t].stage \notin Holding,
           UNCHANGED <<log, queue, again, gone, stuck>>
    PROVE  Typed' /\ Places'
  <1>1. Carries(t) = {}
    BY DEF Carries
  <1> QED
    BY <1>1, OverHands, QuietStep DEF log, PlacesInv, Typed

\* A task gives up with what it has left behind.
LEMMA GivesUpPlaces ==
    ASSUME PlacesInv, NEW t \in Reports, task[t].stage \in Holding, GivesUp(t)
    PROVE  Typed' /\ Places'
  <1>1. /\ Ends(t) /\ stuck' = stuck \cup Batch(t) /\ UNCHANGED <<log, queue, gone, again>>
    BY DEF GivesUp
  <1>2. /\ Carries(t)' = {} /\ TaskTyped(t)' /\ task'[t].stage = "done"
        /\ \A u \in Reports \ {t} : task'[u] = task[u]
    BY <1>1, OverHands
  <1>3. Carries(t) = Batch(t)
    BY DEF Carries
  <1>4. Acked'
    BY <1>1, <1>2, AckedStep DEF PlacesInv, log
  <1>5. Places'
    <2>1. /\ Queued(queue') \subseteq Queued(queue) \cup {} /\ {} \subseteq Carries(t)
          /\ Queued(queue) \cup Waking(queue) \subseteq Queued(queue') \cup Waking(queue') \cup (Reports \ pending)
          /\ Waking(queue') \subseteq Waking(queue)
          /\ Waking(queue') \cap Carries(t) \cap pending \subseteq stuck' /\ stuck \subseteq stuck'
      BY <1>1, <1>3
    <2> QED
      BY <1>1, <1>2, <1>4, <2>1, OtherHands, DropsPlaces DEF log, PlacesInv
  <1>6. Typed'
    BY <1>1, <1>2, TypedStep DEF log, PlacesInv, Typed
  <1> QED
    BY <1>5, <1>6

-----------------------------------------------------------------------------
LEMMA MakesPlaces == ASSUME PlacesInv, NEW t \in Reports, Makes(t) PROVE Typed' /\ Places'
  <1>1. CASE Notify(t)
    <2>1. notes' \in Seq(Reports)
      BY <1>1 DEF Notify, PlacesInv, Typed
    <2>2. UNCHANGED <<queue, again, gone, stuck, logged, pending, active>> /\ Move(t, "append") /\ task[t].stage = "new"
      BY <1>1 DEF Notify, ghosts
    <2> QED
      BY <2>1, <2>2, MoveStep DEF PlacesInv, Typed, Holding
  <1>2. CASE NotifyFails(t) \/ AppendQueuedFails(t)
    BY <1>2, EndStep DEF NotifyFails, AppendQueuedFails, ghosts, Holding
  <1>3. CASE AppendQueued(t)
    <2>1. t \notin logged
      BY <1>3 DEF AppendQueued, PlacesInv, DeliveryInv, TaskSound
    <2>2. /\ UNCHANGED <<queue, again, gone, stuck, notes, active>> /\ Move(t, "enqueue") /\ task[t].stage = "append"
          /\ logged' = logged \cup {t} /\ pending' = pending \cup ({t} \ discarded)
      BY <1>3 DEF AppendQueued, ghosts
    <2> QED
      BY <2>1, <2>2, MoveStep DEF PlacesInv, Typed, Holding
  <1>4. CASE Enqueue(t)
    <2> DEFINE r == [task[t] EXCEPT !["stage"] = "reconcile", !["left"] = MaxFollowUps]
    <2>1. task' = [task EXCEPT ![t] = r]
      BY <1>4 DEF Enqueue
    <2>2. /\ r = [f \in Fields |-> r[f]] /\ r.stage = "reconcile"
          /\ r.batch = task[t].batch /\ r.snap = task[t].snap
      BY DEF PlacesInv, DeliveryInv, Shape, Fields
    <2> HIDE DEF r
    <2>3. task'[t] = r /\ \A d \in Reports \ {t} : task'[d] = task[d]
      BY <2>1, <2>2, Changes DEF PlacesInv, DeliveryInv
    <2>4. Enters(t) /\ UNCHANGED <<log, stuck>> /\ task[t].stage = "enqueue" /\ t \in logged
      BY <1>4 DEF Enqueue, PlacesInv, Typed, TaskTyped
    <2>5. TaskTyped(t)' /\ Carries(t)' = Carries(t)
      BY <2>2, <2>3, <2>4 DEF TaskTyped, PlacesInv, Typed, Carries, Holding, log
    <2>6. \A u \in Reports : Carries(u)' = Carries(u)
      BY <2>3, <2>5, OtherHands
    <2>7. Acked'
      BY <2>2, <2>3, <2>4, AckedStep DEF PlacesInv, log
    <2>8. Sound(queue') /\ Queued(queue') \cup Waking(queue') \subseteq logged /\ Places'
      BY <2>4, <2>6, <2>7, EntersPlaces DEF log, PlacesInv
    <2>9. Typed'
      BY <2>3, <2>4, <2>5, <2>8, TypedStep DEF log, PlacesInv, Typed
    <2> QED
      BY <2>8, <2>9
  <1> QED
    BY <1>1, <1>2, <1>3, <1>4 DEF Makes

LEMMA AttemptsPlaces == ASSUME PlacesInv, NEW t \in Reports, Attempts(t) PROVE Typed' /\ Places'
  <1>0. /\ task[t].batch \in Seq(logged) /\ task[t].snap \in Seq(logged) /\ pending \subseteq logged
        /\ logged \subseteq Reports /\ notes \in Seq(Reports) /\ active \subseteq logged /\ Sound(queue)
        /\ Queued(queue) \cup Waking(queue) \subseteq logged
    BY DEF PlacesInv, Typed, TaskTyped, DeliveryInv, LogSound
  <1>1. CASE Reconcile(t)
    <2> DEFINE r == [task[t] EXCEPT !["stage"] = "refill", !["snap"] = Recoverable]
    <2>1. task' = [task EXCEPT ![t] = r] /\ task[t].stage = "reconcile" /\ UNCHANGED <<log, queue, ghosts>>
      BY <1>1 DEF Reconcile
    <2>2. /\ r = [f \in Fields |-> r[f]] /\ r.stage = "refill"
          /\ r.batch = task[t].batch /\ r.snap = Recoverable
      BY DEF PlacesInv, DeliveryInv, Shape, Fields
    <2> HIDE DEF r
    <2>3. task'[t] = r /\ \A d \in Reports \ {t} : task'[d] = task[d]
      BY <2>1, <2>2, Changes DEF PlacesInv, DeliveryInv
    <2>4. Recoverable \in Seq(logged)
      BY <1>0, RecoverableIs, SeqMonotonic
    <2>5. TaskTyped(t)' /\ Carries(t)' = Carries(t)
      BY <1>0, <2>1, <2>2, <2>3, <2>4 DEF TaskTyped, Carries, Holding, log
    <2> QED
      BY <1>0, <2>1, <2>2, <2>3, <2>5, QuietStep DEF log, ghosts
  <1>2. CASE ReconcileFails(t)
    BY <1>2, EndStep DEF ReconcileFails, ghosts, Holding
  <1>3. CASE Refill(t) /\ task[t].snap = <<>>
    BY <1>0, <1>3, MoveStep DEF Refill, Holding, log
  <1>4. CASE Refill(t) /\ task[t].snap # <<>>
    <2> DEFINE snap == task[t].snap
               r == [task[t] EXCEPT !["snap"] = Tail(snap)]
    <2>1. /\ task' = [task EXCEPT ![t] = r] /\ task[t].stage = "refill" /\ Enters(Head(snap))
          /\ UNCHANGED <<log, stuck>>
      BY <1>4 DEF Refill
    <2>2. Head(snap) \in logged /\ Tail(snap) \in Seq(logged)
      BY <1>0, <1>4, HeadTailProperties
    <2>3. /\ r = [f \in Fields |-> r[f]] /\ r.stage = task[t].stage
          /\ r.batch = task[t].batch /\ r.snap = Tail(snap)
      BY DEF PlacesInv, DeliveryInv, Shape, Fields
    <2> HIDE DEF r, snap
    <2>4. task'[t] = r /\ \A d \in Reports \ {t} : task'[d] = task[d]
      BY <2>1, <2>3, Changes DEF PlacesInv, DeliveryInv
    <2>5. TaskTyped(t)' /\ Carries(t)' = Carries(t)
      BY <1>0, <2>1, <2>2, <2>3, <2>4 DEF TaskTyped, Carries, Holding, log
    <2>6. \A u \in Reports : Carries(u)' = Carries(u)
      BY <2>4, <2>5, OtherHands
    <2>7. Acked'
      BY <2>1, <2>3, <2>4, AckedStep DEF PlacesInv, log
    <2>8. Sound(queue') /\ Queued(queue') \cup Waking(queue') \subseteq logged /\ Places'
      BY <2>1, <2>2, <2>6, <2>7, EntersPlaces DEF log, PlacesInv
    <2>9. Typed'
      BY <1>0, <2>1, <2>4, <2>5, <2>8, TypedStep DEF log, PlacesInv
    <2> QED
      BY <2>8, <2>9
  <1>5. CASE Checkout(t) /\ Ready(queue) = 0
    BY <1>5, EndStep DEF Checkout, ghosts, Holding
  <1>6. CASE Checkout(t) /\ Ready(queue) # 0
    <2> DEFINE b == [k \in 1..Ready(queue) |-> queue[k].id]
               r == [task[t] EXCEPT !["stage"] = "submit", !["batch"] = b]
    <2>1. /\ task' = [task EXCEPT ![t] = r] /\ task[t].stage = "checkout"
          /\ queue' = Woken(queue, Ready(queue)) /\ UNCHANGED <<log, ghosts>>
      BY <1>6 DEF Checkout
    <2>2. /\ Sound(queue') /\ b \in Seq(Reports) /\ Range(b) \subseteq Queued(queue)
          /\ Waking(queue') = Waking(queue) \cup Range(b)
          /\ Queued(queue') = Queued(queue) \ Range(b)
      BY <1>0, <2>1, WokenDoes
    <2> HIDE DEF b
    <2>3. b \in Seq(logged)
      <3>1. DOMAIN b = 1..Len(b) /\ Len(b) \in Nat
        BY <2>2, LenProperties
      <3>2. \A k \in 1..Len(b) : b[k] \in logged
        BY <1>0, <2>2, <3>1 DEF Range
      <3> QED
        BY <2>2, <3>1, <3>2, SeqDef
    <2>4. r = [f \in Fields |-> r[f]] /\ r.stage = "submit" /\ r.batch = b /\ r.snap = task[t].snap
      BY DEF PlacesInv, DeliveryInv, Shape, Fields
    <2> HIDE DEF r
    <2>5. task'[t] = r /\ \A d \in Reports \ {t} : task'[d] = task[d]
      BY <2>1, <2>4, Changes DEF PlacesInv, DeliveryInv
    <2>6. TaskTyped(t)' /\ Carries(t) = {} /\ Carries(t)' = Range(b)
      BY <1>0, <2>1, <2>3, <2>4, <2>5 DEF TaskTyped, Carries, Batch, Holding, log
    <2>7. Acked'
      BY <2>1, <2>4, <2>5, AckedStep DEF PlacesInv, log
    <2>8. Places'
      BY <2>1, <2>2, <2>5, <2>6, <2>7, OtherHands, TakesPlaces DEF log, ghosts, PlacesInv
    <2>9. Typed'
      BY <1>0, <2>1, <2>2, <2>5, <2>6, TypedStep DEF log, PlacesInv
    <2> QED
      BY <2>8, <2>9
  <1>7. CASE ConfigFails(t)
    BY <1>7, GivesUpPlaces DEF ConfigFails, Holding
  <1>8. CASE Submit(t)
    BY <1>0, <1>8, MoveStep DEF Submit, Holding, log, ghosts
  <1>9. CASE SubmitRefused(t)
    BY <1>0, <1>9, MoveStep DEF SubmitRefused, Holding, log, ghosts
  <1> QED
    BY <1>1, <1>2, <1>3, <1>4, <1>5, <1>6, <1>7, <1>8, <1>9 DEF Attempts

LEMMA WatchesPlaces == ASSUME PlacesInv, NEW t \in Reports, Watches(t) PROVE Typed' /\ Places'
  <1>0. /\ task[t].batch \in Seq(logged) /\ task[t].snap \in Seq(logged) /\ pending \subseteq logged
        /\ logged \subseteq Reports /\ notes \in Seq(Reports) /\ active \subseteq logged /\ Sound(queue)
        /\ Queued(queue) \cup Waking(queue) \subseteq logged
    BY DEF PlacesInv, Typed, TaskTyped, DeliveryInv, LogSound
  <1>1. CASE AppendStarted(t)
    <2>1. Batch(t) \subseteq Held
      BY <1>1 DEF AppendStarted, Held, Holding
    <2> QED
      BY <1>0, <1>1, <2>1, MoveStep DEF AppendStarted, Holding, ghosts
  <1>2. CASE AppendStartedFails(t)
    BY <1>0, <1>2, MoveStep DEF AppendStartedFails, Holding, log, ghosts
  <1>3. CASE Waited(t)
    <2> DEFINE s == IF task[t].outcome = "ok" THEN "ack" ELSE "requeue"
               r == [task[t] EXCEPT !["stage"] = s, !["outcome"] = "none"]
    <2>1. task' = [task EXCEPT ![t] = r] /\ task[t].stage = "wait" /\ UNCHANGED <<log, queue, ghosts>>
      BY <1>3 DEF Waited
    <2>2. s \in {"ack", "requeue"}
      OBVIOUS
    <2> HIDE DEF s
    <2>3. r = [f \in Fields |-> r[f]] /\ r.stage = s /\ r.batch = task[t].batch /\ r.snap = task[t].snap
      BY DEF PlacesInv, DeliveryInv, Shape, Fields
    <2> HIDE DEF r
    <2>4. task'[t] = r /\ \A d \in Reports \ {t} : task'[d] = task[d]
      BY <2>1, <2>3, Changes DEF PlacesInv, DeliveryInv
    <2>5. TaskTyped(t)' /\ Carries(t)' = Carries(t)
      BY <1>0, <2>1, <2>2, <2>3, <2>4 DEF TaskTyped, Carries, Batch, Holding, log
    <2> QED
      BY <1>0, <2>1, <2>2, <2>3, <2>4, <2>5, QuietStep DEF log, ghosts
  <1>4. CASE WaitFails(t) \/ AppendAckedFails(t)
    BY <1>4, GivesUpPlaces DEF WaitFails, AppendAckedFails, Holding
  <1>5. CASE AppendAcked(t)
    <2>1. /\ Move(t, "consume") /\ task[t].stage = "ack" /\ pending' = pending \ (Batch(t) \cup discarded)
          /\ UNCHANGED <<notes, logged, queue, ghosts>>
      BY <1>5 DEF AppendAcked
    <2>2. active' \subseteq active
      BY <1>5 DEF AppendAcked
    <2> QED
      BY <1>0, <2>1, <2>2, MoveStep DEF Holding, ghosts
  <1>6. CASE Consume(t)
    <2> DEFINE n == Agree(queue, task[t].batch)
               rec == [task[t] EXCEPT !["stage"] = "reconcile", !["batch"] = <<>>, !["left"] = @ - 1]
    <2>1. /\ task[t].stage = "consume" /\ queue' = SubSeq(queue, n + 1, Len(queue))
          /\ UNCHANGED <<log, ghosts>>
      BY <1>6 DEF Consume
    <2>2. /\ Sound(queue')
          /\ \E C \in SUBSET Batch(t) : /\ Waking(queue') = Waking(queue) \ C
                                        /\ Queued(queue') = Queued(queue) \ C
                                        /\ ~(n < Len(task[t].batch)) => C = Batch(t)
      BY <1>0, <2>1, ConsumedDoes DEF Batch
    <2>3. Queued(queue') \cup Waking(queue') \subseteq logged
      BY <1>0, <2>2
    <2>4. Batch(t) \cap pending = {} /\ Carries(t) = Batch(t)
      BY <2>1 DEF PlacesInv, Places, Acked, Carries, Holding
    <2>5. CASE n < Len(task[t].batch)
      <3>1. Move(t, "requeue")
        BY <1>6, <2>5 DEF Consume, Move
      <3>2. /\ task'[t].stage = "requeue" /\ task'[t].batch = task[t].batch /\ task'[t].snap = task[t].snap
            /\ \A d \in Reports \ {t} : task'[d] = task[d]
        BY <3>1, Moves DEF PlacesInv, DeliveryInv
      <3>3. TaskTyped(t)' /\ Carries(t)' = Carries(t)
        BY <1>0, <2>1, <3>2 DEF TaskTyped, Carries, Batch, Holding, log
      <3>4. Acked'
        BY <2>1, <3>2, AckedStep DEF PlacesInv, log
      <3>5. \A u \in Reports : Carries(u)' = Carries(u)
        BY <3>2, <3>3, OtherHands
      <3>6. Places'
        BY <2>1, <2>2, <2>4, <3>4, <3>5, LeavePlaces DEF PlacesInv, log, ghosts
      <3>7. Typed'
        BY <1>0, <2>1, <2>2, <2>3, <3>2, <3>3, TypedStep DEF PlacesInv, log
      <3> QED
        BY <3>6, <3>7
    <2>6. CASE ~(n < Len(task[t].batch))
      <3>1. Ends(t) \/ task' = [task EXCEPT ![t] = rec]
        BY <1>6, <2>6 DEF Consume, Ends
      <3>2. /\ rec = [f \in Fields |-> rec[f]] /\ rec.stage = "reconcile"
            /\ rec.batch = <<>> /\ rec.snap = task[t].snap
        BY DEF PlacesInv, DeliveryInv, Shape, Fields
      <3> HIDE DEF rec
      <3>3. /\ Carries(t)' = {} /\ TaskTyped(t)' /\ task'[t].stage \in {"reconcile", "done"}
            /\ \A u \in Reports \ {t} : task'[u] = task[u]
        <4>1. CASE Ends(t)
          BY <4>1, OverHands
        <4>2. CASE task' = [task EXCEPT ![t] = rec]
          <5>1. task'[t] = rec /\ \A u \in Reports \ {t} : task'[u] = task[u]
            BY <3>2, <4>2, Changes DEF PlacesInv, DeliveryInv
          <5> QED
            BY <1>0, <2>1, <3>2, <5>1, EmptyTask DEF Carries, TaskTyped, Holding, log
        <4> QED
          BY <3>1, <4>1, <4>2
      <3>4. Acked'
        BY <2>1, <3>3, AckedStep DEF PlacesInv, log
      <3>5. /\ Queued(queue') \subseteq Queued(queue) \cup {} /\ {} \subseteq Carries(t)
            /\ Queued(queue) \cup Waking(queue) \subseteq Queued(queue') \cup Waking(queue') \cup (Reports \ pending)
            /\ Waking(queue') \subseteq Waking(queue)
            /\ Waking(queue') \cap Carries(t) \cap pending \subseteq stuck' /\ stuck \subseteq stuck'
        BY <1>0, <2>1, <2>2, <2>4 DEF ghosts
      <3>6. Places'
        BY <2>1, <3>3, <3>4, <3>5, OtherHands, DropsPlaces DEF PlacesInv, log, ghosts
      <3>7. Typed'
        BY <1>0, <2>1, <2>2, <2>3, <3>3, TypedStep DEF PlacesInv, log
      <3> QED
        BY <3>6, <3>7
    <2> QED
      BY <2>5, <2>6
  <1>7. CASE Requeue(t)
    <2>1. /\ task[t].stage = "requeue" /\ queue' = Requeued(queue, Batch(t)) /\ Ends(t)
          /\ UNCHANGED <<log, ghosts>>
      BY <1>7 DEF Requeue
    <2>2. /\ Sound(queue') /\ Waking(queue') = Waking(queue) \ Batch(t)
          /\ Queued(queue') = Queued(queue) \cup (Waking(queue) \cap Batch(t))
      BY <1>0, <2>1, RequeuedDoes
    <2>3. /\ Carries(t)' = {} /\ TaskTyped(t)' /\ task'[t].stage = "done"
          /\ \A u \in Reports \ {t} : task'[u] = task[u]
      BY <2>1, OverHands
    <2>4. Carries(t) = Batch(t)
      BY <2>1 DEF Carries, Holding
    <2>5. Acked'
      BY <2>1, <2>3, AckedStep DEF PlacesInv, log
    <2>6. /\ Queued(queue') \subseteq Queued(queue) \cup Batch(t) /\ Batch(t) \subseteq Carries(t)
          /\ Queued(queue) \cup Waking(queue) \subseteq Queued(queue') \cup Waking(queue') \cup (Reports \ pending)
          /\ Waking(queue') \subseteq Waking(queue)
          /\ Waking(queue') \cap Carries(t) \cap pending \subseteq stuck' /\ stuck \subseteq stuck'
      BY <2>1, <2>2, <2>4 DEF ghosts
    <2>7. Places'
      BY <2>1, <2>3, <2>5, <2>6, OtherHands, DropsPlaces DEF PlacesInv, log, ghosts
    <2>8. Typed'
      BY <1>0, <2>1, <2>2, <2>3, TypedStep DEF PlacesInv, log
    <2> QED
      BY <2>7, <2>8
  <1> QED
    BY <1>1, <1>2, <1>3, <1>4, <1>5, <1>6, <1>7 DEF Watches

LEMMA TurnPlaces == ASSUME PlacesInv, NEW t \in Reports, WakeTurnEnds(t) PROVE Typed' /\ Places'
  <1>1. \E o : task' = [task EXCEPT ![t] = [task[t] EXCEPT !["outcome"] = o]]
    BY DEF WakeTurnEnds
  <1>2. PICK o : task' = [task EXCEPT ![t] = [task[t] EXCEPT !["outcome"] = o]]
    BY <1>1
  <1> DEFINE r == [task[t] EXCEPT !["outcome"] = o]
  <1>3. /\ r = [f \in Fields |-> r[f]] /\ r.stage = task[t].stage
        /\ r.batch = task[t].batch /\ r.snap = task[t].snap
    BY DEF PlacesInv, DeliveryInv, Shape, Fields
  <1>4. task' = [task EXCEPT ![t] = r]
    BY <1>2
  <1> HIDE DEF r
  <1>5. task'[t] = r /\ \A d \in Reports \ {t} : task'[d] = task[d]
    BY <1>3, <1>4, Changes DEF PlacesInv, DeliveryInv
  <1>6. UNCHANGED <<log, queue, stuck, gone, again>> /\ task[t].stage \in {"begin", "wait"}
    BY DEF WakeTurnEnds, Running
  <1>7. TaskTyped(t)' /\ Carries(t)' = Carries(t)
    BY <1>3, <1>5, <1>6 DEF TaskTyped, Carries, Batch, PlacesInv, Typed, log
  <1> QED
    BY <1>3, <1>5, <1>6, <1>7, QuietStep DEF log, PlacesInv, Typed

LEMMA SamePlaces ==
    ASSUME PlacesInv, UNCHANGED <<task, queue, notes, logged, again, gone, stuck>>,
           pending' \subseteq pending, active' \subseteq active
    PROVE  Typed' /\ Places'
  <1>1. \A t \in Reports : Carries(t)' = Carries(t)
    BY DEF Carries, Batch
  <1>2. Acked'
    BY DEF PlacesInv, Places, Acked, Batch
  <1>3. Places'
    BY <1>1, <1>2, QuietPlaces DEF PlacesInv
  <1>4. Typed'
    BY DEF PlacesInv, Typed, TaskTyped
  <1> QED
    BY <1>3, <1>4

LEMMA DiscardPlaces ==
    ASSUME PlacesInv, NEW S, Discard(S), UNCHANGED <<log, task, stuck, again>>
    PROVE  Typed' /\ Places'
  <1>1. Sound(queue) /\ queue' = Without(queue, S) /\ gone' = gone \cup (Ids(queue) \cap S)
    BY DEF Discard, PlacesInv, Typed
  <1>2. Sound(queue') /\ Waking(queue') = Waking(queue) \ S /\ Queued(queue') = Queued(queue) \ S
    BY <1>1, WithoutDoes
  <1>3. Ids(queue) = Queued(queue) \cup Waking(queue)
    BY <1>1, Split
  <1>4. \A t \in Reports : Carries(t)' = Carries(t)
    BY DEF Carries, Batch
  <1>5. Acked'
    BY DEF PlacesInv, Places, Acked, Batch, log
  <1>6. Places'
    <2>1. (Queued(queue) \cup Waking(queue)) \cap S \cap pending \subseteq gone' /\ gone \subseteq gone'
      BY <1>1, <1>3
    <2> QED
      BY <1>2, <1>4, <1>5, <2>1, LeavePlaces DEF PlacesInv, log
  <1>7. Typed'
    BY <1>2 DEF PlacesInv, Typed, TaskTyped, log
  <1> QED
    BY <1>6, <1>7

LEMMA EmptyQueue == Sound(<<>>) /\ Queued(<<>>) = {} /\ Waking(<<>>) = {}
  BY DEF Sound, Queued, Waking

LEMMA CrashPlaces == ASSUME PlacesInv, Crash PROVE Typed' /\ Places'
  <1>1. /\ task' = [d \in Reports |-> IF task[d].stage = "new" THEN Idle ELSE Over]
        /\ queue' = <<>> /\ gone' = gone \cup active /\ UNCHANGED log
    BY DEF Crash
  <1>2. \A t \in Reports : /\ task'[t].stage \in {"new", "done"} /\ task'[t].batch = <<>>
                           /\ task'[t].snap = <<>>
    BY <1>1, OverShape
  <1>3. \A t \in Reports : Carries(t)' = {} /\ TaskTyped(t)'
    BY <1>2, EmptyTask DEF Carries, TaskTyped, Holding
  <1>4. Held' = {}
    BY <1>3, HeldNext
  <1>5. Places'
    BY <1>1, <1>2, <1>3, <1>4, EmptyQueue DEF Places, Alone, Apart, Returns, Started, Carried, Acked, log
  <1>6. Typed'
    BY <1>1, <1>3, EmptyQueue DEF PlacesInv, Typed, log
  <1> QED
    BY <1>5, <1>6

LEMMA PlacesInit == Init => PlacesInv
  <1> SUFFICES ASSUME Init PROVE PlacesInv
    OBVIOUS
  <1>1. \A t \in Reports : task[t].stage = "new" /\ task[t].batch = <<>> /\ task[t].snap = <<>>
    BY OverShape DEF Init
  <1>2. \A t \in Reports : Carries(t) = {} /\ TaskTyped(t)
    BY <1>1, EmptyTask DEF Carries, TaskTyped, Holding
  <1>3. Held = {}
    BY <1>2, HeldIs
  <1>4. Places
    BY <1>1, <1>2, <1>3, EmptyQueue DEF Init, Places, Alone, Apart, Returns, Started, Carried, Acked
  <1>5. Typed
    BY <1>2, EmptyQueue DEF Init, Typed
  <1> QED
    BY <1>4, <1>5, InitHolds DEF PlacesInv

\* PlacesInv is inductive.
LEMMA PlacesStep == PlacesInv /\ [Next]_vars => PlacesInv'
  <1> SUFFICES ASSUME PlacesInv, [Next]_vars PROVE Typed' /\ Places'
    BY InvStep DEF PlacesInv
  <1>1. ASSUME NEW t \in Reports, Makes(t) \/ Attempts(t) \/ Watches(t) \/ WakeTurnEnds(t)
        PROVE  Typed' /\ Places'
    BY <1>1, MakesPlaces, AttemptsPlaces, WatchesPlaces, TurnPlaces
  <1>2. CASE UserTurnStarts \/ UserTurnEnds \/ \E t \in Reports : WakeTurnFrees(t)
    BY <1>2, SamePlaces DEF UserTurnStarts, UserTurnEnds, WakeTurnFrees, log, ghosts
  <1>3. ASSUME NEW c \in Range(Child), CloseChild(c) PROVE Typed' /\ Places'
    BY <1>3, DiscardPlaces DEF CloseChild
  <1>4. CASE CloserReads
    BY <1>4, SamePlaces DEF CloserReads, log, ghosts
  <1>5. CASE CloserDiscards
    <2>1. pending' \subseteq pending /\ active' \subseteq active
      BY <1>5 DEF CloserDiscards
    <2> QED
      BY <1>5, <2>1, SamePlaces DEF CloserDiscards, ghosts
  <1>6. CASE CloserTerminates
    BY <1>6, DiscardPlaces DEF CloserTerminates
  <1>7. CASE Crash
    BY <1>7, CrashPlaces
  <1>8. CASE UNCHANGED vars
    BY <1>8, SamePlaces DEF vars, log, ghosts
  <1> QED
    BY <1>1, <1>2, <1>3, <1>4, <1>5, <1>6, <1>7, <1>8 DEF Next

\* In every state each report has its places: hands of tasks and queue are apart
\* but for reports queued again, and a pending report that is checked out is in
\* some hands or was left behind (parent_delivery and the wake of agent orchestration).
THEOREM PlacesInvariant == Spec => []PlacesInv
  BY PlacesInit, PlacesStep, PTL DEF Spec

\* However often a report is refilled from the log, handed back or left behind,
\* one task at a time has it, but for the reports that were queued a second time.
THEOREM OneBatchHolds == Spec => []OneBatch
  <1>1. PlacesInv => OneBatch
    <2> SUFFICES ASSUME PlacesInv, NEW d \in Reports \ again
                 PROVE  Cardinality({t \in Reports : task[t].stage \in Holding /\ d \in Batch(t)}) <= 1
      BY DEF OneBatch
    <2> DEFINE H == {t \in Reports : task[t].stage \in Holding /\ d \in Batch(t)}
    <2>1. \A t, u \in H : t = u
      BY DEF PlacesInv, Places, Alone, Carries
    <2>2. H = {} \/ \E t : H = {t}
      BY <2>1
    <2> HIDE DEF H
    <2>3. Cardinality(H) = 0 \/ Cardinality(H) = 1
      BY <2>2, FS_EmptySet, FS_Singleton
    <2> QED
      BY <2>3 DEF H
  <1> QED
    BY <1>1, PlacesInvariant, PTL

\* A pending report is in a task's hands, ready in the queue, or one that the
\* next attempt recovers, but for what an error left behind and what the queue
\* lost while the log had it in a started batch.
THEOREM NotDroppedHolds == Spec => []NotDropped
  <1>1. PlacesInv => NotDropped
    <2> SUFFICES ASSUME PlacesInv, NEW d \in pending
                 PROVE  \/ d \in Held
                        \/ InQueue(d, FALSE)
                        \/ d \notin active /\ ~InQueue(d, TRUE)
                        \/ d \in stuck \cup gone
      BY DEF NotDropped
    <2>1. \A k \in DOMAIN queue : queue[k].waking \in BOOLEAN
      BY Entry DEF PlacesInv, Typed
    <2>2. d \in Queued(queue) <=> InQueue(d, FALSE)
      BY <2>1, In DEF InQueue
    <2>3. d \in Waking(queue) <=> InQueue(d, TRUE)
      BY <2>1, In DEF InQueue
    <2> QED
      BY <2>2, <2>3 DEF PlacesInv, Places, Returns, Started
  <1> QED
    BY <1>1, PlacesInvariant, PTL
=============================================================================
