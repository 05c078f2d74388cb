------------------------- MODULE TurnMutationProofs -------------------------
(***************************************************************************)
(* The parts of TurnMutation that hold for every number of turns, interrupt *)
(* calls and compact requests.  They need to know who may hold the lease at *)
(* each point (Held), that an interrupt has the turn it took to itself      *)
(* (Taken), and that the registry counts the spawned tasks (Counted).       *)
(* That turns do not mix in the log needs to know that a turn after which   *)
(* another has written is over (Follows).                                   *)
(*                                                                         *)
(* SessionBranch has these turns beside the calls that copy their log, so  *)
(* the second half is about its copies: of the turns they need to know who *)
(* may still write (Progress, Behind), and of the file and the events what *)
(* a scan of them finds (LeastIn, Scan).                                   *)
(***************************************************************************)
EXTENDS SessionBranch, FiniteSetTheorems, SequenceTheorems, WellFoundedInduction, TLAPS

Open(i) == call[i].stage \in {"taken", "appended"}
Alive == {"begun", "inputs", "panicked", "abandoned"} \cup (Tasked \ {"completed"})
Spawned == {t \in Turns : pc[t] \in Tasked \cup {"panicked"}}

Typed ==
    /\ owner \in Turns \cup {NoTurn}
    /\ answer \in [Turns -> Answers]
    /\ pc \in [Turns -> {"idle", "calling", "accepted", "begun", "inputs"} \cup Tasked \cup Ended]
    /\ active \in Turns \cup {NoTurn}
    /\ call \in [Interrupts -> [stage : {"idle", "taken", "appended", "done"},
                                turn : Turns \cup {NoTurn}]]
    /\ running \in Nat

\* Until a turn begins, its lease is all there is.
Waiting ==
    \A t \in Turns : pc[t] \in {"calling", "accepted"} =>
        /\ owner = t
        /\ active = NoTurn
        /\ \A i \in Interrupts : ~Open(i)

\* The active turn has begun, holds the lease, and is not over.
Held ==
    active # NoTurn =>
        /\ owner = active
        /\ pc[active] \in Alive
        /\ \A i \in Interrupts : ~Open(i)

\* An interrupt that has taken a turn is alone and holds the lease meanwhile.
Taken ==
    \A i \in Interrupts :
        /\ call[i].stage = "idle" <=> call[i].turn = NoTurn
        /\ Open(i) =>
              /\ active = NoTurn
              /\ owner = call[i].turn
              /\ \A j \in Interrupts : Open(j) => j = i

\* The registry counts the spawned tasks that have not said they are idle.
Counted ==
    /\ IsFiniteSet(Spawned)
    /\ running = Cardinality(Spawned)

Ownership == Waiting /\ Held /\ Taken /\ StillOwned

\* What a turn's position says of the answer to its acquisition.
Granted ==
    /\ \A t \in Turns :
          /\ pc[t] \in {"idle", "calling"} => answer[t] = "none"
          /\ pc[t] = "accepted" => answer[t] = "granted"
    /\ active # NoTurn => answer[active] = "granted"
    /\ \A i \in Interrupts : Open(i) => answer[call[i].turn] = "granted"

IInv == TypeOK /\ Ownership /\ Counted /\ Granted

\* The initial states have the inductive invariant.
LEMMA InitIInv == Init => IInv
<1> SUFFICES ASSUME Init PROVE IInv
  OBVIOUS
<1>1. Spawned = {}
  BY DEF Init, Spawned, Tasked
<1>2. Counted
  BY <1>1, FS_EmptySet DEF Counted, Init
<1>3. TypeOK
  BY AbsentAssumption, TurnBoundAssumption
  DEF Init, TypeOK, LeaseTypeOK, LeaseInit, Answers, Tasked, Kinds
<1> QED
  BY <1>2, <1>3, AbsentAssumption
  DEF Init, IInv, Ownership, Granted, Waiting, Held, Taken, StillOwned, LeaseInit, Answers, Open, Tasked

\* Every step keeps the types of what the invariants speak of.
LEMMA StepTyped == Typed /\ [Next]_vars => Typed'
<1> SUFFICES ASSUME Typed, [Next]_vars PROVE Typed'
  OBVIOUS
<1> USE AbsentAssumption DEF Typed, Goto, Tasked, Ended, Answers, leaseVars
<1>1. ASSUME NEW t \in Turns, Acquire(t) PROVE Typed'
  BY <1>1 DEF Acquire, Own
<1>2. ASSUME NEW t \in Turns, Accept(t) PROVE Typed'
  BY <1>2 DEF Accept, Grant, Tell
<1>3. ASSUME NEW t \in Turns, AcquireFails(t) PROVE Typed'
  BY <1>3 DEF AcquireFails, Fail, Tell
<1>4. ASSUME NEW t \in Turns, Reject(t) PROVE Typed'
  BY <1>4 DEF Reject, Refuse, Tell
<1>5. ASSUME NEW t \in Turns, BeginFails(t) PROVE Typed'
  BY <1>5 DEF BeginFails, DropLease, Tell
<1>6. ASSUME NEW t \in Turns, Begin(t) PROVE Typed'
  BY <1>6 DEF Begin
<1>7. ASSUME NEW t \in Turns, PersistInputs(t) PROVE Typed'
  BY <1>7 DEF PersistInputs
<1>8. ASSUME NEW t \in Turns, PersistInputsFails(t) PROVE Typed'
  BY <1>8 DEF PersistInputsFails, CompleteRunningTurn, DropLease, Tell
<1>9. ASSUME NEW t \in Turns, MarkRunning(t) PROVE Typed'
  BY <1>9 DEF MarkRunning
<1>10. ASSUME NEW t \in Turns, TaskStarts(t) PROVE Typed'
  BY <1>10 DEF TaskStarts, Report
<1>11. ASSUME NEW t \in Turns, BridgeWork(t) PROVE Typed'
  BY <1>11 DEF BridgeWork
<1>12. ASSUME NEW t \in Turns, BridgeChecksTerminal(t) PROVE Typed'
  BY <1>12 DEF BridgeChecksTerminal
<1>13. ASSUME NEW t \in Turns, BridgeTerminal(t) PROVE Typed'
  BY <1>13 DEF BridgeTerminal
<1>14. ASSUME NEW t \in Turns, TaskReports(t) PROVE Typed'
  BY <1>14 DEF TaskReports, Report
<1>15. ASSUME NEW t \in Turns, Complete(t) PROVE Typed'
  BY <1>15 DEF Complete, CompleteRunningTurn, DropLease, Tell
<1>16. ASSUME NEW t \in Turns, MarkIdle(t) PROVE Typed'
  BY <1>16 DEF MarkIdle
<1>17. ASSUME NEW t \in Turns, Panic(t) PROVE Typed'
  BY <1>17 DEF Panic
<1>18. ASSUME NEW i \in Interrupts, Interrupt(i) PROVE Typed'
  BY <1>18 DEF Interrupt, Stage
<1>19. ASSUME NEW i \in Interrupts, AppendCancelled(i) PROVE Typed'
  BY <1>19 DEF AppendCancelled, Stage
<1>20. ASSUME NEW i \in Interrupts, AppendCancelledFails(i) PROVE Typed'
  BY <1>20 DEF AppendCancelledFails, Stage, DropLease, Tell
<1>21. ASSUME NEW i \in Interrupts, InterruptReturns(i) PROVE Typed'
  BY <1>21 DEF InterruptReturns, Stage, DropLease, Tell
<1>22. ASSUME NEW r \in Requests, CheckCompact(r) PROVE Typed'
  BY <1>22 DEF CheckCompact
<1>23. ASSUME NEW r \in Requests, RegisterCompact(r) PROVE Typed'
  BY <1>23 DEF RegisterCompact
<1>24. CASE UNCHANGED vars
  BY <1>24 DEF vars, leaseVars
<1>25. ASSUME NEW t \in Turns, DroppedBefore(t) PROVE Typed'
  BY <1>25 DEF DroppedBefore, DropLease, Tell
<1>26. ASSUME NEW t \in Turns, DroppedAfter(t) PROVE Typed'
  BY <1>26 DEF DroppedAfter
<1>27. ASSUME NEW t \in Turns, OthersReport(t) PROVE Typed'
  BY <1>27 DEF OthersReport
<1> QED
  BY <1>1, <1>2, <1>3, <1>4, <1>5, <1>6, <1>7, <1>8, <1>9, <1>10, <1>11, <1>12, <1>13, <1>14, <1>15, <1>16, <1>17, <1>18, <1>19, <1>20, <1>21, <1>22, <1>23, <1>24, <1>25, <1>26, <1>27
  DEF Next, Submit, Task, InterruptCall

\* What the control state of the turns leaves out.
Payload ==
    /\ pending \in Requests \cup {NoRequest}
    /\ work \in [Turns -> 0..MaxWork]
    /\ log \in Seq([turn : Turns, kind : Kinds])
    /\ request \in [Requests -> {"none", "checked", "immediate", "deferred", "replaced", "dropped"}]
    /\ failures \in 0..MaxFailures

\* The type invariant is those types and the ones of the log and the rest.
LEMMA TypeSplits == TypeOK <=> Typed /\ Payload
  BY DEF TypeOK, LeaseTypeOK, Typed, Payload

LEMMA LogTyped ==
  ASSUME Payload, NEW t \in Turns, NEW kind, Log(t, kind),
         kind \in {"input", "started", "work", "done", "cancelled", "finished", "report"}
  PROVE  log' \in Seq([turn : Turns, kind : Kinds])
<1>1. Event(t, kind) \in [turn : Turns, kind : Kinds]
  BY DEF Event, Kinds
<1> QED
  BY <1>1 DEF Log, Payload

\* Every step keeps the types of the log and of what is carried along.
LEMMA StepPayload == Typed /\ Taken /\ Payload /\ [Next]_vars => Payload'
<1> SUFFICES ASSUME Typed, Taken, Payload, [Next]_vars PROVE Payload'
  OBVIOUS
<1> DEFINE LogOK == log \in Seq([turn : Turns, kind : Kinds])
           Rest ==
             /\ pending \in Requests \cup {NoRequest}
             /\ work \in [Turns -> 0..MaxWork]
             /\ request \in [Requests -> {"none", "checked", "immediate", "deferred",
                                          "replaced", "dropped"}]
             /\ failures \in 0..MaxFailures
<1>1. LogOK /\ Rest
  BY DEF Payload
<1> HIDE DEF LogOK
<1>2. UNCHANGED log => LogOK'
  BY <1>1 DEF LogOK
<1>3. ASSUME NEW t \in Turns, NEW kind, Log(t, kind),
             kind \in {"input", "started", "work", "done", "cancelled", "finished", "report"}
      PROVE  LogOK'
  BY <1>3, LogTyped DEF LogOK
<1> USE TurnBoundAssumption DEF MayFail
<1>4. ASSUME NEW t \in Turns, Acquire(t) PROVE LogOK' /\ Rest'
  BY <1>1, <1>2, <1>4 DEF Acquire
<1>5. ASSUME NEW t \in Turns, Accept(t) PROVE LogOK' /\ Rest'
  BY <1>1, <1>2, <1>5 DEF Accept
<1>6. ASSUME NEW t \in Turns, AcquireFails(t) PROVE LogOK' /\ Rest'
  BY <1>1, <1>2, <1>6 DEF AcquireFails
<1>7. ASSUME NEW t \in Turns, Reject(t) PROVE LogOK' /\ Rest'
  BY <1>1, <1>2, <1>7 DEF Reject
<1>8. ASSUME NEW t \in Turns, BeginFails(t) PROVE LogOK' /\ Rest'
  BY <1>1, <1>2, <1>8 DEF BeginFails
<1>9. ASSUME NEW t \in Turns, Begin(t) PROVE LogOK' /\ Rest'
  BY <1>1, <1>2, <1>9 DEF Begin
<1>10. ASSUME NEW t \in Turns, PersistInputs(t) PROVE LogOK' /\ Rest'
  BY <1>1, <1>2, <1>3, <1>10 DEF PersistInputs
<1>11. ASSUME NEW t \in Turns, PersistInputsFails(t) PROVE LogOK' /\ Rest'
  BY <1>1, <1>2, <1>11 DEF PersistInputsFails, CompleteRunningTurn, DropPending
<1>12. ASSUME NEW t \in Turns, MarkRunning(t) PROVE LogOK' /\ Rest'
  BY <1>1, <1>2, <1>12 DEF MarkRunning
<1>13. ASSUME NEW t \in Turns, TaskStarts(t) PROVE LogOK' /\ Rest'
  BY <1>1, <1>2, <1>3, <1>13 DEF TaskStarts, Report
<1>14. ASSUME NEW t \in Turns, BridgeWork(t) PROVE LogOK' /\ Rest'
  BY <1>1, <1>2, <1>3, <1>14 DEF BridgeWork
<1>15. ASSUME NEW t \in Turns, BridgeChecksTerminal(t) PROVE LogOK' /\ Rest'
  BY <1>1, <1>2, <1>15 DEF BridgeChecksTerminal
<1>16. ASSUME NEW t \in Turns, BridgeTerminal(t) PROVE LogOK' /\ Rest'
  BY <1>1, <1>2, <1>3, <1>16 DEF BridgeTerminal
<1>17. ASSUME NEW t \in Turns, TaskReports(t) PROVE LogOK' /\ Rest'
  BY <1>1, <1>2, <1>3, <1>17 DEF TaskReports, Report
<1>18. ASSUME NEW t \in Turns, Complete(t) PROVE LogOK' /\ Rest'
  BY <1>1, <1>2, <1>18 DEF Complete, CompleteRunningTurn, DropPending
<1>19. ASSUME NEW t \in Turns, MarkIdle(t) PROVE LogOK' /\ Rest'
  BY <1>1, <1>2, <1>19 DEF MarkIdle
<1>20. ASSUME NEW t \in Turns, Panic(t) PROVE LogOK' /\ Rest'
  BY <1>1, <1>2, <1>20 DEF Panic
<1>21. ASSUME NEW i \in Interrupts, Interrupt(i) PROVE LogOK' /\ Rest'
  BY <1>1, <1>2, <1>21 DEF Interrupt
<1>22. ASSUME NEW i \in Interrupts, AppendCancelled(i) PROVE LogOK' /\ Rest'
  <2>1. call[i].turn \in Turns
    BY <1>22 DEF AppendCancelled, Taken, Typed
  <2> QED
    BY <1>22, <1>1, <1>3, <2>1 DEF AppendCancelled
<1>23. ASSUME NEW i \in Interrupts, AppendCancelledFails(i) PROVE LogOK' /\ Rest'
  BY <1>1, <1>2, <1>23 DEF AppendCancelledFails
<1>24. ASSUME NEW i \in Interrupts, InterruptReturns(i) PROVE LogOK' /\ Rest'
  BY <1>1, <1>2, <1>24 DEF InterruptReturns, DropPending
<1>25. ASSUME NEW r \in Requests, CheckCompact(r) PROVE LogOK' /\ Rest'
  BY <1>1, <1>2, <1>25 DEF CheckCompact, Answer
<1>26. ASSUME NEW r \in Requests, RegisterCompact(r) PROVE LogOK' /\ Rest'
  BY <1>1, <1>2, <1>26 DEF RegisterCompact
<1>30. ASSUME NEW t \in Turns, DroppedBefore(t) PROVE LogOK' /\ Rest'
  BY <1>1, <1>2, <1>30 DEF DroppedBefore
<1>31. ASSUME NEW t \in Turns, DroppedAfter(t) PROVE LogOK' /\ Rest'
  BY <1>1, <1>2, <1>3, <1>31 DEF DroppedAfter
<1>32. ASSUME NEW t \in Turns, OthersReport(t) PROVE LogOK' /\ Rest'
  BY <1>1, <1>2, <1>3, <1>32 DEF OthersReport
<1>27. ASSUME UNCHANGED vars PROVE LogOK' /\ Rest'
  <2>1. LogOK'
    BY <1>2, <1>27 DEF vars
  <2>2. Rest'
    BY <1>1, <1>27 DEF vars
  <2> QED
    BY <2>1, <2>2
<1> HIDE DEF Rest
<1>28. LogOK' /\ Rest'
  BY <1>4, <1>5, <1>6, <1>7, <1>8, <1>9, <1>10, <1>11, <1>12, <1>13, <1>14, <1>15, <1>16, <1>17, <1>18, <1>19, <1>20, <1>21, <1>22, <1>23, <1>24, <1>25, <1>26, <1>27, <1>30, <1>31, <1>32
  DEF Next, Submit, Task, InterruptCall
<1> QED
  BY <1>28 DEF Payload, LogOK, Rest

\* Every step keeps the lease with whom it belongs to.
LEMMA StepOwnership == Typed /\ Typed' /\ Ownership /\ [Next]_vars => Ownership'
<1> SUFFICES ASSUME Typed, Typed', Ownership, [Next]_vars PROVE Ownership'
  OBVIOUS
<1> USE AbsentAssumption
    DEF Typed, Ownership, Waiting, Held, Taken, StillOwned, Interrupted, Open, Alive,
        Goto, Tasked, leaseVars
<1>1. ASSUME NEW t \in Turns, Acquire(t) PROVE Ownership'
  BY <1>1 DEF Acquire, Own
<1>2. ASSUME NEW t \in Turns, Accept(t) PROVE Ownership'
  BY <1>2 DEF Accept, Grant, Tell
<1>3. ASSUME NEW t \in Turns, AcquireFails(t) PROVE Ownership'
  BY <1>3 DEF AcquireFails, Fail, Tell, MayFail
<1>4. ASSUME NEW t \in Turns, Reject(t) PROVE Ownership'
  BY <1>4 DEF Reject, Refuse, Tell
<1>5. ASSUME NEW t \in Turns, BeginFails(t) PROVE Ownership'
  BY <1>5 DEF BeginFails, DropLease, Tell, MayFail
<1>6. ASSUME NEW t \in Turns, Begin(t) PROVE Ownership'
  BY <1>6 DEF Begin
<1>7. ASSUME NEW t \in Turns, PersistInputs(t) PROVE Ownership'
  BY <1>7 DEF PersistInputs
<1>8. ASSUME NEW t \in Turns, PersistInputsFails(t) PROVE Ownership'
  BY <1>8 DEF PersistInputsFails, CompleteRunningTurn, DropLease, DropPending, Tell, MayFail
<1>9. ASSUME NEW t \in Turns, MarkRunning(t) PROVE Ownership'
  BY <1>9 DEF MarkRunning
<1>10. ASSUME NEW t \in Turns, TaskStarts(t) PROVE Ownership'
  BY <1>10 DEF TaskStarts, Report, MayFail
<1>11. ASSUME NEW t \in Turns, BridgeWork(t) PROVE Ownership'
  BY <1>11 DEF BridgeWork, MayFail
<1>12. ASSUME NEW t \in Turns, BridgeChecksTerminal(t) PROVE Ownership'
  BY <1>12 DEF BridgeChecksTerminal, MayFail
<1>13. ASSUME NEW t \in Turns, BridgeTerminal(t) PROVE Ownership'
  BY <1>13 DEF BridgeTerminal, MayFail
<1>14. ASSUME NEW t \in Turns, TaskReports(t) PROVE Ownership'
  BY <1>14 DEF TaskReports, Report, MayFail
<1>15. ASSUME NEW t \in Turns, Complete(t) PROVE Ownership'
  BY <1>15 DEF Complete, CompleteRunningTurn, DropLease, DropPending, Tell
<1>16. ASSUME NEW t \in Turns, MarkIdle(t) PROVE Ownership'
  BY <1>16 DEF MarkIdle
<1>17. ASSUME NEW t \in Turns, Panic(t) PROVE Ownership'
  BY <1>17 DEF Panic, MayFail
<1>18. ASSUME NEW i \in Interrupts, Interrupt(i) PROVE Ownership'
  BY <1>18 DEF Interrupt, Stage
<1>19. ASSUME NEW i \in Interrupts, AppendCancelled(i) PROVE Ownership'
  BY <1>19 DEF AppendCancelled, Stage
<1>20. ASSUME NEW i \in Interrupts, AppendCancelledFails(i) PROVE Ownership'
  BY <1>20 DEF AppendCancelledFails, Stage, DropLease, Tell, MayFail
<1>21. ASSUME NEW i \in Interrupts, InterruptReturns(i) PROVE Ownership'
  BY <1>21 DEF InterruptReturns, Stage, DropLease, DropPending, Tell
<1>22. ASSUME NEW r \in Requests, CheckCompact(r) PROVE Ownership'
  BY <1>22 DEF CheckCompact
<1>23. ASSUME NEW r \in Requests, RegisterCompact(r) PROVE Ownership'
  BY <1>23 DEF RegisterCompact
<1>24. CASE UNCHANGED vars
  BY <1>24 DEF vars, leaseVars
<1>25. ASSUME NEW t \in Turns, DroppedBefore(t) PROVE Ownership'
  BY <1>25 DEF DroppedBefore, DropLease, Tell, MayFail
<1>26. ASSUME NEW t \in Turns, DroppedAfter(t) PROVE Ownership'
  BY <1>26 DEF DroppedAfter, MayFail
<1>27. ASSUME NEW t \in Turns, OthersReport(t) PROVE Ownership'
  BY <1>27 DEF OthersReport, MayFail
<1> QED
  BY <1>1, <1>2, <1>3, <1>4, <1>5, <1>6, <1>7, <1>8, <1>9, <1>10, <1>11, <1>12, <1>13, <1>14, <1>15, <1>16, <1>17, <1>18, <1>19, <1>20, <1>21, <1>22, <1>23, <1>24, <1>25, <1>26, <1>27
  DEF Next, Submit, Task, InterruptCall
--------------------------------------------------------

\* Every step keeps the answers of the lock in line with its holder.
LEMMA StepGranted == Typed /\ Typed' /\ Ownership /\ Granted /\ [Next]_vars => Granted'
<1> SUFFICES ASSUME Typed, Typed', Ownership, Granted, [Next]_vars PROVE Granted'
  OBVIOUS
<1> USE AbsentAssumption
    DEF Typed, Granted, Ownership, Waiting, Held, Taken, Open, Alive,
        Goto, Tasked, leaseVars
<1>1. ASSUME NEW t \in Turns, Acquire(t) PROVE Granted'
  BY <1>1 DEF Acquire, Own
<1>2. ASSUME NEW t \in Turns, Accept(t) PROVE Granted'
  BY <1>2 DEF Accept, Grant, Tell
<1>3. ASSUME NEW t \in Turns, AcquireFails(t) PROVE Granted'
  BY <1>3 DEF AcquireFails, Fail, Tell, MayFail
<1>4. ASSUME NEW t \in Turns, Reject(t) PROVE Granted'
  BY <1>4 DEF Reject, Refuse, Tell
<1>5. ASSUME NEW t \in Turns, BeginFails(t) PROVE Granted'
  BY <1>5 DEF BeginFails, DropLease, Tell, MayFail
<1>6. ASSUME NEW t \in Turns, Begin(t) PROVE Granted'
  BY <1>6 DEF Begin
<1>7. ASSUME NEW t \in Turns, PersistInputs(t) PROVE Granted'
  BY <1>7 DEF PersistInputs
<1>8. ASSUME NEW t \in Turns, PersistInputsFails(t) PROVE Granted'
  BY <1>8 DEF PersistInputsFails, CompleteRunningTurn, DropLease, DropPending, Tell, MayFail
<1>9. ASSUME NEW t \in Turns, MarkRunning(t) PROVE Granted'
  BY <1>9 DEF MarkRunning
<1>10. ASSUME NEW t \in Turns, TaskStarts(t) PROVE Granted'
  BY <1>10 DEF TaskStarts, Report, MayFail
<1>11. ASSUME NEW t \in Turns, BridgeWork(t) PROVE Granted'
  BY <1>11 DEF BridgeWork, MayFail
<1>12. ASSUME NEW t \in Turns, BridgeChecksTerminal(t) PROVE Granted'
  BY <1>12 DEF BridgeChecksTerminal, MayFail
<1>13. ASSUME NEW t \in Turns, BridgeTerminal(t) PROVE Granted'
  BY <1>13 DEF BridgeTerminal, MayFail
<1>14. ASSUME NEW t \in Turns, TaskReports(t) PROVE Granted'
  BY <1>14 DEF TaskReports, Report, MayFail
<1>15. ASSUME NEW t \in Turns, Complete(t) PROVE Granted'
  BY <1>15 DEF Complete, CompleteRunningTurn, DropLease, DropPending, Tell
<1>16. ASSUME NEW t \in Turns, MarkIdle(t) PROVE Granted'
  BY <1>16 DEF MarkIdle
<1>17. ASSUME NEW t \in Turns, Panic(t) PROVE Granted'
  BY <1>17 DEF Panic, MayFail
<1>18. ASSUME NEW i \in Interrupts, Interrupt(i) PROVE Granted'
  BY <1>18 DEF Interrupt, Stage
<1>19. ASSUME NEW i \in Interrupts, AppendCancelled(i) PROVE Granted'
  BY <1>19 DEF AppendCancelled, Stage
<1>20. ASSUME NEW i \in Interrupts, AppendCancelledFails(i) PROVE Granted'
  BY <1>20 DEF AppendCancelledFails, Stage, DropLease, Tell, MayFail
<1>21. ASSUME NEW i \in Interrupts, InterruptReturns(i) PROVE Granted'
  BY <1>21 DEF InterruptReturns, Stage, DropLease, DropPending, Tell
<1>22. ASSUME NEW r \in Requests, CheckCompact(r) PROVE Granted'
  BY <1>22 DEF CheckCompact
<1>23. ASSUME NEW r \in Requests, RegisterCompact(r) PROVE Granted'
  BY <1>23 DEF RegisterCompact
<1>24. CASE UNCHANGED vars
  BY <1>24 DEF vars, leaseVars
<1>25. ASSUME NEW t \in Turns, DroppedBefore(t) PROVE Granted'
  BY <1>25 DEF DroppedBefore, DropLease, Tell, MayFail
<1>26. ASSUME NEW t \in Turns, DroppedAfter(t) PROVE Granted'
  BY <1>26 DEF DroppedAfter, MayFail
<1>27. ASSUME NEW t \in Turns, OthersReport(t) PROVE Granted'
  BY <1>27 DEF OthersReport, MayFail
<1> QED
  BY <1>1, <1>2, <1>3, <1>4, <1>5, <1>6, <1>7, <1>8, <1>9, <1>10, <1>11, <1>12, <1>13, <1>14, <1>15, <1>16, <1>17, <1>18, <1>19, <1>20, <1>21, <1>22, <1>23, <1>24, <1>25, <1>26, <1>27
  DEF Next, Submit, Task, InterruptCall
--------------------------------------------------------

\* Every step counts the tasks it spawns and ends.
LEMMA StepCounted == Typed /\ Typed' /\ Counted /\ [Next]_vars => Counted'
<1> SUFFICES ASSUME Typed, Typed', Counted, [Next]_vars PROVE Counted'
  OBVIOUS
<1> DEFINE Same == Spawned' = Spawned /\ running' = running
<1>1. ASSUME NEW t \in Turns, MarkRunning(t) PROVE Counted'
  <2>1. t \notin Spawned /\ Spawned' = Spawned \cup {t}
    BY <1>1 DEF MarkRunning, Goto, Spawned, Tasked, Typed
  <2> QED
    BY <1>1, <2>1, FS_AddElement DEF Counted, MarkRunning
<1>2. ASSUME NEW t \in Turns, MarkIdle(t) PROVE Counted'
  <2>1. t \in Spawned /\ Spawned' = Spawned \ {t}
    BY <1>2 DEF MarkIdle, Goto, Spawned, Tasked, Typed
  <2>2. IsFiniteSet(Spawned') /\ Cardinality(Spawned') = Cardinality(Spawned) - 1
    BY <2>1, FS_RemoveElement DEF Counted
  <2>3. running \in Nat /\ Cardinality(Spawned') \in Nat
    BY <2>2, FS_CardinalityType DEF Typed
  <2> QED
    BY <1>2, <2>2, <2>3 DEF Counted, MarkIdle
<1>3. ASSUME \/ \E t \in Turns :
                  \/ Submit(t) /\ ~MarkRunning(t)
                  \/ Task(t) /\ ~MarkIdle(t)
                  \/ Panic(t)
                  \/ DroppedBefore(t) \/ DroppedAfter(t) \/ OthersReport(t)
             \/ \E i \in Interrupts : InterruptCall(i)
             \/ \E r \in Requests : CheckCompact(r) \/ RegisterCompact(r)
             \/ UNCHANGED vars
      PROVE  Same
  <2>1. ASSUME NEW t \in Turns, Acquire(t) PROVE Same
    BY <2>1 DEF Acquire, Goto, Spawned, Tasked, Typed
  <2>2. ASSUME NEW t \in Turns, Accept(t) PROVE Same
    BY <2>2 DEF Accept, Goto, Spawned, Tasked, Typed
  <2>3. ASSUME NEW t \in Turns, AcquireFails(t) PROVE Same
    BY <2>3 DEF AcquireFails, Goto, Spawned, Tasked, Typed
  <2>4. ASSUME NEW t \in Turns, Reject(t) PROVE Same
    BY <2>4 DEF Reject, Goto, Spawned, Tasked, Typed
  <2>5. ASSUME NEW t \in Turns, BeginFails(t) PROVE Same
    BY <2>5 DEF BeginFails, Goto, Spawned, Tasked, Typed
  <2>6. ASSUME NEW t \in Turns, Begin(t) PROVE Same
    BY <2>6 DEF Begin, Goto, Spawned, Tasked, Typed
  <2>7. ASSUME NEW t \in Turns, PersistInputs(t) PROVE Same
    BY <2>7 DEF PersistInputs, Goto, Spawned, Tasked, Typed
  <2>8. ASSUME NEW t \in Turns, PersistInputsFails(t) PROVE Same
    BY <2>8 DEF PersistInputsFails, Goto, Spawned, Tasked, Typed
  <2>9. ASSUME NEW t \in Turns, TaskStarts(t) PROVE Same
    BY <2>9 DEF TaskStarts, Report, Goto, Spawned, Tasked, Typed
  <2>10. ASSUME NEW t \in Turns, BridgeWork(t) PROVE Same
    BY <2>10 DEF BridgeWork, Goto, Spawned, Tasked, Typed
  <2>11. ASSUME NEW t \in Turns, BridgeChecksTerminal(t) PROVE Same
    BY <2>11 DEF BridgeChecksTerminal, Goto, Spawned, Tasked, Typed
  <2>12. ASSUME NEW t \in Turns, BridgeTerminal(t) PROVE Same
    BY <2>12 DEF BridgeTerminal, Goto, Spawned, Tasked, Typed
  <2>13. ASSUME NEW t \in Turns, TaskReports(t) PROVE Same
    BY <2>13 DEF TaskReports, Report, Goto, Spawned, Tasked, Typed
  <2>14. ASSUME NEW t \in Turns, Complete(t) PROVE Same
    BY <2>14 DEF Complete, Goto, Spawned, Tasked, Typed
  <2>15. ASSUME NEW t \in Turns, Panic(t) PROVE Same
    BY <2>15 DEF Panic, Goto, Spawned, Tasked, Typed
  <2>16. ASSUME NEW i \in Interrupts, InterruptCall(i) PROVE Same
    BY <2>16 DEF InterruptCall, Interrupt, AppendCancelled, AppendCancelledFails, InterruptReturns, Spawned
  <2>17. ASSUME NEW r \in Requests, CheckCompact(r) \/ RegisterCompact(r) PROVE Same
    BY <2>17 DEF CheckCompact, RegisterCompact, Spawned
  <2>18. CASE UNCHANGED vars
    BY <2>18 DEF vars, Spawned
  <2>19. ASSUME NEW t \in Turns, DroppedBefore(t) \/ DroppedAfter(t) \/ OthersReport(t) PROVE Same
    BY <2>19 DEF DroppedBefore, DroppedAfter, OthersReport, Goto, Spawned, Tasked, Typed
  <2> QED
    BY <1>3, <2>1, <2>2, <2>3, <2>4, <2>5, <2>6, <2>7, <2>8, <2>9, <2>10, <2>11, <2>12, <2>13, <2>14, <2>15, <2>16, <2>17, <2>18, <2>19 DEF Submit, Task
<1>4. ASSUME Same PROVE Counted'
  BY <1>4 DEF Counted
<1> QED
  BY <1>1, <1>2, <1>3, <1>4 DEF Next

\* The inductive invariant of the turn lifecycle.
THEOREM Inductive == Spec => []IInv
<1>0. TypeOK' <=> Typed' /\ Payload'
  BY TypeSplits, PTL
<1>1. IInv /\ [Next]_vars => IInv'
  <2> SUFFICES ASSUME IInv, [Next]_vars PROVE IInv'
    OBVIOUS
  <2>1. Typed /\ Payload
    BY TypeSplits DEF IInv
  <2>2. Typed'
    BY <2>1, StepTyped DEF IInv
  <2>3. Payload'
    BY <2>1, StepPayload DEF IInv, Ownership
  <2>4. Ownership'
    BY <2>1, <2>2, StepOwnership DEF IInv
  <2>5. Counted' /\ Granted'
    BY <2>1, <2>2, StepCounted, StepGranted DEF IInv
  <2> QED
    BY <1>0, <2>2, <2>3, <2>4, <2>5 DEF IInv
<1> QED
  BY <1>1, InitIInv, PTL DEF Spec

\* Every variable keeps its type.
THEOREM TypeCorrect == Spec => []TypeOK
<1>1. IInv => TypeOK
  BY DEF IInv
<1> QED
  BY <1>1, Inductive, PTL

\* begin_accepted_turn is never refused and the accepted turn owns the session.
THEOREM AcceptedAloneHolds == Spec => []AcceptedAlone
<1>1. IInv => AcceptedAlone
  BY DEF IInv, Ownership, Waiting, AcceptedAlone
<1> QED
  BY <1>1, Inductive, PTL

\* Neither the active turn nor the turn an interrupt is closing has lost its lease.
THEOREM InterruptedStillHoldsHolds == Spec => []InterruptedStillHolds
<1>1. IInv => InterruptedStillHolds
  BY DEF IInv, Ownership, Held, Taken, Open, InterruptedStillHolds
<1> QED
  BY <1>1, Inductive, PTL

\* Only an interrupt can take the session from a turn before its task is done.
THEOREM StillOwnedHolds == Spec => []StillOwned
<1>1. IInv => StillOwned
  BY DEF IInv, Ownership
<1> QED
  BY <1>1, Inductive, PTL

\* A session whose active turn has been spawned counts as running.
THEOREM RunningIfActiveHolds == Spec => []RunningIfActive
<1>1. IInv => RunningIfActive
  <2> SUFFICES ASSUME IInv, active # NoTurn, pc[active] \in Tasked \cup {"panicked"}
               PROVE  running > 0
    BY DEF RunningIfActive
  <2>1. active \in Spawned
    BY DEF IInv, TypeOK, Spawned
  <2>2. Cardinality(Spawned) # 0
    BY <2>1, FS_EmptySet DEF IInv, Counted
  <2> QED
    BY <2>2 DEF IInv, Counted, TypeOK
<1> QED
  BY <1>1, Inductive, PTL

\* The control state of a session is the right turn's.
THEOREM RightTurnHolds == Spec => []RightTurn
<1>1. StillOwned /\ RunningIfActive => RightTurn
  BY DEF RightTurn
<1> QED
  BY <1>1, StillOwnedHolds, RunningIfActiveHolds, PTL

\* Every step is one of the lease's, or leaves it alone.
LEMMA StepLease == IInv /\ [Next]_vars => [LeaseNext]_leaseVars
<1> SUFFICES ASSUME IInv, Typed, [Next]_vars PROVE [LeaseNext]_leaseVars
  BY TypeSplits DEF IInv
<1> USE AbsentAssumption DEF IInv, Typed, Ownership, Waiting, Held, Taken, Open, Granted, leaseVars
<1>1. ASSUME NEW t \in Turns, Acquire(t) PROVE Own(t)
  BY <1>1 DEF Acquire
<1>2. ASSUME NEW t \in Turns, Accept(t) PROVE Grant(t)
  BY <1>2 DEF Accept
<1>3. ASSUME NEW t \in Turns, AcquireFails(t) PROVE Fail(t)
  BY <1>3 DEF AcquireFails
<1>4. ASSUME NEW t \in Turns, Reject(t) PROVE Refuse(t)
  BY <1>4 DEF Reject
<1>5. ASSUME NEW t \in Turns, BeginFails(t) PROVE Release(t)
  BY <1>5 DEF BeginFails, DropLease, Release
<1>6. ASSUME NEW t \in Turns, Begin(t) PROVE UNCHANGED leaseVars
  BY <1>6 DEF Begin
<1>7. ASSUME NEW t \in Turns, PersistInputs(t) PROVE UNCHANGED leaseVars
  BY <1>7 DEF PersistInputs
<1>8. ASSUME NEW t \in Turns, PersistInputsFails(t) PROVE Release(t) \/ UNCHANGED leaseVars
  BY <1>8 DEF PersistInputsFails, CompleteRunningTurn, DropLease, Release
<1>9. ASSUME NEW t \in Turns, MarkRunning(t) PROVE UNCHANGED leaseVars
  BY <1>9 DEF MarkRunning
<1>10. ASSUME NEW t \in Turns, TaskStarts(t) PROVE UNCHANGED leaseVars
  BY <1>10 DEF TaskStarts, Report
<1>11. ASSUME NEW t \in Turns, BridgeWork(t) PROVE UNCHANGED leaseVars
  BY <1>11 DEF BridgeWork
<1>12. ASSUME NEW t \in Turns, BridgeChecksTerminal(t) PROVE UNCHANGED leaseVars
  BY <1>12 DEF BridgeChecksTerminal
<1>13. ASSUME NEW t \in Turns, BridgeTerminal(t) PROVE UNCHANGED leaseVars
  BY <1>13 DEF BridgeTerminal
<1>14. ASSUME NEW t \in Turns, TaskReports(t) PROVE UNCHANGED leaseVars
  BY <1>14 DEF TaskReports, Report
<1>15. ASSUME NEW t \in Turns, Complete(t) PROVE Release(t) \/ UNCHANGED leaseVars
  BY <1>15 DEF Complete, CompleteRunningTurn, DropLease, Release
<1>16. ASSUME NEW t \in Turns, MarkIdle(t) PROVE UNCHANGED leaseVars
  BY <1>16 DEF MarkIdle
<1>17. ASSUME NEW t \in Turns, Panic(t) PROVE UNCHANGED leaseVars
  BY <1>17 DEF Panic
<1>18. ASSUME NEW i \in Interrupts, Interrupt(i) PROVE UNCHANGED leaseVars
  BY <1>18 DEF Interrupt
<1>19. ASSUME NEW i \in Interrupts, AppendCancelled(i) PROVE UNCHANGED leaseVars
  BY <1>19 DEF AppendCancelled
<1>20. ASSUME NEW i \in Interrupts, AppendCancelledFails(i) PROVE Release(call[i].turn)
  BY <1>20 DEF AppendCancelledFails, DropLease, Release, Stage
<1>21. ASSUME NEW i \in Interrupts, InterruptReturns(i) PROVE Release(call[i].turn)
  BY <1>21 DEF InterruptReturns, DropLease, Release, Stage
<1>22. ASSUME NEW r \in Requests, CheckCompact(r) PROVE UNCHANGED leaseVars
  BY <1>22 DEF CheckCompact
<1>23. ASSUME NEW r \in Requests, RegisterCompact(r) PROVE UNCHANGED leaseVars
  BY <1>23 DEF RegisterCompact
<1>24. CASE UNCHANGED vars
  BY <1>24 DEF vars
<1>25. ASSUME NEW i \in Interrupts, Open(i) PROVE call[i].turn \in Turns
  BY <1>25
<1>26. ASSUME NEW t \in Turns, DroppedBefore(t) PROVE Release(t)
  BY <1>26 DEF DroppedBefore, DropLease, Release
<1>27. ASSUME NEW t \in Turns, DroppedAfter(t) \/ OthersReport(t) PROVE UNCHANGED leaseVars
  BY <1>27 DEF DroppedAfter, OthersReport
<1> QED
  BY <1>1, <1>2, <1>3, <1>4, <1>5, <1>6, <1>7, <1>8, <1>9, <1>10, <1>11, <1>12, <1>13, <1>14, <1>15, <1>16, <1>17, <1>18, <1>19, <1>20, <1>21, <1>22, <1>23, <1>24, <1>25, <1>26, <1>27
  DEF Next, Submit, Task, InterruptCall, LeaseNext, AppendCancelledFails, InterruptReturns

\* The turns of a session use the lease as its contract says: the abstract
\* specification that the two lock files implement (ImplementsLease of TurnLock).
THEOREM KeepsLeaseContractHolds == Spec => KeepsLeaseContract
<1>1. Init => LeaseInit
  BY DEF Init
<1> QED
  BY <1>1, StepLease, Inductive, PTL DEF Spec, KeepsLeaseContract, LeaseSpec

-----------------------------------------------------------------------------
\* What befalls a turn from outside: its request is dropped, or others report.
Others(t) == DroppedBefore(t) \/ DroppedAfter(t) \/ OthersReport(t)

\* Where a turn that has begun stands, and where it writes no more.
Late == Tasked \cup {"begun", "inputs", "over", "panicked", "abandoned", "failed"}
Finished == {"completed", "over", "failed"}

\* An uninterrupted turn with an event in the log has begun ...
Wrote == \A j \in DOMAIN log : log[j].turn \in Whole => pc[log[j].turn] \in Late

\* ... and writes no more once another one has written after it.
Follows ==
    \A i \in DOMAIN log, j \in Owned :
        i < j /\ {log[i].turn, log[j].turn} \subseteq Whole /\ log[i].turn # log[j].turn
            => pc[log[i].turn] \in Finished

Sequence == Wrote /\ Follows /\ WholeTurns

\* What every step keeps: turns advance, and a turn stays interrupted.
Advances ==
    /\ \A t \in Turns : /\ pc[t] \in Late => pc'[t] \in Late
                        /\ pc[t] \in Finished => pc'[t] \in Finished
    /\ Whole' \subseteq Whole

\* Turn t writes, as the task or the submission that owns the session.
Writes(t) ==
    /\ \E kind \in Kinds \ {"report"} : Log(t, kind)
    /\ pc[t] \in {"begun", "spawned", "running", "terminal", "ended"}
    /\ pc'[t] \in Late

\* An interrupt writes for a turn that is interrupted.
WritesFor(t) ==
    /\ \E kind \in Kinds \ {"report"} : Log(t, kind)
    /\ t \notin Whole'

\* Others write for a turn that was spawned.
Reported(t) ==
    /\ Log(t, "report")
    /\ pc[t] \in Tasked \cup {"over", "panicked"}
    /\ UNCHANGED pc

\* What a step writes.
Written ==
    \/ UNCHANGED log
    \/ \E t \in Turns : Writes(t) \/ WritesFor(t) \/ Reported(t)

\* Every step lets turns advance only.
LEMMA StepAdvances == Typed /\ Taken /\ [Next]_vars => Advances
<1> SUFFICES ASSUME Typed, Taken, [Next]_vars PROVE Advances
  OBVIOUS
<1> DEFINE Turned ==
      \A t \in Turns : /\ pc[t] \in Late => pc'[t] \in Late
                       /\ pc[t] \in Finished => pc'[t] \in Finished
<1>1. Turned
  <2> USE DEF Typed, Late, Finished, Tasked, Goto
  <2>1. ASSUME NEW t \in Turns, Submit(t) PROVE Turned
    BY <2>1 DEF Submit, Acquire, Accept, AcquireFails, Reject, BeginFails, Begin,
                PersistInputs, PersistInputsFails, MarkRunning
  <2>2. ASSUME NEW t \in Turns, Task(t) \/ Panic(t) \/ Others(t) PROVE Turned
    BY <2>2 DEF Task, TaskStarts, BridgeWork, BridgeChecksTerminal, BridgeTerminal,
                TaskReports, Report, Complete, MarkIdle, Panic, Others, DroppedBefore, DroppedAfter, OthersReport
  <2>3. ASSUME NEW i \in Interrupts, InterruptCall(i) PROVE Turned
    BY <2>3 DEF InterruptCall, Interrupt, AppendCancelled, AppendCancelledFails, InterruptReturns
  <2>4. ASSUME NEW r \in Requests, CheckCompact(r) \/ RegisterCompact(r) PROVE Turned
    BY <2>4 DEF CheckCompact, RegisterCompact
  <2>5. CASE UNCHANGED vars
    BY <2>5 DEF vars
  <2> QED
    BY <2>1, <2>2, <2>3, <2>4, <2>5 DEF Next, Others
<1>2. \A i \in Interrupts : call[i].turn \in Turns => call'[i].turn = call[i].turn
  <2> DEFINE Stays == \A i \in Interrupts : call[i].turn \in Turns => call'[i].turn = call[i].turn
  <2>1. ASSUME NEW t \in Turns, Submit(t) \/ Task(t) \/ Panic(t) \/ Others(t) PROVE Stays
    BY <2>1 DEF Submit, Acquire, Accept, AcquireFails, Reject, BeginFails, Begin,
                PersistInputs, PersistInputsFails, MarkRunning,
                Task, TaskStarts, BridgeWork, BridgeChecksTerminal, BridgeTerminal,
                TaskReports, Report, Complete, MarkIdle, Panic, Others, DroppedBefore, DroppedAfter, OthersReport
  <2>2. ASSUME NEW i \in Interrupts, InterruptCall(i) PROVE Stays
    BY <2>2, AbsentAssumption
    DEF InterruptCall, Interrupt, AppendCancelled, AppendCancelledFails, InterruptReturns,
        Stage, Typed, Taken
  <2>3. ASSUME NEW r \in Requests, CheckCompact(r) \/ RegisterCompact(r) PROVE Stays
    BY <2>3 DEF CheckCompact, RegisterCompact
  <2>4. CASE UNCHANGED vars
    BY <2>4 DEF vars
  <2> QED
    BY <2>1, <2>2, <2>3, <2>4 DEF Next, Others
<1>3. Whole' \subseteq Whole
  BY <1>2 DEF Whole, Interrupted
<1> QED
  BY <1>1, <1>3 DEF Advances

\* Every event is written by the turn that has the session, for an interrupted one,
\* or is the report of others.
LEMMA StepWrites == Typed /\ Taken /\ [Next]_vars => Written
<1> SUFFICES ASSUME Typed, Taken, [Next]_vars PROVE Written
  OBVIOUS
<1>1. ASSUME NEW t \in Turns, Submit(t) PROVE Writes(t) \/ UNCHANGED log
  BY <1>1 DEF Submit, Acquire, Accept, AcquireFails, Reject, BeginFails, Begin,
              PersistInputs, PersistInputsFails, MarkRunning, Goto, Typed,
              Writes, Kinds, Late, Tasked
<1>2. ASSUME NEW t \in Turns, Task(t) \/ Panic(t) PROVE Writes(t) \/ UNCHANGED log
  BY <1>2 DEF Task, TaskStarts, BridgeWork, BridgeChecksTerminal, BridgeTerminal,
              TaskReports, Report, Complete, MarkIdle, Panic, Goto, Typed,
              Writes, Kinds, Late, Tasked
<1>7. ASSUME NEW t \in Turns, Others(t) PROVE Writes(t) \/ Reported(t) \/ UNCHANGED log
  BY <1>7 DEF Others, DroppedBefore, DroppedAfter, OthersReport, Goto, Typed,
              Writes, Reported, Kinds, Late
<1>3. ASSUME NEW i \in Interrupts, AppendCancelled(i) PROVE WritesFor(call[i].turn)
  <2>1. call'[i].turn = call[i].turn
    BY <1>3 DEF AppendCancelled, Stage, Typed
  <2> QED
    BY <1>3, <2>1 DEF AppendCancelled, WritesFor, Kinds, Whole, Interrupted
<1>4. ASSUME NEW i \in Interrupts, AppendCancelled(i) PROVE call[i].turn \in Turns
  BY <1>4 DEF AppendCancelled, Typed, Taken
<1>5. ASSUME NEW i \in Interrupts, InterruptCall(i), ~AppendCancelled(i) PROVE UNCHANGED log
  BY <1>5 DEF InterruptCall, Interrupt, AppendCancelledFails, InterruptReturns
<1>6. ASSUME NEW r \in Requests, CheckCompact(r) \/ RegisterCompact(r) PROVE UNCHANGED log
  BY <1>6 DEF CheckCompact, RegisterCompact
<1> QED
  BY <1>1, <1>2, <1>3, <1>4, <1>5, <1>6, <1>7 DEF Next, Others, Written, vars

\* Every step keeps uninterrupted turns apart in the log.
LEMMA StepSequence == Typed /\ Ownership /\ Payload /\ Sequence /\ [Next]_vars => Sequence'
<1> SUFFICES ASSUME Typed, Ownership, Payload, Sequence, [Next]_vars PROVE Sequence'
  OBVIOUS
<1>1. Advances /\ Written
  BY StepAdvances, StepWrites DEF Ownership
<1>2. log \in Seq([turn : Turns, kind : Kinds]) /\ Whole \subseteq Turns
  BY DEF Payload, Whole
<1>3. CASE UNCHANGED log
  BY <1>1, <1>2, <1>3 DEF Advances, Sequence, Wrote, Follows, WholeTurns, Owned
<1>4. ASSUME NEW t \in Turns, \E kind \in Kinds : Log(t, kind)
      PROVE  /\ Len(log') = Len(log) + 1 /\ Len(log) \in Nat
             /\ DOMAIN log = 1..Len(log) /\ DOMAIN log' = 1..(Len(log) + 1)
             /\ \A i \in DOMAIN log : log'[i] = log[i]
             /\ log'[Len(log) + 1].turn = t
  BY <1>2, <1>4 DEF Log, Event
<1>5. ASSUME NEW t \in Turns, WritesFor(t) PROVE Sequence'
  <2>1. t \notin Whole'
    BY <1>5 DEF WritesFor
  <2>2. \A i \in DOMAIN log' : log'[i].turn \in Whole' => i \in DOMAIN log /\ log'[i] = log[i]
    BY <1>2, <1>4, <1>5, <2>1 DEF WritesFor
  <2> QED
    BY <1>1, <1>2, <2>2 DEF Advances, Sequence, Wrote, Follows, WholeTurns, Owned
<1>9. \A u \in Turns : /\ pc[u] \in Late => pc'[u] \in Late
                       /\ pc[u] \in Finished => pc'[u] \in Finished
  BY <1>1 DEF Advances
<1>10. Whole' \subseteq Whole
  BY <1>1 DEF Advances
<1>6. ASSUME NEW t \in Turns, Writes(t), t \in Whole PROVE Sequence'
  <2>1. pc[t] \in Alive /\ pc[t] \notin Finished /\ active = t
    BY <1>6 DEF Writes, Alive, Finished, Tasked, Whole, Ownership, StillOwned
  <2>2. ASSUME NEW i \in DOMAIN log, log[i].turn \in Whole, log[i].turn # t
        PROVE  pc[log[i].turn] \in Finished
    <3>1. pc[log[i].turn] \in Late
      BY <2>2 DEF Sequence, Wrote
    <3>2. pc[log[i].turn] \notin Alive
      BY <1>2, <2>1, <2>2 DEF Ownership, StillOwned, Whole, Alive
    <3> QED
      BY <3>1, <3>2 DEF Late, Alive, Tasked, Finished
  <2>3. /\ DOMAIN log = 1..Len(log) /\ DOMAIN log' = 1..(Len(log) + 1) /\ Len(log) \in Nat
        /\ \A i \in DOMAIN log : log'[i] = log[i]
        /\ log'[Len(log) + 1].turn = t
    BY <1>4, <1>6 DEF Writes
  <2>6. Wrote'
    BY <1>2, <1>6, <2>3, <1>9, <1>10 DEF Sequence, Wrote, Writes
  <2>7. Follows'
    BY <1>2, <2>2, <2>3, <1>9, <1>10 DEF Sequence, Follows, Owned
  <2>8. WholeTurns'
    <3> SUFFICES ASSUME NEW i \in DOMAIN log', NEW j \in DOMAIN log', NEW k \in DOMAIN log',
                        log'[j].kind # "report", log'[k].kind # "report",
                        i < j, j < k, log'[i].turn = log'[k].turn,
                        {log'[i].turn, log'[j].turn} \subseteq Whole'
                 PROVE  log'[j].turn = log'[i].turn
      BY DEF WholeTurns, Owned
    <3>1. i \in DOMAIN log /\ j \in DOMAIN log
      BY <2>3
    <3>2. {log[i].turn, log[j].turn} \subseteq Whole /\ log[j].kind # "report"
      BY <2>3, <1>10, <3>1
    <3>3. CASE k \in DOMAIN log
      BY <2>3, <3>1, <3>2, <3>3 DEF Sequence, WholeTurns, Owned
    <3>4. CASE k = Len(log) + 1
      BY <2>1, <2>3, <3>1, <3>2, <3>4 DEF Sequence, Follows, Owned
    <3> QED
      BY <2>3, <3>3, <3>4
  <2> QED
    BY <2>6, <2>7, <2>8 DEF Sequence
<1>7. ASSUME NEW t \in Turns, Writes(t), t \notin Whole PROVE Sequence'
  BY <1>1, <1>5, <1>7 DEF Writes, WritesFor, Advances
<1>8. ASSUME NEW t \in Turns, Reported(t) PROVE Sequence'
  <2>1. /\ DOMAIN log = 1..Len(log) /\ DOMAIN log' = 1..(Len(log) + 1) /\ Len(log) \in Nat
        /\ \A i \in DOMAIN log : log'[i] = log[i]
        /\ log'[Len(log) + 1].turn = t /\ log'[Len(log) + 1].kind = "report"
    <3>1. \E kind \in Kinds : Log(t, kind)
      BY <1>8 DEF Reported, Kinds
    <3>2. log'[Len(log) + 1].kind = "report"
      BY <1>2, <1>8 DEF Reported, Log, Event
    <3> QED BY <1>4, <3>1, <3>2
  <2>2. pc[t] \in Late
    BY <1>8 DEF Reported, Late
  <2>3. Owned' = Owned
    BY <2>1 DEF Owned
  <2>4. Wrote'
    BY <1>2, <1>9, <1>10, <2>1, <2>2 DEF Sequence, Wrote
  <2>5. \A j \in Owned, i \in DOMAIN log' : i < j => i \in DOMAIN log
    BY <2>1 DEF Owned
  <2>6. Follows'
    BY <1>2, <1>9, <1>10, <2>1, <2>3, <2>5 DEF Sequence, Follows, Owned
  <2>7. WholeTurns'
    BY <1>2, <1>10, <2>1, <2>3, <2>5 DEF Sequence, WholeTurns, Owned
  <2> QED BY <2>4, <2>6, <2>7 DEF Sequence
<1> QED
  BY <1>1, <1>3, <1>5, <1>6, <1>7, <1>8 DEF Written

\* Whatever the other turns, interrupts, failures and reports, the events that a turn
\* nobody interrupted writes itself lie together in the log among those of its like.
THEOREM WholeTurnsHolds == Spec => []WholeTurns
<1>1. Init => Sequence
  BY DEF Init, Sequence, Wrote, Follows, WholeTurns, Owned
<1>2. IInv /\ Sequence /\ [Next]_vars => Sequence'
  BY StepSequence, TypeSplits DEF IInv
<1>3. Sequence => WholeTurns
  BY DEF Sequence
<1> QED
  BY <1>1, <1>2, <1>3, Inductive, PTL DEF Spec

-----------------------------------------------------------------------------
\* A turn that has begun never takes the session again.
Early == {"idle", "calling", "accepted"}
Begun(t) == pc[t] \notin Early

\* Who has written has begun, and whom an interrupt took has.
Progress ==
    /\ \A k \in DOMAIN log : Begun(log[k].turn)
    /\ \A k \in Interrupts : call[k].turn # NoTurn => Begun(call[k].turn)

\* A turn after which an uninterrupted one has written has lost the session.
Behind ==
    \A k \in DOMAIN log, j \in Owned :
        k < j /\ log[j].turn \in Whole /\ log[k].turn # log[j].turn => owner # log[k].turn

\* What each step keeps of it.
LEMMA StepBegun ==
    ASSUME Typed, Ownership, [Next]_vars
    PROVE  /\ \A t \in Turns : Begun(t) => Begun(t)'
           /\ owner' \notin {owner, NoTurn} => pc[owner'] = "idle"
<1> DEFINE Stays == \A t \in Turns : Begun(t) => Begun(t)'
           Moves == owner' \notin {owner, NoTurn} => pc[owner'] = "idle"
<1> USE DEF Typed, Goto, Begun, Early, Tasked, Ended, leaseVars, DropLease
<1>1. ASSUME NEW t \in Turns, Submit(t) PROVE Stays /\ Moves
  BY <1>1 DEF Submit, Acquire, Accept, AcquireFails, Reject, BeginFails, Begin,
              PersistInputs, PersistInputsFails, MarkRunning, Own, Grant, Fail, Refuse,
              CompleteRunningTurn
<1>2. ASSUME NEW t \in Turns, Task(t) \/ Panic(t) \/ Others(t) PROVE Stays /\ Moves
  BY <1>2 DEF Task, TaskStarts, BridgeWork, BridgeChecksTerminal, BridgeTerminal,
              TaskReports, Report, Complete, MarkIdle, Panic, Others, DroppedBefore, DroppedAfter, OthersReport, CompleteRunningTurn
<1>3. ASSUME NEW k \in Interrupts, InterruptCall(k) PROVE Stays /\ Moves
  BY <1>3 DEF InterruptCall, Interrupt, AppendCancelled, AppendCancelledFails, InterruptReturns
<1>4. ASSUME NEW r \in Requests, CheckCompact(r) \/ RegisterCompact(r) PROVE Stays /\ Moves
  BY <1>4 DEF CheckCompact, RegisterCompact
<1>5. CASE UNCHANGED vars
  BY <1>5 DEF vars
<1> QED
  BY <1>1, <1>2, <1>3, <1>4, <1>5 DEF Next, Others

\* An interrupt takes the active turn, for good.
LEMMA StepTakes ==
    ASSUME Typed, Ownership, [Next]_vars, NEW k \in Interrupts
    PROVE  call'[k].turn \in {call[k].turn, active}
<1> DEFINE Took == call'[k].turn \in {call[k].turn, active}
<1>1. ASSUME NEW t \in Turns, Submit(t) \/ Task(t) \/ Panic(t) \/ Others(t) PROVE Took
  BY <1>1 DEF Submit, Acquire, Accept, AcquireFails, Reject, BeginFails, Begin,
              PersistInputs, PersistInputsFails, MarkRunning,
              Task, TaskStarts, BridgeWork, BridgeChecksTerminal, BridgeTerminal,
              TaskReports, Report, Complete, MarkIdle, Panic, Others, DroppedBefore, DroppedAfter, OthersReport
<1>2. ASSUME NEW i \in Interrupts, InterruptCall(i) PROVE Took
  BY <1>2 DEF InterruptCall, Interrupt, AppendCancelled, AppendCancelledFails, InterruptReturns,
              Stage, Typed
<1>3. ASSUME NEW r \in Requests, CheckCompact(r) \/ RegisterCompact(r) PROVE Took
  BY <1>3 DEF CheckCompact, RegisterCompact
<1>4. CASE UNCHANGED vars
  BY <1>4 DEF vars
<1> QED
  BY <1>1, <1>2, <1>3, <1>4 DEF Next, Others

\* Events are turns' events.
LEMMA LogTurns == ASSUME Payload, NEW k \in DOMAIN log PROVE log[k].turn \in Turns
<1> DEFINE E == [turn : Turns, kind : Kinds]
<1>1. log \in Seq(E)
  BY DEF Payload
<1> HIDE DEF E
<1>2. log[k] \in E
  BY <1>1
<1> QED BY <1>2 DEF E

\* One event more, of turn t.
LEMMA LogGrows ==
    ASSUME Payload, NEW t \in Turns, \E kind \in Kinds : Log(t, kind)
    PROVE  /\ Len(log') = Len(log) + 1 /\ Len(log) \in Nat
           /\ DOMAIN log = 1..Len(log) /\ DOMAIN log' = 1..Len(log')
           /\ \A k \in DOMAIN log : log'[k] = log[k] /\ log[k].turn \in Turns
           /\ log'[Len(log')].turn = t
<1>1. PICK kind \in Kinds : log' = Append(log, Event(t, kind))
  BY DEF Log
<1>2. log \in Seq([turn : Turns, kind : Kinds]) /\ Event(t, kind).turn = t
  BY DEF Payload, Event
<1>3. Len(log) \in Nat /\ DOMAIN log = 1..Len(log)
  BY <1>2
<1>4. \A k \in DOMAIN log : log[k].turn \in Turns
  BY LogTurns
<1> QED BY <1>1, <1>2, <1>3, <1>4

\* Every step keeps: who has written has begun.
LEMMA StepProgress ==
    ASSUME Typed, Ownership, Payload, Progress, [Next]_vars
    PROVE  Progress'
<1>1. \A t \in Turns : Begun(t) => Begun(t)'
  BY StepBegun
<1>2. Written
  BY StepWrites DEF Ownership
<1>3. \A k \in DOMAIN log : Begun(log[k].turn) /\ log[k].turn \in Turns
  BY LogTurns DEF Progress
<1>4. ASSUME NEW k \in Interrupts, call'[k].turn # NoTurn PROVE pc'[call'[k].turn] \notin Early
  <2>1. call'[k].turn \in {call[k].turn, active}
    BY StepTakes
  <2>2. call[k].turn \in Turns \cup {NoTurn} /\ active \in Turns \cup {NoTurn}
    BY DEF Typed
  <2>3. active # NoTurn => Begun(active)
    BY DEF Ownership, Held, Alive, Tasked, Begun, Early
  <2>4. Begun(call'[k].turn) /\ call'[k].turn \in Turns
    BY <1>4, <2>1, <2>2, <2>3 DEF Progress
  <2> QED BY <1>1, <2>4 DEF Begun
<1>5. ASSUME NEW k \in DOMAIN log' PROVE pc'[log'[k].turn] \notin Early
  <2>1. CASE UNCHANGED log
    BY <1>1, <1>3, <2>1 DEF Begun
  <2>2. ASSUME NEW t \in Turns, Writes(t) \/ WritesFor(t) \/ Reported(t)
        PROVE  pc'[log'[k].turn] \notin Early
    <3>1. Begun(t)'
      <4>1. CASE Writes(t)
        BY <4>1 DEF Writes, Late, Tasked, Begun, Early
      <4>2. CASE WritesFor(t)
        BY <1>4, <4>2, AbsentAssumption DEF WritesFor, Whole, Interrupted, Begun
      <4>3. CASE Reported(t)
        BY <4>3 DEF Reported, Tasked, Begun, Early
      <4> QED BY <2>2, <4>1, <4>2, <4>3
    <3>2. /\ \A i \in DOMAIN log : log'[i] = log[i]
          /\ log'[Len(log')].turn = t
          /\ k \in DOMAIN log \/ k = Len(log')
      BY <2>2, LogGrows DEF Writes, WritesFor, Reported, Kinds
    <3>3. CASE k \in DOMAIN log
      BY <1>1, <1>3, <3>2, <3>3 DEF Begun
    <3>4. CASE k = Len(log')
      BY <3>1, <3>2, <3>4 DEF Begun
    <3> QED BY <3>2, <3>3, <3>4
  <2> QED BY <1>2, <2>1, <2>2 DEF Written
<1> QED BY <1>4, <1>5 DEF Progress, Begun

\* Every step keeps: who was written after has lost the session.
LEMMA StepBehind ==
    ASSUME Typed, Ownership, Payload, Progress, Behind, [Next]_vars
    PROVE  Behind'
<1>1. Advances /\ Written
  BY StepAdvances, StepWrites DEF Ownership
<1>2. Whole' \subseteq Whole
  BY <1>1 DEF Advances
<1>3. ASSUME NEW k \in DOMAIN log, owner # log[k].turn PROVE owner' # log[k].turn
  <2>1. Begun(log[k].turn) /\ log[k].turn \in Turns
    BY LogTurns DEF Progress
  <2> QED BY <1>3, <2>1, StepBegun, AbsentAssumption DEF Begun, Early
<1>4. CASE UNCHANGED log
  BY <1>2, <1>3, <1>4 DEF Behind, Owned
<1>5. ASSUME NEW t \in Turns, Writes(t) \/ WritesFor(t) \/ Reported(t) PROVE Behind'
  <2>1. /\ Len(log') = Len(log) + 1 /\ Len(log) \in Nat
        /\ DOMAIN log = 1..Len(log) /\ DOMAIN log' = 1..Len(log')
        /\ \A i \in DOMAIN log : log'[i] = log[i]
        /\ log'[Len(log')].turn = t
    BY <1>5, LogGrows DEF Writes, WritesFor, Reported, Kinds
  <2>4. Reported(t) => log'[Len(log')].kind = "report"
    <3>1. log \in Seq([turn : Turns, kind : Kinds])
      BY DEF Payload
    <3> QED BY <2>1, <3>1 DEF Reported, Log, Event
  <2>2. t \in Whole' /\ ~Reported(t) => owner = t
    <3>1. t \in Whole' /\ ~Reported(t) => t \in Whole /\ Writes(t)
      BY <1>2, <1>5 DEF WritesFor
    <3>2. Writes(t) /\ t \in Whole => owner = t
      BY DEF Writes, Whole, Ownership, StillOwned, Tasked
    <3> QED BY <3>1, <3>2
  <2>3. ASSUME NEW k \in DOMAIN log', NEW j \in DOMAIN log', k < j, log'[j].turn \in Whole',
               log'[k].turn # log'[j].turn, log'[j].kind # "report"
        PROVE  owner' # log'[k].turn
    <3>1. k \in DOMAIN log /\ log'[k] = log[k]
      BY <2>1, <2>3
    <3>2. CASE j \in DOMAIN log
      BY <1>2, <1>3, <2>1, <2>3, <3>1, <3>2 DEF Behind, Owned
    <3>3. CASE j = Len(log')
      BY <1>3, <2>1, <2>2, <2>3, <2>4, <3>1, <3>3
    <3> QED BY <2>1, <3>2, <3>3
  <2> QED BY <2>3 DEF Behind, Owned
<1> QED BY <1>1, <1>4, <1>5 DEF Written

\* What the turns of a session keep to while it is copied.
TurnsSound == Typed /\ Ownership /\ Payload /\ Sequence /\ Progress /\ Behind

\* A copy that fails changes nothing of the session but the count of failures.
Steady ==
    /\ UNCHANGED <<leaseVars, pc, active, pending, work, log, running, call, request>>
    /\ failures' \in 0..MaxFailures

\* Beside the copies the session steps as it does alone, but for what a copy uses up of the failures.
LEMMA BranchSteps == Payload /\ [BranchNext]_allVars => [Next]_vars \/ Steady
<1> SUFFICES ASSUME Payload, [BranchNext]_allVars PROVE [Next]_vars \/ Steady
  OBVIOUS
<1>1. ASSUME NEW c \in Copies, CopyFails(c) PROVE Steady
  <2>1. failures \in 0..MaxFailures /\ failures < MaxFailures /\ failures' = failures + 1
    BY <1>1 DEF Payload, CopyFails, MayFail
  <2>2. failures' \in 0..MaxFailures
    BY <2>1, TurnBoundAssumption
  <2> QED BY <1>1, <2>2 DEF CopyFails, Steady
<1>2. ASSUME NEW c \in Copies, Copying(c), ~CopyFails(c) PROVE UNCHANGED vars
  BY <1>2 DEF Copying, FindBusy, Confirm, ReplaySource, Fork, Copied, BranchBusy
<1>3. Turn => Next
  BY DEF Turn
<1>4. Checkpoint => UNCHANGED vars
  BY DEF Checkpoint
<1> QED BY <1>1, <1>2, <1>3, <1>4 DEF BranchNext, allVars

\* A copy that fails disturbs no turn.
LEMMA SteadyKeeps == TurnsSound /\ Steady => TurnsSound'
<1> SUFFICES ASSUME TurnsSound, Steady PROVE TurnsSound'
  OBVIOUS
<1>1. UNCHANGED <<owner, answer, pc, active, pending, work, log, running, call, request>>
  BY DEF Steady, leaseVars
<1>2. \A t : Interrupted(t)' <=> Interrupted(t)
  BY <1>1 DEF Interrupted
<1>3. Whole' = Whole
  BY <1>2 DEF Whole
<1>4. Typed'
  BY <1>1 DEF TurnsSound, Typed
<1>5. Ownership'
  BY <1>1, <1>2 DEF TurnsSound, Ownership, Waiting, Held, Taken, StillOwned, Open
<1>6. Payload'
  BY <1>1 DEF TurnsSound, Payload, Steady
<1>7. Sequence'
  BY <1>1, <1>3 DEF TurnsSound, Sequence, Wrote, Follows, WholeTurns, Owned
<1>8. Progress' /\ Behind'
  BY <1>1, <1>3 DEF TurnsSound, Progress, Begun, Behind, Owned
<1> QED BY <1>4, <1>5, <1>6, <1>7, <1>8 DEF TurnsSound

\* Every step keeps what the turns keep to.
LEMMA TurnsKeep == TurnsSound /\ [BranchNext]_allVars => TurnsSound'
<1> SUFFICES ASSUME TurnsSound, [BranchNext]_allVars PROVE TurnsSound'
  OBVIOUS
<1>1. [Next]_vars \/ Steady
  BY BranchSteps DEF TurnsSound
<1>2. CASE [Next]_vars
  <2>1. Typed' /\ Payload'
    BY <1>2, StepTyped, StepPayload DEF TurnsSound, Ownership
  <2>2. Ownership'
    BY <1>2, <2>1, StepOwnership DEF TurnsSound
  <2>3. Sequence'
    BY <1>2, StepSequence DEF TurnsSound
  <2>4. Progress' /\ Behind'
    BY <1>2, StepProgress, StepBehind DEF TurnsSound
  <2> QED BY <2>1, <2>2, <2>3, <2>4 DEF TurnsSound
<1> QED BY <1>1, <1>2, SteadyKeeps

\* What a copy that was told of the holder relies on: the turns that were over
\* then stay over, and none of them writes after the holder has (others may report).
CopySound(k) ==
    /\ k = [stage |-> k.stage, kind |-> k.kind, named |-> k.named, depth |-> k.depth,
            current |-> k.current, over |-> k.over]
    /\ \A w \in k.over : w \in Turns /\ pc[w] \in Ended
    /\ k.stage \in {"busy", "named"} /\ k.current =>
          /\ k.named \notin k.over
          /\ \A i \in DOMAIN log, j \in Owned :
                i < j /\ log[i].turn = k.named => log[j].turn \notin k.over \cap Whole

CopiesSound == DOMAIN copy = Copies /\ \A c \in Copies : CopySound(copy[c])

\* A call that has not looked yet was told nothing false.
LEMMA FreshSound == CopySound(Fresh) /\ CopySound(Fresh)'
BY DEF CopySound, Fresh

\* Turns that are over stay over, and only an interrupt writes for one, or others
\* report.
LEMMA EndedStays ==
    ASSUME TurnsSound, [BranchNext]_allVars
    PROVE  /\ \A t \in Turns : pc[t] \in Ended => pc'[t] \in Ended
           /\ Whole' \subseteq Whole
           /\ Len(log) \in Nat /\ DOMAIN log = 1..Len(log)
           /\ \/ UNCHANGED log
              \/ /\ DOMAIN log' = 1..(Len(log) + 1) /\ Len(log') = Len(log) + 1
                 /\ \A k \in DOMAIN log : log'[k] = log[k]
                 /\ log'[Len(log) + 1].turn \in Whole' /\ log'[Len(log) + 1].kind # "report"
                       => pc[log'[Len(log) + 1].turn] \notin Ended
<1>0. Len(log) \in Nat /\ DOMAIN log = 1..Len(log)
  BY DEF TurnsSound, Payload
<1>1. CASE Steady
  BY <1>0, <1>1 DEF Steady, Whole, Interrupted
<1>2. CASE [Next]_vars
  <2>1. \A t \in Turns : pc[t] \in Ended => pc'[t] \in Ended
    <3> DEFINE Stays == \A t \in Turns : pc[t] \in Ended => pc'[t] \in Ended
    <3> USE DEF TurnsSound, Typed, Goto, Ended, Tasked
    <3>1. ASSUME NEW t \in Turns, Submit(t) PROVE Stays
      BY <3>1 DEF Submit, Acquire, Accept, AcquireFails, Reject, BeginFails, Begin,
                  PersistInputs, PersistInputsFails, MarkRunning
    <3>2. ASSUME NEW t \in Turns, Task(t) \/ Panic(t) \/ Others(t) PROVE Stays
      BY <3>2 DEF Task, TaskStarts, BridgeWork, BridgeChecksTerminal, BridgeTerminal,
                  TaskReports, Report, Complete, MarkIdle, Panic, Others, DroppedBefore, DroppedAfter, OthersReport
    <3>3. ASSUME NEW k \in Interrupts, InterruptCall(k) PROVE Stays
      BY <3>3 DEF InterruptCall, Interrupt, AppendCancelled, AppendCancelledFails, InterruptReturns
    <3>4. ASSUME NEW r \in Requests, CheckCompact(r) \/ RegisterCompact(r) PROVE Stays
      BY <3>4 DEF CheckCompact, RegisterCompact
    <3>5. CASE UNCHANGED vars
      BY <3>5 DEF vars
    <3> QED BY <1>2, <3>1, <3>2, <3>3, <3>4, <3>5 DEF Next, Others
  <2>2. Advances /\ Written
    BY <1>2, StepAdvances, StepWrites DEF TurnsSound, Ownership
  <2>3. ASSUME NEW t \in Turns, Writes(t) \/ WritesFor(t) \/ Reported(t)
        PROVE  /\ DOMAIN log' = 1..(Len(log) + 1) /\ Len(log') = Len(log) + 1
               /\ \A k \in DOMAIN log : log'[k] = log[k]
               /\ log'[Len(log) + 1].turn = t
               /\ t \in Whole' /\ log'[Len(log) + 1].kind # "report" => pc[t] \notin Ended
    <3>1. /\ Len(log') = Len(log) + 1 /\ DOMAIN log' = 1..Len(log')
          /\ \A k \in DOMAIN log : log'[k] = log[k]
          /\ log'[Len(log')].turn = t
      BY <2>3, LogGrows DEF Writes, WritesFor, Reported, Kinds, TurnsSound
    <3>2. t \in Whole' /\ ~Reported(t) => pc[t] \notin Ended
      BY <2>3 DEF Writes, WritesFor, Ended
    <3>3. Reported(t) => log'[Len(log')].kind = "report"
      <4>1. log \in Seq([turn : Turns, kind : Kinds])
        BY DEF TurnsSound, Payload
      <4> QED BY <3>1, <4>1 DEF Reported, Log, Event
    <3> QED BY <3>1, <3>2, <3>3
  <2> QED BY <1>0, <2>1, <2>2, <2>3 DEF Advances, Written
<1> QED BY <1>1, <1>2, BranchSteps DEF TurnsSound

\* A copy that a step leaves alone.
LEMMA CopyStays ==
    ASSUME TurnsSound, [BranchNext]_allVars, NEW k, CopySound(k)
    PROVE  CopySound(k)'
<1>1. /\ \A t \in Turns : pc[t] \in Ended => pc'[t] \in Ended
      /\ Whole' \subseteq Whole
      /\ Len(log) \in Nat /\ DOMAIN log = 1..Len(log)
      /\ \/ UNCHANGED log
         \/ /\ DOMAIN log' = 1..(Len(log) + 1)
            /\ \A i \in DOMAIN log : log'[i] = log[i]
            /\ log'[Len(log) + 1].turn \in Whole' /\ log'[Len(log) + 1].kind # "report"
                       => pc[log'[Len(log) + 1].turn] \notin Ended
  BY EndedStays
<1>2. \A w \in k.over : w \in Turns /\ pc[w] \in Ended
  BY DEF CopySound
<1>3. ASSUME k.stage \in {"busy", "named"}, k.current,
             NEW i \in DOMAIN log', NEW j \in DOMAIN log', i < j, log'[i].turn = k.named,
             log'[j].turn \in k.over \cap Whole', log'[j].kind # "report"
      PROVE  FALSE
  <2>1. \A m, n \in DOMAIN log :
           m < n /\ log[m].turn = k.named /\ log[n].kind # "report" => log[n].turn \notin k.over \cap Whole
    BY <1>3 DEF CopySound, Owned
  <2>2. CASE UNCHANGED log
    BY <1>1, <1>3, <2>1, <2>2
  <2>3. CASE ~UNCHANGED log
    <3>1. j # Len(log) + 1
      BY <1>1, <1>2, <1>3, <2>3
    <3>2. i \in DOMAIN log /\ j \in DOMAIN log
      BY <1>1, <1>3, <2>3, <3>1
    <3> QED BY <1>1, <1>3, <2>1, <2>3, <3>2
  <2> QED BY <2>2, <2>3
<1> QED BY <1>1, <1>2, <1>3 DEF CopySound, Owned

BaseSound == base \in 0..Len(log)

\* The inductive invariant of the copies.
BranchInv == TurnsSound /\ CopiesSound /\ BaseSound

\* A checkpoint removes events that are there.
LEMMA BaseKeeps == BranchInv /\ [BranchNext]_allVars => BaseSound'
<1> SUFFICES ASSUME BranchInv, [BranchNext]_allVars PROVE BaseSound'
  OBVIOUS
<1>1. /\ Len(log) \in Nat
      /\ UNCHANGED log \/ Len(log') = Len(log) + 1
  BY EndedStays DEF BranchInv
<1>3. Len(log') \in {Len(log), Len(log) + 1}
  BY <1>1
<1>4. base' \in {base, Len(log)}
  BY DEF BranchNext, Turn, Checkpoint, Copying, FindBusy, Confirm, ReplaySource, Fork, CopyFails,
         Copied, BranchBusy, allVars, branchVars
<1> QED BY <1>1, <1>3, <1>4 DEF BranchInv, BaseSound

\* A copy is told of the holder only before anyone that was over can write again.
LEMMA FindBusySound ==
    ASSUME BranchInv, NEW c \in Copies, FindBusy(c)
    PROVE  \E k : k = copy'[c] /\ CopySound(k)'
<1>1. /\ CopySound(copy[c]) /\ copy' = [copy EXCEPT ![c] = [copy[c] EXCEPT
            !.stage = "busy", !.kind = "branch", !.named = payload,
            !.current = payload = owner, !.over = {t \in Turns \ {owner} : pc[t] \in Ended}]]
      /\ DOMAIN copy = Copies /\ UNCHANGED <<pc, log, call>> /\ owner # NoTurn
  BY DEF FindBusy, Set, BranchInv, CopiesSound, vars
<1>2. PICK new : new = [copy[c] EXCEPT
            !.stage = "busy", !.kind = "branch", !.named = payload,
            !.current = payload = owner, !.over = {t \in Turns \ {owner} : pc[t] \in Ended}]
  OBVIOUS
<1>3. copy'[c] = new
  BY <1>1, <1>2
<1>4. /\ new = [stage |-> new.stage, kind |-> new.kind, named |-> new.named, depth |-> new.depth,
                current |-> new.current, over |-> new.over]
      /\ new.named = payload /\ new.current = (payload = owner)
      /\ new.over = {t \in Turns \ {owner} : pc[t] \in Ended}
  BY <1>1, <1>2 DEF CopySound
<1>5. Whole' = Whole
  BY <1>1 DEF Whole, Interrupted
<1>6. ASSUME new.current, NEW i \in DOMAIN log, NEW j \in Owned, i < j, log[i].turn = new.named,
             log[j].turn \in new.over \cap Whole
      PROVE  FALSE
  <2>1. log[i].turn = owner /\ log[j].turn # owner
    BY <1>4, <1>6
  <2> QED BY <1>6, <2>1 DEF BranchInv, TurnsSound, Behind
<1>7. new.current => new.named \notin new.over
  BY <1>4
<1> HIDE DEF Ended
<1>8. \A w \in new.over : w \in Turns /\ pc[w] \in Ended
  BY <1>4
<1>10. Owned' = Owned
  BY <1>1 DEF Owned
<1>9. CopySound(new)'
  BY <1>1, <1>4, <1>5, <1>6, <1>7, <1>8, <1>10 DEF CopySound
<1> QED BY <1>3, <1>9

\* Every step keeps what the copies were told true.
LEMMA CopiesKeep == BranchInv /\ [BranchNext]_allVars => CopiesSound'
<1> SUFFICES ASSUME BranchInv, [BranchNext]_allVars PROVE CopiesSound'
  OBVIOUS
<1>0. DOMAIN copy = Copies /\ (\A c \in Copies : CopySound(copy[c])) /\ TurnsSound
  BY DEF BranchInv, CopiesSound
<1>1. \A k : CopySound(k) => CopySound(k)'
  BY <1>0, CopyStays
<1>2. ASSUME DOMAIN copy' = Copies, \A c \in Copies : \E k : k = copy'[c] /\ CopySound(k)'
      PROVE  CopiesSound'
  BY <1>2 DEF CopiesSound, CopySound
<1>4. CASE UNCHANGED copy
  <2>1. \A c \in Copies : copy'[c] = copy[c]
    BY <1>4
  <2> QED BY <1>0, <1>1, <1>2, <1>4, <2>1
<1>3. ASSUME NEW c \in Copies, Copying(c) PROVE CopiesSound'
  <2>1. PICK new : Set(c, new)
    BY <1>3 DEF Copying, FindBusy, Confirm, ReplaySource, Fork, CopyFails, Copied, BranchBusy
  <2>2. copy' = [copy EXCEPT ![c] = new] /\ copy'[c] = new
    BY <1>0, <2>1 DEF Set
  <2>3. CopySound(new)'
    <3>1. CASE FindBusy(c)
      <4>1. PICK k : k = copy'[c] /\ CopySound(k)'
        BY <3>1, FindBusySound
      <4>2. k = new
        BY <2>2, <4>1
      <4> QED BY <4>1, <4>2
    <3>2. CASE ~FindBusy(c)
      <4>1. \/ new = Fresh
            \/ new = [copy[c] EXCEPT !.stage = "named"] /\ copy[c].stage = "busy"
            \/ new = [Fresh EXCEPT !.stage = "copying", !.kind = "branch", !.depth = 1]
            \/ new = [Fresh EXCEPT !.stage = "copying", !.kind = "fork"]
            \/ new = [copy[c] EXCEPT !.depth = @ + 1] /\ copy[c].stage = "copying"
        BY <1>0, <1>3, <2>2, <3>2
        DEF Copying, Confirm, ReplaySource, Fork, CopyFails, Copied, BranchBusy, Set
      <4>2. CopySound(copy[c])
        BY <1>0
      <4>3. /\ new = [stage |-> new.stage, kind |-> new.kind, named |-> new.named, depth |-> new.depth,
                        current |-> new.current, over |-> new.over]
            /\ \/ new.over = {} /\ new.stage \notin {"busy", "named"}
               \/ /\ new.over = copy[c].over
                  /\ \/ new.stage = "copying"
                     \/ /\ new.named = copy[c].named /\ new.current = copy[c].current
                        /\ copy[c].stage = "busy"
        <5>1. PICK old : old = copy[c]
          OBVIOUS
        <5>2. old = [stage |-> old.stage, kind |-> old.kind, named |-> old.named, depth |-> old.depth,
                     current |-> old.current, over |-> old.over]
          BY <4>2, <5>1 DEF CopySound
        <5>3. CASE \/ new = Fresh
                   \/ new = [Fresh EXCEPT !.stage = "copying", !.kind = "branch", !.depth = 1]
                   \/ new = [Fresh EXCEPT !.stage = "copying", !.kind = "fork"]
          <6>1. CASE new = Fresh
            BY <6>1 DEF Fresh
          <6>2. CASE new = [Fresh EXCEPT !.stage = "copying", !.kind = "branch", !.depth = 1]
            BY <6>2 DEF Fresh
          <6>3. CASE new = [Fresh EXCEPT !.stage = "copying", !.kind = "fork"]
            BY <6>3 DEF Fresh
          <6> QED BY <5>3, <6>1, <6>2, <6>3
        <5>4. CASE new = [old EXCEPT !.stage = "named"] /\ old.stage = "busy"
          BY <5>1, <5>2, <5>4
        <5>5. CASE new = [old EXCEPT !.depth = @ + 1] /\ old.stage = "copying"
          <6>1. PICK d : new = [old EXCEPT !.depth = d]
            BY <5>5
          <6> QED BY <5>1, <5>2, <5>5, <6>1
        <5> QED BY <4>1, <5>1, <5>3, <5>4, <5>5
      <4>4. CopySound(new)
        BY <4>2, <4>3 DEF CopySound
      <4> QED BY <1>1, <4>4
    <3> QED BY <3>1, <3>2
  <2>4. ASSUME NEW d \in Copies PROVE \E k : k = copy'[d] /\ CopySound(k)'
    <3>1. CASE d = c
      BY <2>2, <2>3, <3>1
    <3>2. CASE d # c
      BY <1>0, <1>1, <2>2, <3>2
    <3> QED BY <3>1, <3>2
  <2> QED BY <1>0, <1>2, <2>2, <2>4
<1> QED BY <1>3, <1>4 DEF BranchNext, Turn, Checkpoint, allVars, branchVars

\* A set of numbers has a least one.
LEMMA LeastIn == ASSUME NEW S \in SUBSET Nat, S # {} PROVE Min(S) \in S /\ \A m \in S : Min(S) <= m
<1> DEFINE R == OpToRel(<, Nat)
<1>1. \A x, y \in Nat : x < y => <<x, y>> \in R
  BY DEF OpToRel
<1> HIDE DEF R
<1>2. IsWellFoundedOn(R, Nat)
  BY NatLessThanWellFounded DEF R
<1>3. PICK n \in S : \A m \in S : <<m, n>> \notin R
  BY <1>2, WFMin
<1>4. \A m \in S : ~(m < n)
  BY <1>1, <1>3
<1>5. \A m \in S : n <= m
  BY <1>4
<1> QED BY <1>5 DEF Min

\* The events of the file, by their position in the log.
LEMMA StoredAt ==
    ASSUME Payload, BaseSound
    PROVE  /\ Len(Stored) \in Nat /\ DOMAIN Stored = 1..Len(Stored) /\ Stored \in Seq([turn : Turns, kind : Kinds])
           /\ \A i \in DOMAIN Stored : base + i \in DOMAIN log /\ Stored[i] = log[base + i]
           /\ base \in Nat
<1> DEFINE E == [turn : Turns, kind : Kinds]
<1>1. log \in Seq(E) /\ Len(log) \in Nat /\ base \in 0..Len(log)
  BY DEF Payload, BaseSound
<1> HIDE DEF E
<1>2. base + 1 \in Nat /\ base + 1 >= 1 /\ DOMAIN log = 1..Len(log) /\ base \in Nat
  BY <1>1
<1>3. /\ Stored \in Seq(E) /\ Len(Stored) = Len(log) - base /\ DOMAIN Stored = 1..(Len(log) - base)
      /\ \A i \in 1..(Len(log) - base) : Stored[i] = log[base + i]
  <2>1. \A i \in (base + 1)..Len(log) : log[i] \in E
    BY <1>1, <1>2
  <2>2. /\ Stored \in Seq(E)
        /\ Len(Stored) = IF base + 1 <= Len(log) THEN Len(log) - (base + 1) + 1 ELSE 0
        /\ \A i \in 1..(Len(log) - (base + 1) + 1) : Stored[i] = log[(base + 1) + i - 1]
    BY <1>1, <1>2, <2>1, SubSeqProperties DEF Stored
  <2> DEFINE n == Len(log)
             size == Len(Stored)
  <2>3. n \in Nat /\ base \in 0..n /\ size = IF base + 1 <= n THEN n - (base + 1) + 1 ELSE 0
    BY <1>1, <1>2, <2>2
  <2>5. DOMAIN Stored = 1..size /\ \A i \in 1..(n - (base + 1) + 1) : Stored[i] = log[(base + 1) + i - 1]
    BY <2>2
  <2> HIDE DEF n, size
  <2>4. size = n - base /\ n - (base + 1) + 1 = n - base
    BY <2>3
  <2>6. ASSUME NEW i \in 1..(n - base) PROVE Stored[i] = log[base + i]
    <3>1. (base + 1) + i - 1 = base + i
      BY <2>3
    <3> QED BY <2>4, <2>5, <2>6, <3>1
  <2> QED BY <2>2, <2>4, <2>5, <2>6 DEF n, size
<1> QED BY <1>1, <1>2, <1>3 DEF E

\* What a branch keeps ends before the first event of the turn it was told of.
LEMMA KeptBefore ==
    ASSUME Payload, BaseSound, NEW c \in Copies
    PROVE  /\ \A i \in DOMAIN Kept(c) : /\ i \in DOMAIN Stored /\ Kept(c)[i] = Stored[i]
                                        /\ \A j \in DOMAIN Stored : Stored[j].turn = copy[c].named => i < j
           /\ \A i \in DOMAIN Stored :
                 (\A j \in DOMAIN Stored : Stored[j].turn = copy[c].named => i < j) => i \in DOMAIN Kept(c)
<1> DEFINE t == copy[c].named
           own == {i \in DOMAIN Stored : Stored[i].turn = t}
<1>1. /\ Len(Stored) \in Nat /\ DOMAIN Stored = 1..Len(Stored)
      /\ Stored \in Seq([turn : Turns, kind : Kinds])
  BY StoredAt
<1>2. Kept(c) = IF own = {} THEN Stored ELSE SubSeq(Stored, 1, Min(own) - 1)
  BY DEF Kept, StableBefore
<1>3. CASE own = {}
  BY <1>1, <1>2, <1>3
<1>4. CASE own # {}
  <2>1. Min(own) \in own /\ \A j \in own : Min(own) <= j
    <3>1. own \in SUBSET Nat
      BY <1>1
    <3> HIDE DEF own
    <3> QED BY <1>4, <3>1, LeastIn
  <2> DEFINE m == Min(own)
  <2>2. m \in 1..Len(Stored) /\ Stored[m].turn = t /\ \A j \in DOMAIN Stored : Stored[j].turn = t => m <= j
    BY <1>1, <2>1
  <2>3. Kept(c) = SubSeq(Stored, 1, m - 1)
    BY <1>2, <1>4
  <2> HIDE DEF m, own, t
  <2>4. DOMAIN Kept(c) = 1..(m - 1) /\ \A i \in 1..(m - 1) : Kept(c)[i] = Stored[i]
    BY <1>1, <2>2, <2>3
  <2>5. \A i \in DOMAIN Stored : (\A j \in DOMAIN Stored : Stored[j].turn = t => i < j) => i < m
    BY <1>1, <2>2
  <2> QED BY <1>1, <2>2, <2>4, <2>5 DEF t
<1> QED BY <1>3, <1>4

\* What the branch property says follows.
LEMMA BranchExactMeans == BranchInv => BranchExact
<1> SUFFICES ASSUME BranchInv PROVE BranchExact
  OBVIOUS
<1>0. /\ Payload /\ BaseSound /\ Behind /\ CopiesSound
  BY DEF BranchInv, TurnsSound
<1>1. /\ Len(Stored) \in Nat /\ DOMAIN Stored = 1..Len(Stored) /\ base \in Nat
      /\ \A i \in DOMAIN Stored : base + i \in DOMAIN log /\ Stored[i] = log[base + i]
  BY <1>0, StoredAt
<1>2. ASSUME NEW c \in Copies, owner # NoTurn, In(owner, Kept(c)), OwnIn(copy[c].named, Stored)
      PROVE  Interrupted(copy[c].named)
  <2>1. PICK i \in DOMAIN Kept(c) : Kept(c)[i].turn = owner
    BY <1>2 DEF In
  <2>2. PICK j \in DOMAIN Stored : Stored[j].turn = copy[c].named /\ Stored[j].kind # "report"
    BY <1>2 DEF OwnIn
  <2>3. i \in DOMAIN Stored /\ Stored[i].turn = owner /\ i < j
        /\ (Stored[i].turn = copy[c].named => i < i)
    BY <1>0, <2>1, <2>2, KeptBefore
  <2>4. base + i \in DOMAIN log /\ base + j \in DOMAIN log /\ base + i < base + j
        /\ log[base + i].turn = owner /\ log[base + j].turn = copy[c].named /\ owner # copy[c].named
        /\ base + j \in Owned
    BY <1>1, <2>2, <2>3 DEF Owned
  <2>5. log[base + j].turn \in Turns
    BY <1>0, <2>4, LogTurns
  <2> QED BY <1>0, <2>4, <2>5 DEF Behind, Whole
<1>3. ASSUME NEW c \in Copies, copy[c].stage = "named", copy[c].current, NEW i \in DOMAIN Stored,
             Stored[i].turn \in copy[c].over, ~Interrupted(Stored[i].turn), Stored[i].kind # "report"
      PROVE  i \in DOMAIN Kept(c)
  <2>1. ASSUME NEW j \in DOMAIN Stored, Stored[j].turn = copy[c].named PROVE i < j
    <3>1. CopySound(copy[c])
      BY <1>0 DEF CopiesSound
    <3>2. i # j
      BY <1>3, <2>1, <3>1 DEF CopySound
    <3>3. base + i \in DOMAIN log /\ base + j \in DOMAIN log
          /\ log[base + i] = Stored[i] /\ log[base + j].turn = copy[c].named
          /\ log[base + i].turn \in copy[c].over \cap Whole /\ base + i \in Owned
      <4>1. log[base + i].turn \in Turns
        BY <1>0, <1>1, LogTurns
      <4> QED BY <1>1, <1>3, <2>1, <4>1 DEF Whole, Owned
    <3>4. ~(base + j < base + i)
      BY <1>3, <3>1, <3>3 DEF CopySound
    <3> QED BY <1>1, <3>2, <3>4
  <2> QED BY <1>0, <2>1, KeptBefore
<1>4. BranchSparesRunning
  BY <1>2 DEF BranchSparesRunning
<1>5. BranchKeepsEnded
  BY <1>3 DEF BranchKeepsEnded
<1> QED BY <1>4, <1>5 DEF BranchExact

\* The initial states have the inductive invariant of the copies.
LEMMA InitBranch == BranchInit => BranchInv
<1> SUFFICES ASSUME BranchInit PROVE BranchInv
  OBVIOUS
<1>1. Init /\ log = <<>> /\ base = 0 /\ copy = [c \in Copies |-> Fresh]
  BY DEF BranchInit, Init
<1>2. Typed /\ Payload /\ Ownership
  BY <1>1, InitIInv, TypeSplits DEF IInv
<1>3. Sequence /\ Behind
  BY <1>1 DEF Sequence, Wrote, Follows, WholeTurns, Behind, Owned
<1>4. Progress
  BY <1>1 DEF Progress, Init
<1>5. CopiesSound
  BY <1>1, FreshSound DEF CopiesSound
<1>6. BaseSound
  BY <1>1 DEF BaseSound
<1> QED BY <1>2, <1>3, <1>4, <1>5, <1>6 DEF BranchInv, TurnsSound

\* The turns advance as they do alone, whoever copies the session, and what a call
\* was told of turns that are over stays true (resolve_submit_target).
THEOREM BranchInvariant == BranchSpec => []BranchInv
<1>1. BranchInv /\ [BranchNext]_allVars => BranchInv'
  BY TurnsKeep, CopiesKeep, BaseKeeps DEF BranchInv
<1> QED BY <1>1, InitBranch, PTL DEF BranchSpec

\* A branch has the turns that were over when the prompt came, and nothing of the
\* one that has the session when it is read (branch_session_from_busy_turn).
THEOREM BranchExactHolds == BranchSpec => []BranchExact
<1> QED BY BranchInvariant, BranchExactMeans, PTL

-----------------------------------------------------------------------------
\* What an event makes of the open turn.
Opens(before, e) ==
    IF e.kind \notin Terminal /\ before = NoTurn THEN e.turn
    ELSE IF e.kind \in Terminal /\ before = e.turn THEN NoTurn ELSE before

\* h is the scan of the events up to the n-th.
Scan(h, events, n) ==
    h = [m \in 0..n |-> IF m = 0 THEN NoTurn ELSE Opens(h[m - 1], events[m])]

\* Any events can be scanned, by induction on their number.
LEMMA ScanExists == ASSUME NEW events, NEW n \in Nat PROVE \E h : Scan(h, events, n)
<1> DEFINE Bad == {m \in Nat : ~ \E h : Scan(h, events, m)}
<1> SUFFICES ASSUME Bad # {} PROVE FALSE
  OBVIOUS
<1>1. PICK m \in Bad : \A k \in Bad : m <= k
  <2>1. Bad \in SUBSET Nat
    OBVIOUS
  <2> HIDE DEF Bad
  <2> QED BY <2>1, LeastIn
<1>2. CASE m = 0
  <2> DEFINE h == [k \in 0..0 |-> NoTurn]
  <2>1. h = [k \in 0..0 |-> IF k = 0 THEN NoTurn ELSE Opens(h[k - 1], events[k])]
    OBVIOUS
  <2>2. Scan(h, events, 0)
    BY <2>1 DEF Scan
  <2> QED BY <1>1, <1>2, <2>2
<1>3. CASE m # 0
  <2>1. m \in Nat /\ m - 1 \in Nat /\ ~(m <= m - 1)
    BY <1>1, <1>3
  <2>2. PICK g : Scan(g, events, m - 1)
    BY <1>1, <2>1
  <2> DEFINE last == Opens(g[m - 1], events[m])
             h == [k \in 0..m |-> IF k = m THEN last ELSE g[k]]
  <2>3. /\ DOMAIN g = 0..(m - 1) /\ g[0] = NoTurn
        /\ \A k \in 1..(m - 1) : g[k] = Opens(g[k - 1], events[k])
    BY <2>1, <2>2 DEF Scan
  <2>4. h[0] = NoTurn /\ h[m] = last /\ h[m - 1] = g[m - 1]
    BY <2>1, <2>3, <1>3
  <2>5. \A k \in 1..(m - 1) : h[k] = g[k] /\ h[k - 1] = g[k - 1]
    BY <2>1
  <2>6. \A k \in 0..m : h[k] = IF k = 0 THEN NoTurn ELSE Opens(h[k - 1], events[k])
    <3> HIDE DEF h
    <3> SUFFICES ASSUME NEW k \in 0..m
                 PROVE  h[k] = IF k = 0 THEN NoTurn ELSE Opens(h[k - 1], events[k])
      OBVIOUS
    <3>1. k = 0 \/ k = m \/ k \in 1..(m - 1)
      BY <2>1
    <3> QED BY <1>3, <2>3, <2>4, <2>5, <3>1
  <2>7. Scan(h, events, m)
    <3>1. h = [k \in 0..m |-> h[k]]
      OBVIOUS
    <3> HIDE DEF h
    <3>2. [k \in 0..m |-> h[k]] = [k \in 0..m |-> IF k = 0 THEN NoTurn ELSE Opens(h[k - 1], events[k])]
      BY <2>6
    <3> QED BY <3>1, <3>2 DEF Scan
  <2> QED BY <1>1, <2>7
<1> QED BY <1>2, <1>3

\* The open turn is where the scan ends.
LEMMA OpenTurnIs ==
    ASSUME NEW events, Len(events) \in Nat
    PROVE  \E h : Scan(h, events, Len(events)) /\ OpenTurn(events) = h[Len(events)]
<1>1. PICK g : Scan(g, events, Len(events))
  BY ScanExists
<1> QED BY <1>1 DEF OpenTurn, Scan, Opens

\* Step by step.
LEMMA ScanSteps ==
    ASSUME NEW h, NEW events, NEW n \in Nat, Scan(h, events, n)
    PROVE  h[0] = NoTurn /\ \A m \in 1..n : h[m] = Opens(h[m - 1], events[m])
BY DEF Scan

\* A bounded set of numbers has a greatest one.
LEMMA GreatestIn ==
    ASSUME NEW N \in Nat, NEW S \in SUBSET (1..N), S # {}
    PROVE  Max(S) \in S /\ \A m \in S : m <= Max(S)
<1> DEFINE B == {u \in Nat : \A m \in S : m <= u}
<1>1. B \in SUBSET Nat /\ N \in B
  OBVIOUS
<1>2. PICK u \in B : \A v \in B : u <= v
  <2> HIDE DEF B
  <2> QED BY <1>1, LeastIn
<1>3. u \in S
  <2> SUFFICES ASSUME u \notin S PROVE FALSE
    OBVIOUS
  <2>1. \A m \in S : m \in Nat /\ m >= 1 /\ m <= u /\ m # u
    BY <1>2
  <2>2. u \in Nat /\ u >= 1 /\ u - 1 \in Nat /\ ~(u <= u - 1)
    <3>1. PICK m : m \in S
      OBVIOUS
    <3>2. u \in Nat /\ m \in Nat /\ m >= 1 /\ m <= u
      BY <1>2, <2>1, <3>1
    <3> QED BY <3>2
  <2>3. u - 1 \in B
    BY <2>1, <2>2
  <2> QED BY <1>2, <2>2, <2>3
<1>4. \A m \in S : u >= m /\ m <= u
  BY <1>2
<1>5. \E x \in S : \A y \in S : x >= y
  BY <1>3, <1>4
<1>6. Max(S) \in S /\ \A y \in S : Max(S) >= y
  BY <1>5 DEF Max
<1>7. \A y \in S : y \in Int
  OBVIOUS
<1> QED BY <1>6, <1>7

\* The records of a log.
Records == [turn : Turns, kind : Kinds]

\* The first events.
LEMMA UpToIs ==
    ASSUME NEW events \in Seq(Records), NEW m \in 0..Len(events)
    PROVE  /\ UpTo(events, m) \in Seq(Records) /\ Len(UpTo(events, m)) = m
           /\ DOMAIN UpTo(events, m) = 1..m
           /\ \A i \in 1..m : UpTo(events, m)[i] = events[i]
<1>1. CASE m = 0
  <2>1. UpTo(events, m) = SubSeq(events, 1, 0)
    BY <1>1 DEF UpTo
  <2>2. SubSeq(events, 1, 0) = << >>
    BY SubSeqEmpty
  <2> QED BY <1>1, <2>1, <2>2
<1>2. CASE m # 0
  <2>1. m \in Nat /\ 1 <= m /\ m <= Len(events) /\ \A i \in 1..m : events[i] \in Records
    BY <1>2
  <2>2. /\ UpTo(events, m) \in Seq(Records)
        /\ Len(UpTo(events, m)) = IF 1 <= m THEN m - 1 + 1 ELSE 0
        /\ \A i \in 1..(m - 1 + 1) : UpTo(events, m)[i] = events[1 + i - 1]
    BY <2>1, SubSeqProperties DEF UpTo
  <2>3. Len(UpTo(events, m)) = m /\ m - 1 + 1 = m
    BY <2>1, <2>2
  <2>4. ASSUME NEW i \in 1..m PROVE UpTo(events, m)[i] = events[i]
    <3>1. 1 + i - 1 = i
      BY <2>4
    <3> QED BY <2>2, <2>3, <3>1
  <2> QED BY <2>2, <2>3, <2>4
<1> QED BY <1>1, <1>2

\* An open turn has begun, and no terminal event of its own has ended it since.
LEMMA OpenSince ==
    ASSUME NEW p \in Seq(Records), NEW h, Scan(h, p, Len(p)), h[Len(p)] # NoTurn
    PROVE  \E k \in DOMAIN p : /\ p[k].turn = h[Len(p)] /\ p[k].kind \notin Terminal
                               /\ \A j \in DOMAIN p : k < j /\ p[j].turn = h[Len(p)] => p[j].kind \notin Terminal
<1> DEFINE N == Len(p)
           From(n) == \E k \in 1..n : /\ p[k].turn = h[n] /\ p[k].kind \notin Terminal
                                      /\ \A j \in 1..n : k < j /\ p[j].turn = h[n] => p[j].kind \notin Terminal
           Bad == {n \in 0..N : h[n] # NoTurn /\ ~From(n)}
<1>1. N \in Nat /\ DOMAIN p = 1..N /\ h[0] = NoTurn
      /\ \A n \in 1..N : h[n] = Opens(h[n - 1], p[n])
  BY ScanSteps
<1> HIDE DEF N
<1> SUFFICES ASSUME Bad # {} PROVE FALSE
  BY <1>1 DEF N
<1>2. PICK n \in Bad : \A k \in Bad : n <= k
  <2>1. Bad \in SUBSET Nat
    BY <1>1
  <2> HIDE DEF Bad
  <2> QED BY <2>1, LeastIn
<1>3. n \in 1..N /\ n - 1 \in 0..N /\ ~(n <= n - 1) /\ h[n] = Opens(h[n - 1], p[n]) /\ h[n] # NoTurn /\ ~From(n)
  BY <1>1, <1>2
<1>4. CASE p[n].kind \notin Terminal /\ h[n - 1] = NoTurn
  <2>1. p[n].turn = h[n]
    BY <1>3, <1>4 DEF Opens
  <2>2. From(n)
    BY <1>3, <1>4, <2>1
  <2> QED BY <1>3, <2>2
<1>5. CASE ~(p[n].kind \notin Terminal /\ h[n - 1] = NoTurn)
  <2>1. h[n] = h[n - 1] /\ ~(p[n].kind \in Terminal /\ p[n].turn = h[n])
    BY <1>3, <1>5 DEF Opens
  <2>2. From(n - 1)
    BY <1>2, <1>3, <2>1
  <2>3. PICK k \in 1..(n - 1) : /\ p[k].turn = h[n] /\ p[k].kind \notin Terminal
                                /\ \A j \in 1..(n - 1) : k < j /\ p[j].turn = h[n] => p[j].kind \notin Terminal
    BY <2>1, <2>2
  <2>4. \A j \in 1..n : j = n \/ j \in 1..(n - 1)
    BY <1>3
  <2>5. k \in 1..n
    BY <1>3
  <2>6. From(n)
    BY <2>1, <2>3, <2>4, <2>5
  <2> QED BY <1>3, <2>6
<1> QED BY <1>4, <1>5

\* Where turns' own events do not interleave and none is open, every turn has ended,
\* whatever others report.
LEMMA StableEnds ==
    ASSUME NEW p \in Seq(Records), NoTurn \notin Turns, IsStablePrefix(p),
           \A i, j, k \in DOMAIN p :
              i < j /\ j < k /\ p[i].turn = p[k].turn /\ p[j].kind # "report" /\ p[k].kind # "report"
                 => p[j].turn = p[i].turn,
           NEW t, OwnIn(t, p)
    PROVE  EndsIn(t, p)
<1> DEFINE N == Len(p)
<1>0. PICK h : Scan(h, p, N) /\ OpenTurn(p) = h[N]
  <2>1. Len(p) \in Nat
    OBVIOUS
  <2> QED BY <2>1, OpenTurnIs
<1> DEFINE Over(n) == \A j \in 1..n : p[j].kind # "report" =>
                         \E i \in 1..n : p[i].turn = p[j].turn /\ p[i].kind \in Terminal
           Holding(n) == \E k \in 1..n : p[k].turn = h[n] /\ h[k - 1] = NoTurn
           Bad == {n \in 0..N : ~ IF h[n] = NoTurn THEN Over(n) ELSE Holding(n)}
<1>1. N \in Nat /\ DOMAIN p = 1..N /\ h[0] = NoTurn /\ h[N] = NoTurn
      /\ \A n \in 1..N : h[n] = Opens(h[n - 1], p[n]) /\ p[n].turn \in Turns
  <2>1. N \in Nat /\ DOMAIN p = 1..N /\ \A n \in 1..N : p[n] \in Records
    OBVIOUS
  <2>2. \A n \in 1..N : p[n].turn \in Turns
    BY <2>1 DEF Records
  <2>3. h[N] = NoTurn
    BY <1>0 DEF IsStablePrefix
  <2>4. h[0] = NoTurn /\ \A n \in 1..N : h[n] = Opens(h[n - 1], p[n])
    <3> HIDE DEF N
    <3> QED BY <1>0, <2>1, ScanSteps
  <2> QED BY <2>1, <2>2, <2>3, <2>4
<1>2. Bad = {} => EndsIn(t, p)
  <2> SUFFICES ASSUME Bad = {} PROVE EndsIn(t, p)
    OBVIOUS
  <2>1. N \in 0..N /\ N \notin Bad /\ h[N] = NoTurn
    BY <1>1
  <2>2. Over(N)
    BY <2>1
  <2>3. PICK j \in 1..N : p[j].turn = t /\ p[j].kind # "report"
    BY <1>1 DEF OwnIn
  <2>4. PICK i \in 1..N : p[i].turn = p[j].turn /\ p[i].kind \in Terminal
    BY <2>2, <2>3
  <2> QED BY <1>1, <2>3, <2>4 DEF EndsIn
<1>t. \A i, j, k \in 1..N :
         i < j /\ j < k /\ p[i].turn = p[k].turn /\ p[j].kind # "report" /\ p[k].kind # "report"
            => p[j].turn = p[i].turn
  BY <1>1
<1> HIDE DEF N
<1> SUFFICES ASSUME Bad # {} PROVE FALSE
  BY <1>2
<1>3. PICK n \in Bad : \A k \in Bad : n <= k
  <2>1. Bad \in SUBSET Nat
    BY <1>1
  <2> HIDE DEF Bad
  <2> QED BY <2>1, LeastIn
<1>4. \A m \in 0..N : m < n => IF h[m] = NoTurn THEN Over(m) ELSE Holding(m)
  <2> SUFFICES ASSUME NEW m \in 0..N, m < n PROVE IF h[m] = NoTurn THEN Over(m) ELSE Holding(m)
    OBVIOUS
  <2>1. ~(n <= m)
    BY <1>1, <1>3
  <2>2. m \notin Bad
    BY <1>3, <2>1
  <2> HIDE DEF Over, Holding
  <2> QED BY <2>2
<1>5. n \in 1..N
  BY <1>1, <1>3
<1>6. /\ n - 1 \in 0..N /\ n - 1 < n /\ h[n] = Opens(h[n - 1], p[n])
      /\ \A j \in 1..n : j = n \/ j \in 1..(n - 1)
      /\ \A j \in 1..(n - 1) : j \in 1..n
  BY <1>1, <1>5
<1>7. ASSUME p[n].kind \notin Terminal, h[n - 1] = NoTurn PROVE FALSE
  <2>1. h[n] = p[n].turn /\ h[n] # NoTurn
    BY <1>1, <1>5, <1>6, <1>7 DEF Opens
  <2>2. Holding(n)
    BY <1>5, <1>7, <2>1
  <2> QED BY <1>3, <2>1, <2>2
<1>8. ASSUME p[n].kind \in Terminal, h[n - 1] = p[n].turn PROVE FALSE
  <2>1. h[n] = NoTurn /\ h[n - 1] # NoTurn
    BY <1>1, <1>5, <1>6, <1>8 DEF Opens
  <2>2. PICK k \in 1..(n - 1) : p[k].turn = p[n].turn /\ h[k - 1] = NoTurn
    BY <1>4, <1>6, <1>8, <2>1
  <2>3. k - 1 \in 0..N /\ k - 1 < n
    BY <1>1, <1>5
  <2>4. Over(k - 1)
    BY <1>4, <2>2, <2>3
  <2>5. ASSUME NEW j \in 1..n, p[j].kind # "report"
        PROVE  \E i \in 1..n : p[i].turn = p[j].turn /\ p[i].kind \in Terminal
    <3>1. CASE j \in 1..(k - 1)
      <4>1. PICK i \in 1..(k - 1) : p[i].turn = p[j].turn /\ p[i].kind \in Terminal
        BY <2>4, <2>5, <3>1
      <4>2. i \in 1..n
        BY <1>5, <2>2
      <4> QED BY <4>1, <4>2
    <3>2. CASE j \notin 1..(k - 1)
      <4>1. j = k \/ j = n \/ (k < j /\ j < n)
        BY <1>5, <2>2, <3>2
      <4>2. j \in 1..N /\ k \in 1..N /\ n \in 1..N
        BY <1>1, <1>5, <2>2
      <4>3. p[j].turn = p[n].turn
        <5>1. p[n].kind # "report"
          BY <1>8 DEF Terminal
        <5> QED BY <1>t, <2>2, <2>5, <4>1, <4>2, <5>1
      <4> QED BY <1>5, <1>8, <4>3
    <3> QED BY <3>1, <3>2
  <2> QED BY <1>3, <2>1, <2>5
<1>9. ASSUME ~(p[n].kind \notin Terminal /\ h[n - 1] = NoTurn), ~(p[n].kind \in Terminal /\ h[n - 1] = p[n].turn)
      PROVE  FALSE
  <2>1. h[n] = h[n - 1]
    BY <1>6, <1>9 DEF Opens
  <2>2. CASE h[n] = NoTurn
    <3>1. p[n].kind \in Terminal /\ Over(n - 1)
      BY <1>4, <1>6, <1>9, <2>1, <2>2
    <3>2. Over(n)
      BY <1>5, <1>6, <3>1
    <3> QED BY <1>3, <2>2, <3>2
  <2>3. CASE h[n] # NoTurn
    <3>1. Holding(n - 1)
      BY <1>4, <1>6, <2>1, <2>3
    <3>2. Holding(n)
      BY <1>6, <2>1, <3>1
    <3> QED BY <1>3, <2>3, <3>2
  <2> QED BY <2>2, <2>3
<1> QED BY <1>7, <1>8, <1>9

\* What a fork takes is no longer than the file.
LEMMA PointsWithin ==
    ASSUME NEW events \in Seq(Records), NEW point \in Points(events), point >= 0
    PROVE  point \in 0..Len(events)
<1> DEFINE ends == {i \in DOMAIN events : events[i].kind \in Terminal}
           own(t) == {i \in DOMAIN events : events[i].turn = t /\ events[i].kind \in Terminal}
<1>1. Len(events) \in Nat /\ DOMAIN events = 1..Len(events)
  OBVIOUS
<1>2. CASE point = LatestPoint(events)
  <2>1. CASE ends = {}
    <3>1. point \in {0, -1}
      BY <1>2, <2>1 DEF LatestPoint
    <3>2. point = 0
      BY <3>1
    <3> QED BY <1>1, <3>2
  <2>2. CASE ends # {}
    <3>1. point = Max(ends)
      BY <1>2, <2>2 DEF LatestPoint
    <3> DEFINE n == Len(events)
    <3>2. n \in Nat /\ ends \in SUBSET (1..n)
      BY <1>1
    <3> HIDE DEF ends, n
    <3>3. Max(ends) \in ends
      BY <2>2, <3>2, GreatestIn
    <3>4. point \in 1..n
      BY <3>1, <3>2, <3>3
    <3> QED BY <3>2, <3>4 DEF n
  <2> QED BY <2>1, <2>2
<1>3. ASSUME NEW t \in Turns, point = TurnEndPoint(events, t)
      PROVE  point \in 0..Len(events)
  <2>1. CASE own(t) = {}
    <3>1. point = -1
      BY <1>3, <2>1 DEF TurnEndPoint
    <3> QED BY <3>1
  <2>2. CASE own(t) # {}
    <3>1. point = Min(own(t))
      BY <1>3, <2>2 DEF TurnEndPoint
    <3>2. own(t) \in SUBSET Nat /\ own(t) \subseteq 1..Len(events)
      BY <1>1
    <3> HIDE DEF own
    <3>3. Min(own(t)) \in own(t)
      BY <2>2, <3>2, LeastIn
    <3> QED BY <1>1, <3>1, <3>2, <3>3
  <2> QED BY <2>1, <2>2
<1>4. CASE point \in DOMAIN events
  BY <1>1, <1>4
<1> QED BY <1>2, <1>3, <1>4 DEF Points

\* What a fork accepts has whole turns, unless one of them was interrupted.
LEMMA ForkWholeMeans == BranchInv => ForkWhole
<1> SUFFICES ASSUME BranchInv, NEW point \in Points(Stored), Accepts(Stored, point),
                    NEW t \in Turns, OwnIn(t, UpTo(Stored, point)), ~EndsIn(t, UpTo(Stored, point)),
                    ~ \E u \in Turns : In(u, UpTo(Stored, point)) /\ Interrupted(u)
             PROVE  FALSE
  BY DEF ForkWhole
<1> DEFINE p == UpTo(Stored, point)
<1>1. /\ Stored \in Seq(Records) /\ DOMAIN Stored = 1..Len(Stored) /\ Len(Stored) \in Nat
      /\ \A i \in DOMAIN Stored : base + i \in DOMAIN log /\ Stored[i] = log[base + i]
      /\ base \in Nat
  BY StoredAt DEF BranchInv, TurnsSound, Records
<1>2. point \in 0..Len(Stored) /\ IsStablePrefix(p)
  BY <1>1, PointsWithin DEF Accepts
<1>3. p \in Seq(Records) /\ DOMAIN p = 1..point /\ \A i \in 1..point : p[i] = Stored[i]
  BY <1>1, <1>2, UpToIs
<1>4. \A i \in DOMAIN p : i \in DOMAIN Stored /\ i \in Nat /\ p[i] = log[base + i]
  BY <1>1, <1>2, <1>3
<1>5. \A i \in DOMAIN p : p[i].turn \in Turns
  <2> SUFFICES ASSUME NEW i \in DOMAIN p PROVE p[i].turn \in Turns
    OBVIOUS
  <2>1. p[i] \in Records
    <3> HIDE DEF p
    <3>1. p \in Seq(Records)
      BY <1>3
    <3> QED BY <3>1
  <2> QED BY <2>1 DEF Records
<1>6. \A i \in DOMAIN p : p[i].turn \in Whole
  <2>1. \A i \in DOMAIN p : In(p[i].turn, p)
    BY DEF In
  <2> HIDE DEF p
  <2> QED BY <1>5, <2>1 DEF Whole, p
<1>7. WholeTurns /\ NoTurn \notin Turns
  BY AbsentAssumption DEF BranchInv, TurnsSound, Sequence
<1> HIDE DEF p
<1>8. ASSUME NEW i \in DOMAIN p, NEW j \in DOMAIN p, NEW k \in DOMAIN p,
             i < j, j < k, p[i].turn = p[k].turn, p[j].kind # "report", p[k].kind # "report"
      PROVE  p[j].turn = p[i].turn
  <2>1. base + i \in DOMAIN log /\ base + j \in Owned /\ base + k \in Owned
    BY <1>1, <1>4, <1>8 DEF Owned
  <2>2. base + i < base + j /\ base + j < base + k
    BY <1>1, <1>4, <1>8
  <2>3. log[base + i].turn = log[base + k].turn /\ {log[base + i].turn, log[base + j].turn} \subseteq Whole
    BY <1>4, <1>6, <1>8
  <2>4. log[base + j].turn = log[base + i].turn
    BY <1>7, <2>1, <2>2, <2>3 DEF WholeTurns
  <2> QED BY <1>4, <2>4
<1>9. OwnIn(t, p) /\ ~EndsIn(t, p)
  BY DEF p
<1> QED BY <1>2, <1>3, <1>7, <1>8, <1>9, StableEnds

\* The latest point is accepted, and leaves only the holder's events out.
LEMMA ForkLatestMeans == BranchInv => ForkLatest
<1> DEFINE point == LatestPoint(Stored)
           before == {t \in Turns \ {owner} : In(t, Stored)}
           ends == {i \in DOMAIN Stored : Stored[i].kind \in Terminal}
           p == UpTo(Stored, point)
<1> SUFFICES ASSUME BranchInv, point >= 0,
                    \A t \in before : ClosedIn(t, Stored),
                    \A i, j \in DOMAIN Stored : i < j /\ Stored[i].turn = owner => Stored[j].turn = owner
             PROVE  /\ IsStablePrefix(p)
                    /\ \A i \in DOMAIN Stored : i > point => Stored[i].turn = owner
  BY DEF ForkLatest, Accepts
<1>1. /\ Stored \in Seq(Records) /\ DOMAIN Stored = 1..Len(Stored) /\ Len(Stored) \in Nat
  BY StoredAt DEF BranchInv, TurnsSound, Records
<1>2. point \in 0..Len(Stored)
  BY <1>1, PointsWithin DEF Points
<1>3. p \in Seq(Records) /\ Len(p) = point /\ DOMAIN p = 1..point /\ \A i \in 1..point : p[i] = Stored[i]
  BY <1>1, <1>2, UpToIs
<1>4. /\ \A i \in ends : i <= point
      /\ point = 0 \/ point \in ends
  <2>1. CASE ends = {}
    <3>1. point \in {0, -1}
      BY <2>1 DEF LatestPoint
    <3> HIDE DEF point
    <3> QED BY <1>2, <2>1, <3>1
  <2>2. CASE ends # {}
    <3>1. point = Max(ends)
      BY <2>2 DEF LatestPoint
    <3>2. ends \in SUBSET (1..Len(Stored))
      BY <1>1
    <3> HIDE DEF ends, point
    <3> QED BY <1>1, <2>2, <3>1, <3>2, GreatestIn
  <2> QED BY <2>1, <2>2
<1>5. ASSUME NEW i \in DOMAIN Stored, Stored[i].turn # owner
      PROVE  \E j \in ends : Stored[j].turn = Stored[i].turn /\ i <= j
  <2>1. Stored[i] \in Records
    BY <1>1
  <2>2. Stored[i].turn \in before
    BY <1>5, <2>1 DEF In, Records
  <2>3. ClosedIn(Stored[i].turn, Stored)
    BY <2>2
  <2> QED BY <2>3 DEF ClosedIn
<1> HIDE DEF ends, before
<1>6. ASSUME NEW i \in DOMAIN Stored, i > point PROVE Stored[i].turn = owner
  <2> HIDE DEF point
  <2> SUFFICES ASSUME Stored[i].turn # owner PROVE FALSE
    OBVIOUS
  <2>1. PICK j \in ends : i <= j
    BY <1>5
  <2>2. j \in 1..Len(Stored)
    BY <1>1, <2>1 DEF ends
  <2> QED BY <1>1, <1>2, <1>4, <1>6, <2>1, <2>2
<1>7. OpenTurn(p) = NoTurn
  <2>0. Len(p) \in Nat
    BY <1>2, <1>3
  <2>1. PICK h : Scan(h, p, Len(p)) /\ OpenTurn(p) = h[Len(p)]
    BY <2>0, OpenTurnIs
  <2> HIDE DEF point, p
  <2> SUFFICES ASSUME h[Len(p)] # NoTurn PROVE FALSE
    BY <2>1
  <2>2. PICK k \in DOMAIN p : /\ p[k].turn = h[Len(p)] /\ p[k].kind \notin Terminal
           /\ \A j \in DOMAIN p : k < j /\ p[j].turn = h[Len(p)] => p[j].kind \notin Terminal
    BY <1>3, <2>1, OpenSince
  <2>3. k \in 1..point /\ k \in DOMAIN Stored /\ p[k] = Stored[k] /\ k \in Nat /\ point \in Nat
    BY <1>1, <1>2, <1>3, <2>2
  <2>4. CASE Stored[k].turn # owner
    <3>1. PICK j \in ends : Stored[j].turn = Stored[k].turn /\ k <= j
      BY <1>5, <2>3, <2>4
    <3>2. j \in 1..Len(Stored) /\ Stored[j].kind \in Terminal /\ j <= point
      BY <1>1, <1>4, <3>1 DEF ends
    <3>3. j \in DOMAIN p /\ p[j] = Stored[j]
      BY <1>2, <1>3, <3>2
    <3>4. k # j
      BY <2>2, <2>3, <3>2
    <3>5. k < j
      BY <2>3, <3>1, <3>2, <3>4
    <3> QED BY <2>2, <2>3, <3>1, <3>2, <3>3, <3>5
  <2>5. CASE Stored[k].turn = owner
    <3>1. point \in ends /\ point \in DOMAIN Stored /\ Stored[point].kind \in Terminal /\ p[point] = Stored[point]
      BY <1>2, <1>3, <1>4, <2>3 DEF ends
    <3>2. k # point
      BY <2>2, <2>3, <3>1
    <3>3. k < point /\ point \in DOMAIN p
      BY <1>3, <2>3, <3>2
    <3>4. Stored[point].turn = owner
      BY <2>3, <2>5, <3>1, <3>3
    <3> QED BY <2>2, <2>3, <2>5, <3>1, <3>3, <3>4
  <2> QED BY <2>4, <2>5
<1> QED BY <1>6, <1>7 DEF IsStablePrefix

\* A fork takes whole turns, and from the latest point all that are over
\* (fork_session, is_stable_prefix).
THEOREM ForkExactHolds == BranchSpec => []ForkExact
<1>1. BranchInv => ForkExact
  BY ForkWholeMeans, ForkLatestMeans DEF ForkExact
<1> QED BY BranchInvariant, <1>1, PTL
=============================================================================
