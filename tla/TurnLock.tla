------------------------------ MODULE TurnLock ------------------------------
(***************************************************************************)
(* crates/adapter-storage/src/session/turn_lock.rs: the lock that gives    *)
(* one turn at a time the right to append to a session, across processes.  *)
(*                                                                         *)
(* Two files take part.  active-turn.lock carries the operating system's   *)
(* exclusive lock (variable lock); active-turn.json carries the payload    *)
(* that tells a contender who holds it (variable meta).  They are separate *)
(* files, so every step below that touches one leaves the other alone, and *)
(* calls of other threads and processes run between any two steps.         *)
(***************************************************************************)
EXTENDS Naturals

CONSTANTS Turns,      \* turn ids; each makes one acquisition call
          Pids,       \* process incarnations
          PidOf,      \* the process in which each turn runs
          NoTurn,     \* the lock file is not locked
          Absent,     \* active-turn.json does not exist
          Torn,       \* active-turn.json exists but does not parse (being written)
          Attempts    \* LOCK_PAYLOAD_RETRY_ATTEMPTS, 8 in the code

ASSUME PidAssumption == PidOf \in [Turns -> Pids]
ASSUME AttemptsAssumption == Attempts \in Nat \ {0}
ASSUME MetaAssumption ==
    /\ {NoTurn, Absent, Torn} \cap Turns = {}
    /\ Absent # Torn

VARIABLES pc,         \* where each turn's call or lease stands
          lock,       \* holder of the exclusive lock on active-turn.lock
          meta,       \* content of active-turn.json: a turn, Absent or Torn
          seen,       \* the payload a contender has read
          attempt     \* loop counter of read_busy_payload_or_retry

lockVars == <<pc, lock, meta, seen, attempt>>

Writing == {"truncate", "write"}               \* write_lock_payload
Contending == {"read", "confirm", "retry"}     \* read_busy_payload_or_retry
Calling == Writing \cup Contending
Holding == Writing \cup {"leased"}
Over == {"gone", "busy", "unreadable", "ioerror", "crashed"}

TypeOK ==
    /\ pc \in [Turns -> {"idle", "leased", "unlink"} \cup Calling \cup Over]
    /\ lock \in Turns \cup {NoTurn}
    /\ meta \in Turns \cup {Absent, Torn}
    /\ seen \in [Turns -> Turns \cup {NoTurn}]
    /\ attempt \in [Turns -> 0..Attempts]

LockInit ==
    /\ pc = [t \in Turns |-> "idle"]
    /\ lock = NoTurn
    /\ meta = Absent
    /\ seen = [t \in Turns |-> NoTurn]
    /\ attempt = [t \in Turns |-> 0]

Goto(t, label) == pc' = [pc EXCEPT ![t] = label]

\* A successful try_lock_exclusive() continues in acquire_turn_lease.
Take(t) ==
    /\ lock = NoTurn
    /\ lock' = t
    /\ Goto(t, "truncate")

-----------------------------------------------------------------------------

\* try_acquire_session_turn_at_paths: open active-turn.lock, first attempt.
TryAcquire(t) ==
    /\ pc[t] = "idle"
    /\ \/ Take(t)
       \/ lock # NoTurn /\ Goto(t, "read") /\ UNCHANGED lock
    /\ UNCHANGED <<meta, seen, attempt>>

\* write_lock_payload opens active-turn.json with create + truncate ...
TruncatePayload(t) ==
    /\ pc[t] = "truncate"
    /\ meta' = Torn
    /\ Goto(t, "write")
    /\ UNCHANGED <<lock, seen, attempt>>

\* ... and writes and syncs the payload; the caller receives Acquired(lease).
WritePayload(t) ==
    /\ pc[t] = "write"
    /\ meta' = t
    /\ Goto(t, "leased")
    /\ UNCHANGED <<lock, seen, attempt>>

\* Bug: the error path leaks the locked File.
WriteFailsLeaking(t) ==
    /\ pc[t] \in Writing
    /\ Goto(t, "ioerror")
    /\ UNCHANGED <<lock, meta, seen, attempt>>

\* Either half of write_lock_payload may fail: the error is returned and the
\* File is dropped, which closes it and gives the lock up.
WriteFails(t) ==
    /\ pc[t] \in Writing
    /\ lock' = NoTurn
    /\ Goto(t, "ioerror")
    /\ UNCHANGED <<meta, seen, attempt>>

\* read_lock_payload: a readable payload is confirmed, NotFound and Parse
\* errors are retryable.
ReadPayload(t) ==
    /\ pc[t] = "read"
    /\ \/ /\ meta \in Turns
          /\ seen' = [seen EXCEPT ![t] = meta]
          /\ Goto(t, "confirm")
       \/ /\ meta \in {Absent, Torn}
          /\ Goto(t, "retry")
          /\ UNCHANGED seen
    /\ UNCHANGED <<lock, meta, attempt>>

\* The payload was read while the lock may have been given up: take over, or
\* answer Busy(payload) if the lock is still contended.
Confirm(t) ==
    /\ pc[t] = "confirm"
    /\ \/ Take(t)
       \/ lock # NoTurn /\ Goto(t, "busy") /\ UNCHANGED lock
    /\ UNCHANGED <<meta, seen, attempt>>

\* Unreadable payload: take over a free lock, else sleep and read again, and
\* after the last attempt return the retryable error itself.
Retry(t) ==
    /\ pc[t] = "retry"
    /\ \/ Take(t) /\ UNCHANGED attempt
       \/ /\ lock # NoTurn
          /\ attempt' = [attempt EXCEPT ![t] = @ + 1]
          /\ Goto(t, IF attempt[t] + 1 < Attempts THEN "read" ELSE "unreadable")
          /\ UNCHANGED lock
    /\ UNCHANGED <<meta, seen>>

\* Drop of FileSessionTurnLease, first half: file.unlock() ...
Unlock(t) ==
    /\ pc[t] = "leased"
    /\ lock' = NoTurn
    /\ Goto(t, "unlink")
    /\ UNCHANGED <<meta, seen, attempt>>

\* ... second half: remove_file(active-turn.json), whoever wrote it.
Unlink(t) ==
    /\ pc[t] = "unlink"
    /\ meta' = Absent
    /\ Goto(t, "gone")
    /\ UNCHANGED <<lock, seen, attempt>>

\* A process dies: its calls and leases vanish, the operating system releases
\* its lock, active-turn.json stays as it is.
ProcessDies(p) ==
    LET mine == {t \in Turns : PidOf[t] = p}
    IN  /\ pc' = [t \in Turns |-> IF t \in mine THEN "crashed" ELSE pc[t]]
        /\ lock' = IF lock \in mine THEN NoTurn ELSE lock
        /\ UNCHANGED <<meta, seen, attempt>>

\* One synchronous step of a call in progress.
CallStep(t) ==
    \/ TruncatePayload(t) \/ WritePayload(t) \/ WriteFails(t)
    \/ ReadPayload(t) \/ Confirm(t) \/ Retry(t)

LockNext ==
    \/ \E t \in Turns : TryAcquire(t) \/ CallStep(t) \/ Unlock(t) \/ Unlink(t)
    \/ \E p \in Pids : ProcessDies(p)

LockSpec == LockInit /\ [][LockNext]_lockVars

-----------------------------------------------------------------------------
\* A turn that is writing its payload or has been handed a lease owns the lock
\* file: no two turns write one session (module comment, "会话写入互斥").
LeaseExclusive == \A t \in Turns : pc[t] \in Holding => lock = t

\* While a lease lives, the payload file is the holder's own or missing: a
\* contender is never told of another turn by a lease that completed, although
\* writing, dropping and crashing turns all touch the same file.
LeasePayload == \A t \in Turns : pc[t] = "leased" => meta \in {t, Absent}

\* A contender is turned away (Busy or the retryable error) only in a step in
\* which some other turn holds the lock: stale payloads of crashed processes
\* and payloads read before a release never keep a free session busy.
RefusedOnlyWhileHeld ==
    [][\A t \in Turns :
          pc[t] \in Contending /\ pc'[t] \in {"busy", "unreadable"}
             => lock \notin {t, NoTurn}]_lockVars

\* The abstract contract: the owner is the holder of the lock file.
answerOf ==
    [t \in Turns |->
        IF pc[t] = "leased" THEN "granted"
        ELSE IF pc[t] \in {"busy", "unreadable"} THEN "refused"
        ELSE IF pc[t] = "ioerror" THEN "failed"
        ELSE IF pc[t] \in {"unlink", "gone", "crashed"} THEN "ended"
        ELSE "none"]

Lease == INSTANCE TurnLease WITH owner <- lock, answer <- answerOf

\* The two-file protocol implements the contract of TurnLease: nobody is
\* granted a session somebody else owns, and nobody is refused a free one.
ImplementsLease == Lease!LeaseSpec
=============================================================================
