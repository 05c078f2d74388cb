--------------------------- MODULE BatchAppender ---------------------------
(***************************************************************************)
(* crates/adapter-storage/src/session/batch_appender.rs over event_log.rs: *)
(* how the events of one session reach its JSONL file.  Callers queue an   *)
(* event and await its reply; a flush cycle sleeps 50 ms, takes the whole  *)
(* queue and writes it in a blocking task under the log mutex; a           *)
(* checkpoint pauses the queue, closes the EventLog and rewrites the file  *)
(* (checkpoint.rs) without that mutex.  Each action is what runs under one *)
(* lock or one system call; everything else interleaves.                   *)
(***************************************************************************)
EXTENDS Naturals, SequencesExt, Selection

CONSTANTS Events,        \* events the callers append
          Prev,          \* the event whose reply a caller awaits first, or NoEvent
          NoEvent,
          Checkpointers, \* calls of checkpoint_with_payload
          MaxFailures    \* bound on the I/O failures and panics of a run

ASSUME PrevAssumption == Prev \in [Events -> Events \cup {NoEvent}] /\ NoEvent \notin Events
ASSUME FailureAssumption == MaxFailures \in Nat

VARIABLES
    queue, flushScheduled, draining, paused,   \* BatchAppenderState
    sleeping,     \* flush cycles in their 50 ms window
    cycles,       \* flush cycles that took a batch: [batch, stage, first]
    reply,        \* what the caller of each event has been told
    handle,       \* the Option<EventLog>: "closed", "live", or "stale" (its file is unlinked)
    nextSeq,      \* EventLog::next_storage_seq
    buffer,       \* entries left in its BufWriter by a failed flush
    log,          \* content of the session file
    file,         \* "present", or "rotated" while the path does not exist
    poisoned,     \* whether a flush job has panicked under the log mutex
    ck,           \* stage of each checkpointer
    ckSeq,        \* checkpoint_storage_seq of its payload
    covers,       \* events its payload has applied
    tail,         \* tail events it has read
    leftover,     \* buffer of the EventLog it is dropping
    covered,      \* events the committed snapshot has applied
    failures

stateVars == <<queue, flushScheduled, draining, paused, sleeping>>
logVars == <<handle, nextSeq, buffer, log, file, poisoned>>
ckVars == <<ckSeq, covers, tail, leftover, covered>>
vars == <<stateVars, logVars, ckVars, cycles, reply, ck, failures>>

Entry(s, e) == [seq |-> s, ev |-> e]
Entries == [seq : Nat, ev : Events]

\* A reply is a record so that one field always tells how far the call is.
Pending(kind) == [kind |-> kind, seq |-> 0]
Acked(e) == reply[e].kind = "ok"
Answered(e) == reply[e].kind \in {"ok", "err"}

Stages == {"idle", "check", "wait", "take", "drop", "read", "commit", "rotate",
           "promote", "resume", "done", "panicked"}
InBarrier == {"take", "drop", "read", "commit", "rotate", "promote", "resume", "panicked"}

Init ==
    /\ queue = <<>>
    /\ flushScheduled = FALSE
    /\ draining = FALSE
    /\ paused = FALSE
    /\ sleeping = 0
    /\ cycles = {}
    /\ reply = [e \in Events |-> Pending("none")]
    /\ handle = "closed"
    /\ nextSeq = 0
    /\ buffer = <<>>
    /\ log = <<>>
    /\ file = "present"
    /\ poisoned = FALSE
    /\ ck = [c \in Checkpointers |-> "idle"]
    /\ ckSeq = [c \in Checkpointers |-> 0]
    /\ covers = [c \in Checkpointers |-> {}]
    /\ tail = <<>>
    /\ leftover = <<>>
    /\ covered = {}
    /\ failures = 0

\* notify.notify_waiters(): every waiting checkpointer looks again.
Notify == ck' = [c \in Checkpointers |-> IF ck[c] = "wait" THEN "check" ELSE ck[c]]

\* spawn_flush_cycle, when the condition says so.
ScheduleIf(needed) ==
    /\ flushScheduled' = (flushScheduled \/ needed)
    /\ sleeping' = IF needed THEN sleeping + 1 ELSE sleeping

-----------------------------------------------------------------------------

\* append: queue the event, start a flush cycle unless one sleeps or the queue
\* is paused, and await the reply.
Append_(e) ==
    /\ reply[e].kind = "none"
    /\ Prev[e] # NoEvent => Answered(Prev[e])
    /\ queue' = Append(queue, e)
    /\ reply' = [reply EXCEPT ![e] = Pending("queued")]
    /\ ScheduleIf(~paused /\ ~flushScheduled)
    /\ UNCHANGED <<draining, paused, cycles, logVars, ck, ckVars, failures>>

\* Bug: a batch is acknowledged when it is taken.
FlushTakesAcking ==
    /\ sleeping > 0
    /\ ~paused /\ queue # <<>>
    /\ sleeping' = sleeping - 1
    /\ draining' = TRUE
    /\ flushScheduled' = FALSE
    /\ cycles' = cycles \cup {[batch |-> queue, stage |-> "write", first |-> 0]}
    /\ queue' = <<>>
    /\ reply' = [e \in Events |-> IF e \in ToSet(queue) THEN Pending("ok") ELSE reply[e]]
    /\ UNCHANGED <<paused, logVars, ck, ckVars, failures>>

\* flush_pending_batch: take the whole queue.  flush_scheduled is cleared, so
\* an append during the write starts a second, overlapping cycle.  Its early
\* return for a paused or empty queue never happens (NoIdleFlush).
FlushTakes ==
    /\ sleeping > 0
    /\ ~paused /\ queue # <<>>
    /\ sleeping' = sleeping - 1
    /\ draining' = TRUE
    /\ flushScheduled' = FALSE
    /\ cycles' = cycles \cup {[batch |-> queue, stage |-> "write", first |-> 0]}
    /\ queue' = <<>>
    /\ UNCHANGED <<paused, reply, logVars, ck, ckVars, failures>>

Move(c, stage, first) ==
    cycles' = (cycles \ {c}) \cup {[batch |-> c.batch, stage |-> stage, first |-> first]}

\* last_storage_seq_from_path + 1: an empty file counts from 1 again.
SeqAfter(s) == IF s = <<>> THEN 1 ELSE s[Len(s)].seq + 1

FirstSeq == IF handle = "closed" THEN SeqAfter(log) ELSE nextSeq
Numbered(c) == [i \in DOMAIN c.batch |-> Entry(FirstSeq + i - 1, c.batch[i])]
CanWrite == ~poisoned /\ (handle # "closed" \/ file = "present")
Opened == IF handle = "closed" THEN "live" ELSE handle
Land(entries) == log' = IF handle = "stale" THEN log ELSE log \o entries

\* Bug: the replies are numbered from where the counter stands afterwards.
WriteBatchMisnumbered(c) ==
    /\ c.stage = "write"
    /\ CanWrite
    /\ Land(buffer \o Numbered(c))
    /\ buffer' = <<>>
    /\ nextSeq' = FirstSeq + Len(c.batch)
    /\ handle' = Opened
    /\ Move(c, "ok", FirstSeq + Len(c.batch))
    /\ UNCHANGED <<stateVars, reply, file, poisoned, ck, ckVars, failures>>

\* append_batch_blocking under the log mutex: open the log if it is closed,
\* number the events, write, flush and sync.
WriteBatch(c) ==
    /\ c.stage = "write"
    /\ CanWrite
    /\ Land(buffer \o Numbered(c))
    /\ buffer' = <<>>
    /\ nextSeq' = FirstSeq + Len(c.batch)
    /\ handle' = Opened
    /\ Move(c, "ok", FirstSeq)
    /\ UNCHANGED <<stateVars, reply, file, poisoned, ck, ckVars, failures>>

\* append_batch fails, or the job panics and poisons the mutex: the first m
\* events are numbered, part of their entries is in the file and the rest stays
\* in the BufWriter.
WriteFails(c) ==
    /\ c.stage = "write"
    /\ CanWrite
    /\ failures < MaxFailures
    /\ \E m \in 0..Len(c.batch) :
         /\ LET entries == buffer \o SubSeq(Numbered(c), 1, m)
            IN  \E k \in 0..Len(entries) :
                  /\ Land(SubSeq(entries, 1, k))
                  /\ buffer' = SubSeq(entries, k + 1, Len(entries))
         /\ nextSeq' = FirstSeq + m
    /\ handle' = Opened
    /\ poisoned' \in BOOLEAN
    /\ failures' = failures + 1
    /\ Move(c, "err", 0)
    /\ UNCHANGED <<stateVars, reply, file, ck, ckVars>>

\* Nothing is written: the mutex is poisoned, or open_event_log fails because
\* the path is missing or because of an I/O error.
OpenFails(c) ==
    /\ c.stage = "write"
    /\ \/ poisoned /\ UNCHANGED failures
       \/ handle = "closed" /\ file = "rotated" /\ UNCHANGED failures
       \/ handle = "closed" /\ failures < MaxFailures /\ failures' = failures + 1
    /\ Move(c, "err", 0)
    /\ UNCHANGED <<stateVars, reply, logVars, ck, ckVars>>

\* The one-shot replies of a batch.
SendReplies(c) ==
    /\ c.stage \in {"ok", "err"}
    /\ reply' = [e \in Events |->
          IF \E i \in DOMAIN c.batch : c.batch[i] = e
          THEN LET i == CHOOSE i \in DOMAIN c.batch : c.batch[i] = e
               IN  IF c.stage = "ok" THEN [kind |-> "ok", seq |-> c.first + i - 1]
                                     ELSE Pending("err")
          ELSE reply[e]]
    /\ Move(c, "finish", 0)
    /\ UNCHANGED <<stateVars, logVars, ck, ckVars, failures>>

\* The end of flush_pending_batch: clear draining (whoever else still writes),
\* reschedule if something waits, notify.
FinishCycle(c) ==
    /\ c.stage = "finish"
    /\ cycles' = cycles \ {c}
    /\ draining' = FALSE
    /\ ScheduleIf(~paused /\ ~flushScheduled /\ queue # <<>>)
    /\ Notify
    /\ UNCHANGED <<queue, paused, reply, logVars, ckVars, failures>>

-----------------------------------------------------------------------------
At(k, stage) == ck' = [ck EXCEPT ![k] = stage]

\* checkpoint_with_payload is called with a payload that ends at an answered
\* event; what its projection has applied is in covers.
Request(k) ==
    /\ ck[k] = "idle"
    /\ \E e \in Events :
         /\ Acked(e)
         /\ ckSeq' = [ckSeq EXCEPT ![k] = reply[e].seq]
         /\ covers' = [covers EXCEPT ![k] =
                covered \cup {d \in Events : Acked(d) /\ reply[d].seq <= reply[e].seq}]
    /\ At(k, "check")
    /\ UNCHANGED <<stateVars, cycles, reply, logVars, tail, leftover, covered, failures>>

\* pause_and_drain: pause an idle, empty queue, or wait to be notified.
PauseAndDrain(k) ==
    /\ ck[k] = "check"
    /\ IF ~paused /\ ~draining /\ queue = <<>>
       THEN paused' = TRUE /\ At(k, "take")
       ELSE At(k, "wait") /\ UNCHANGED paused
    /\ UNCHANGED <<queue, flushScheduled, draining, sleeping, cycles, reply, logVars, ckVars, failures>>

\* The blocking task takes the EventLog out under the mutex ...
TakeLog(k) ==
    /\ ck[k] = "take" /\ ~poisoned
    /\ handle' = "closed"
    /\ leftover' = IF handle = "live" THEN buffer ELSE <<>>
    /\ buffer' = <<>>
    /\ At(k, "drop")
    /\ UNCHANGED <<stateVars, cycles, reply, nextSeq, log, file, poisoned, ckSeq, covers, tail, covered,
                   failures>>

\* ... and drops it after the mutex is released: EventLog::drop flushes, and
\* only warns when that fails.
DropLog(k) ==
    /\ ck[k] = "drop"
    /\ \E n \in 0..Len(leftover) :
         /\ \/ n = Len(leftover) /\ UNCHANGED failures
            \/ n < Len(leftover) /\ failures < MaxFailures /\ failures' = failures + 1
         /\ log' = log \o SubSeq(leftover, 1, n)
    /\ leftover' = <<>>
    /\ At(k, "read")
    /\ UNCHANGED <<stateVars, cycles, reply, handle, nextSeq, buffer, file, poisoned, ckSeq, covers, tail,
                   covered>>

\* persist_checkpoint reads the events after checkpoint_storage_seq ...
ReadTail(k) ==
    /\ ck[k] = "read"
    /\ tail' = Selected(log, {i \in DOMAIN log : log[i].seq > ckSeq[k]})
    /\ At(k, "commit")
    /\ UNCHANGED <<stateVars, cycles, reply, logVars, ckSeq, covers, leftover, covered, failures>>

\* ... commits the snapshot and its marker ...
CommitSnapshot(k) ==
    /\ ck[k] = "commit"
    /\ covered' = covers[k]
    /\ At(k, "rotate")
    /\ UNCHANGED <<stateVars, cycles, reply, logVars, ckSeq, covers, tail, leftover, failures>>

\* ... moves the session file away ...
RotateLog(k) ==
    /\ ck[k] = "rotate"
    /\ file' = "rotated"
    /\ At(k, "promote")
    /\ UNCHANGED <<stateVars, cycles, reply, handle, nextSeq, buffer, log, poisoned, ckVars, failures>>

\* ... and the rewritten one in its place.  An EventLog opened meanwhile keeps
\* the file that was moved away and is then removed.
PromoteTail(k) ==
    /\ ck[k] = "promote"
    /\ file' = "present"
    /\ log' = tail
    /\ handle' = IF handle = "live" THEN "stale" ELSE handle
    /\ At(k, "resume")
    /\ UNCHANGED <<stateVars, cycles, reply, nextSeq, buffer, poisoned, ckVars, failures>>

\* The path or the mutex cannot be had, or an I/O error ends the rewrite early;
\* after a rotation the old file is restored.
RewriteFails(k) ==
    /\ ck[k] \in {"take", "read", "commit", "rotate", "promote"}
    /\ \/ ck[k] = "take" /\ poisoned /\ UNCHANGED failures
       \/ failures < MaxFailures /\ failures' = failures + 1
    /\ file' = "present"
    /\ At(k, "resume")
    /\ UNCHANGED <<stateVars, cycles, reply, handle, nextSeq, buffer, log, poisoned, ckVars>>

\* Bug: events queued behind the barrier are left for the next append.
ResumeWithoutSchedule(k) ==
    /\ ck[k] = "resume"
    /\ paused' = FALSE
    /\ ck' = [c \in Checkpointers |->
                IF c = k THEN "done" ELSE IF ck[c] = "wait" THEN "check" ELSE ck[c]]
    /\ UNCHANGED <<queue, flushScheduled, draining, sleeping, cycles, reply, logVars, ckVars,
                   failures>>

\* resume_after_barrier.
Resume(k) ==
    /\ ck[k] = "resume"
    /\ paused' = FALSE
    /\ ScheduleIf(~flushScheduled /\ queue # <<>>)
    /\ ck' = [c \in Checkpointers |->
                IF c = k THEN "done" ELSE IF ck[c] = "wait" THEN "check" ELSE ck[c]]
    /\ UNCHANGED <<queue, draining, cycles, reply, logVars, ckVars, failures>>

\* The blocking task panics: the join error returns before resume_after_barrier.
Panic(k) ==
    /\ ck[k] \in {"take", "drop", "read", "commit", "rotate", "promote"}
    /\ failures < MaxFailures
    /\ failures' = failures + 1
    /\ At(k, "panicked")
    /\ UNCHANGED <<stateVars, cycles, reply, logVars, ckVars>>

-----------------------------------------------------------------------------
CycleStep(c) ==
    \/ WriteBatch(c) \/ WriteFails(c) \/ OpenFails(c)
    \/ SendReplies(c) \/ FinishCycle(c)

BarrierStep(k) ==
    \/ PauseAndDrain(k) \/ TakeLog(k) \/ DropLog(k) \/ ReadTail(k) \/ CommitSnapshot(k)
    \/ RotateLog(k) \/ PromoteTail(k) \/ RewriteFails(k) \/ Resume(k)

Next ==
    \/ \E e \in Events : Append_(e)
    \/ FlushTakes
    \/ \E c \in cycles : CycleStep(c)
    \/ \E k \in Checkpointers : Request(k) \/ BarrierStep(k) \/ Panic(k)

Spec == Init /\ [][Next]_vars

\* Spawned tasks and blocking jobs are run by the runtime; a timer fires.
\* Callers owe nothing: no append and no checkpoint need ever be requested.
FairSpec ==
    /\ Spec
    /\ WF_vars(FlushTakes)
    /\ WF_vars(\E c \in cycles : CycleStep(c))
    /\ \A k \in Checkpointers : WF_vars(BarrierStep(k))

-----------------------------------------------------------------------------
\* A queued event is never forgotten: unless a checkpoint holds the queue, a
\* flush cycle that will take it is asleep.  No timer re-examines the queue, so
\* a missed schedule would leave the caller waiting for ever.
NoStrandedAppend == queue # <<>> /\ ~paused => flushScheduled /\ sleeping > 0

\* A cycle that wakes has work: a checkpoint never pauses the queue under it.
NoIdleFlush == sleeping > 0 => queue # <<>> /\ ~paused

\* flush_scheduled is exactly "one cycle sleeps": never two timers, never a
\* flag without its timer.
OneSleeper == sleeping = IF flushScheduled THEN 1 ELSE 0

\* One checkpoint rewrites the file at a time, and the queue is paused for as
\* long as it does.
BarrierExclusive ==
    /\ paused <=> \E k \in Checkpointers : ck[k] \in InBarrier
    /\ \A k, m \in Checkpointers : ck[k] \in InBarrier /\ ck[m] \in InBarrier => k = m

\* A checkpoint job panicked and left the queue paused for ever.
BarrierDied == \E k \in Checkpointers : ck[k] = "panicked"

\* Every caller is answered, whatever the overlap of cycles and barriers,
\* unless a panicked checkpoint job has left the queue paused: time and again
\* nobody waits (each call is made once).
EveryAppendAnswered == []<>(BarrierDied \/ \A e \in Events : reply[e].kind # "queued")

\* No checkpoint has rewritten the file yet.
NoRewrite == \A k \in Checkpointers : ck[k] \notin InBarrier \cup {"done"}

\* Until a checkpoint rewrites the file an acknowledged event is in it, under
\* the number its caller was told: failed batches, half-written batches and
\* overlapping cycles included.
AckedInFile ==
    NoRewrite => \A e \in Events : Acked(e) => Entry(reply[e].seq, e) \in ToSet(log)

\* A caller that awaits one append before the next finds its events in that
\* order in the file, although batches of different cycles overlap.
ProgramOrder ==
    \A i, j \in DOMAIN log :
        Acked(log[i].ev) /\ Prev[log[j].ev] = log[i].ev => i < j
=============================================================================
