------------------------ MODULE BatchAppenderProofs ------------------------
(***************************************************************************)
(* Theorems about BatchAppender for any events, checkpointers and failure  *)
(* bound: the scheduling flags never lose a queued event, and checkpoints  *)
(* never overlap.                                                          *)
(*                                                                         *)
(* No part is inductive alone.  That a queued event has its flush cycle    *)
(* needs the flag to mean exactly one sleeping cycle (OneSleeper), for a   *)
(* second timer would be left with an empty queue; that a cycle finds work *)
(* (NoIdleFlush) needs an event queued whenever one sleeps, which is why a *)
(* barrier over an empty queue pauses no sleeping cycle; and that events   *)
(* queued under a pause are picked up needs the pause to belong to one     *)
(* checkpointer that will resume it (BarrierExclusive).                    *)
(*                                                                         *)
(* What a caller was told is in the file (AckedInFile) because, before the *)
(* first checkpoint, there is one log and its file only grows.             *)
(*                                                                         *)
(* That a caller's acknowledged events keep their order (ProgramOrder)     *)
(* needs neither: whatever lands later was not acknowledged when it landed *)
(* (Loose, Unanswered), and when it is acknowledged its caller has not yet *)
(* made the next call (CallOrder), so the next event is nowhere (Issued).  *)
(***************************************************************************)
EXTENDS BatchAppender, FiniteSetTheorems, SequenceTheorems, TLAPS

Flags ==
    /\ flushScheduled \in BOOLEAN
    /\ paused \in BOOLEAN
    /\ sleeping \in {0, 1}
    /\ queue \in Seq(Events)
    /\ ck \in [Checkpointers -> Stages]

IInv == Flags /\ OneSleeper /\ NoStrandedAppend /\ NoIdleFlush /\ BarrierExclusive

LEMMA InitIInv == Init => IInv
<1> SUFFICES ASSUME Init PROVE IInv
  OBVIOUS
<1>1. queue = <<>> /\ queue \in Seq(Events)
  BY DEF Init
<1>2. flushScheduled = FALSE /\ paused = FALSE /\ sleeping = 0
  BY DEF Init
<1>3. ck \in [Checkpointers -> Stages] /\ \A k \in Checkpointers : ck[k] \notin InBarrier
  BY DEF Init, Stages, InBarrier
<1>4. Flags
  BY <1>1, <1>2, <1>3 DEF Flags
<1>5. OneSleeper /\ NoStrandedAppend /\ NoIdleFlush
  BY <1>1, <1>2 DEF OneSleeper, NoStrandedAppend, NoIdleFlush
<1>6. BarrierExclusive
  BY <1>2, <1>3 DEF BarrierExclusive
<1> QED
  BY <1>4, <1>5, <1>6 DEF IInv

\* Starting a flush cycle only while none sleeps keeps the flag exact.
LEMMA ScheduleKeepsFlags ==
    ASSUME IInv, NEW needed \in BOOLEAN, needed => ~flushScheduled, ScheduleIf(needed)
    PROVE  /\ flushScheduled' \in BOOLEAN
           /\ sleeping' \in {0, 1}
           /\ OneSleeper'
           /\ flushScheduled \/ needed => flushScheduled' /\ sleeping' > 0
           /\ sleeping' > 0 => flushScheduled \/ needed
<1>1. flushScheduled \in BOOLEAN /\ OneSleeper
  BY DEF IInv, Flags
<1>2. CASE needed
  <2>1. flushScheduled = FALSE /\ sleeping = 0
    BY <1>1, <1>2 DEF OneSleeper
  <2>2. sleeping' = 1
    BY <1>2, <2>1 DEF ScheduleIf
  <2>3. flushScheduled' = TRUE
    BY <1>2, Zenon DEF ScheduleIf
  <2>4. sleeping' \in {0, 1} /\ sleeping' > 0 /\ OneSleeper'
    BY <2>2, <2>3 DEF OneSleeper
  <2> QED
    BY <1>2, <2>3, <2>4
<1>3. CASE ~needed
  <2>1. flushScheduled' = flushScheduled /\ sleeping' = sleeping
    BY <1>1, <1>3 DEF ScheduleIf
  <2>2. CASE flushScheduled = TRUE
    <3>1. sleeping = 1
      BY <2>2, <1>1 DEF OneSleeper
    <3>2. sleeping' \in {0, 1} /\ sleeping' > 0 /\ OneSleeper'
      BY <2>1, <2>2, <3>1 DEF OneSleeper
    <3> QED
      BY <2>1, <2>2, <3>2
  <2>3. CASE flushScheduled = FALSE
    <3>1. sleeping = 0
      BY <2>3, <1>1 DEF OneSleeper
    <3>2. sleeping' \in {0, 1} /\ ~(sleeping' > 0) /\ OneSleeper'
      BY <2>1, <2>3, <3>1 DEF OneSleeper
    <3> QED
      BY <1>3, <2>1, <2>3, <3>2
  <2> QED
    BY <1>1, <2>2, <2>3
<1> QED
  BY <1>2, <1>3

\* A cycle that wakes is the only one, and takes the flag with it.
LEMMA WakeKeepsFlags ==
    ASSUME IInv, sleeping > 0, sleeping' = sleeping - 1, flushScheduled' = FALSE
    PROVE  sleeping' = 0 /\ OneSleeper'
<1>1. sleeping \in {0, 1}
  BY DEF IInv, Flags
<1>2. sleeping' = 0
  BY <1>1
<1> QED
  BY <1>2 DEF OneSleeper

\* Waking the waiters moves no checkpointer into or out of the barrier.
LEMMA NotifyKeepsBarrier ==
    ASSUME ck \in [Checkpointers -> Stages], Notify
    PROVE  /\ ck' \in [Checkpointers -> Stages]
           /\ \A k \in Checkpointers : ck'[k] \in InBarrier <=> ck[k] \in InBarrier
  BY DEF Notify, Stages, InBarrier

\* An action that leaves the flags, the queue and the barrier alone.
LEMMA QuietKeepsIInv == IInv /\ UNCHANGED <<stateVars, ck>> => IInv'
  BY DEF IInv, Flags, OneSleeper, NoStrandedAppend, NoIdleFlush, BarrierExclusive, stateVars

\* A checkpointer that moves within the barrier, or outside it.
LEMMA MoveKeepsIInv ==
    ASSUME IInv, UNCHANGED stateVars,
           NEW k \in Checkpointers, NEW stage \in Stages, At(k, stage),
           ck[k] \in InBarrier <=> stage \in InBarrier
    PROVE  IInv'
<1>1. ck' \in [Checkpointers -> Stages]
      /\ \A m \in Checkpointers : ck'[m] \in InBarrier <=> ck[m] \in InBarrier
  BY DEF IInv, Flags, At
<1>2. Flags' /\ OneSleeper' /\ NoStrandedAppend' /\ NoIdleFlush'
  BY <1>1 DEF IInv, Flags, OneSleeper, NoStrandedAppend, NoIdleFlush, stateVars
<1>3. BarrierExclusive'
  BY <1>1 DEF IInv, BarrierExclusive, stateVars, InBarrier
<1> QED
  BY <1>2, <1>3 DEF IInv

LEMMA AppendKeepsIInv == \A e \in Events : IInv /\ Append_(e) => IInv'
<1> SUFFICES ASSUME NEW e \in Events, IInv, Append_(e) PROVE IInv'
  OBVIOUS
<1>1. queue' \in Seq(Events) /\ queue' # <<>>
  BY DEF Append_, IInv, Flags
<1>2. /\ flushScheduled' \in BOOLEAN
      /\ sleeping' \in {0, 1}
      /\ OneSleeper'
      /\ flushScheduled \/ (~paused /\ ~flushScheduled) => flushScheduled' /\ sleeping' > 0
      /\ sleeping' > 0 => flushScheduled \/ (~paused /\ ~flushScheduled)
  BY ScheduleKeepsFlags DEF Append_
<1>3. Flags'
  BY <1>1, <1>2 DEF Append_, IInv, Flags
<1>4. NoStrandedAppend'
  BY <1>2 DEF Append_, NoStrandedAppend
<1>6. NoIdleFlush'
  <2>1. flushScheduled => ~paused
    BY DEF IInv, OneSleeper, NoIdleFlush
  <2>2. sleeping' > 0 => ~paused
    BY <1>2, <2>1
  <2> QED
    BY <1>1, <2>2 DEF NoIdleFlush, Append_
<1>5. BarrierExclusive'
  BY DEF Append_, IInv, BarrierExclusive
<1> QED
  BY <1>2, <1>3, <1>4, <1>5, <1>6 DEF IInv

LEMMA FlushTakesKeepsIInv == IInv /\ FlushTakes => IInv'
<1> SUFFICES ASSUME IInv, FlushTakes PROVE IInv'
  OBVIOUS
<1>1. queue' = <<>> /\ queue' \in Seq(Events)
  BY DEF FlushTakes
<1>5. sleeping' = 0 /\ OneSleeper' /\ flushScheduled' = FALSE
  BY WakeKeepsFlags DEF FlushTakes
<1>2. Flags' /\ OneSleeper'
  BY <1>1, <1>5 DEF FlushTakes, IInv, Flags
<1>3. NoStrandedAppend' /\ NoIdleFlush'
  BY <1>1, <1>5 DEF NoStrandedAppend, NoIdleFlush
<1>4. BarrierExclusive'
  BY DEF FlushTakes, IInv, BarrierExclusive
<1> QED
  BY <1>2, <1>3, <1>4 DEF IInv

LEMMA FinishKeepsIInv == \A c \in cycles : IInv /\ FinishCycle(c) => IInv'
<1> SUFFICES ASSUME NEW c \in cycles, IInv, FinishCycle(c) PROVE IInv'
  OBVIOUS
<1>1. ck' \in [Checkpointers -> Stages]
      /\ \A k \in Checkpointers : ck'[k] \in InBarrier <=> ck[k] \in InBarrier
  BY NotifyKeepsBarrier DEF FinishCycle, IInv, Flags
<1> DEFINE needed == ~paused /\ ~flushScheduled /\ queue # <<>>
<1>2. /\ flushScheduled' \in BOOLEAN
      /\ sleeping' \in {0, 1}
      /\ OneSleeper'
      /\ flushScheduled \/ needed => flushScheduled' /\ sleeping' > 0
      /\ sleeping' > 0 => flushScheduled \/ needed
  BY ScheduleKeepsFlags DEF FinishCycle
<1>3. Flags'
  BY <1>1, <1>2 DEF FinishCycle, IInv, Flags
<1>4. NoStrandedAppend'
  BY <1>2 DEF FinishCycle, NoStrandedAppend
<1>6. NoIdleFlush'
  <2>1. flushScheduled => queue # <<>> /\ ~paused
    BY DEF IInv, OneSleeper, NoIdleFlush
  <2>2. sleeping' > 0 => queue # <<>> /\ ~paused
    BY <1>2, <2>1
  <2> QED
    BY <2>2 DEF NoIdleFlush, FinishCycle
<1>5. BarrierExclusive'
  BY <1>1 DEF FinishCycle, IInv, BarrierExclusive
<1> QED
  BY <1>2, <1>3, <1>4, <1>5, <1>6 DEF IInv

LEMMA PauseKeepsIInv == \A k \in Checkpointers : IInv /\ PauseAndDrain(k) => IInv'
<1> SUFFICES ASSUME NEW k \in Checkpointers, IInv, PauseAndDrain(k) PROVE IInv'
  OBVIOUS
<1>1. CASE ~paused /\ ~draining /\ queue = <<>>
  <2>1. paused' = TRUE /\ ck' = [ck EXCEPT ![k] = "take"] /\ queue' = <<>>
    BY <1>1 DEF PauseAndDrain, At
  <2>2. ck' \in [Checkpointers -> Stages] /\ ck'[k] = "take"
        /\ \A m \in Checkpointers : m # k => ck'[m] = ck[m]
    BY <2>1 DEF IInv, Flags, Stages
  <2>3. \A m \in Checkpointers : ck[m] \notin InBarrier
    BY <1>1 DEF IInv, BarrierExclusive
  <2>4. \A m \in Checkpointers : ck'[m] \in InBarrier <=> m = k
    BY <2>2, <2>3 DEF InBarrier
  <2>5. BarrierExclusive'
    BY <2>1, <2>4 DEF BarrierExclusive
  <2>6. Flags' /\ OneSleeper' /\ NoStrandedAppend'
    BY <2>1, <2>2 DEF PauseAndDrain, IInv, Flags, OneSleeper, NoStrandedAppend
  <2>7. NoIdleFlush'
    BY <1>1 DEF PauseAndDrain, IInv, NoIdleFlush
  <2> QED
    BY <2>5, <2>6, <2>7 DEF IInv
<1>2. CASE ~(~paused /\ ~draining /\ queue = <<>>)
  <2>1. At(k, "wait") /\ UNCHANGED stateVars /\ ck[k] = "check"
    BY <1>2 DEF PauseAndDrain, stateVars
  <2> QED
    BY <2>1, MoveKeepsIInv DEF Stages, InBarrier
<1> QED
  BY <1>1, <1>2

LEMMA ResumeKeepsIInv == \A k \in Checkpointers : IInv /\ Resume(k) => IInv'
<1> SUFFICES ASSUME NEW k \in Checkpointers, IInv, Resume(k) PROVE IInv'
  OBVIOUS
<1>1. ck' \in [Checkpointers -> Stages] /\ ck'[k] = "done"
      /\ \A m \in Checkpointers : m # k => (ck'[m] \in InBarrier <=> ck[m] \in InBarrier)
  BY DEF Resume, IInv, Flags, Stages, InBarrier
<1>2. ck[k] \in InBarrier
  BY DEF Resume, InBarrier
<1>3. \A m \in Checkpointers : ck'[m] \notin InBarrier
  <2> SUFFICES ASSUME NEW m \in Checkpointers PROVE ck'[m] \notin InBarrier
    OBVIOUS
  <2>1. CASE m = k
    BY <2>1, <1>1 DEF InBarrier
  <2>2. CASE m # k
    BY <2>2, <1>1, <1>2 DEF IInv, BarrierExclusive
  <2> QED
    BY <2>1, <2>2
<1>4. BarrierExclusive'
  BY <1>3 DEF Resume, BarrierExclusive
<1> DEFINE needed == ~flushScheduled /\ queue # <<>>
<1>5. /\ flushScheduled' \in BOOLEAN
      /\ sleeping' \in {0, 1}
      /\ OneSleeper'
      /\ flushScheduled \/ needed => flushScheduled' /\ sleeping' > 0
      /\ sleeping' > 0 => flushScheduled \/ needed
  BY ScheduleKeepsFlags DEF Resume
<1>6. Flags'
  BY <1>1, <1>5 DEF Resume, IInv, Flags
<1>7. NoStrandedAppend'
  BY <1>5 DEF Resume, NoStrandedAppend
<1>8. NoIdleFlush'
  <2>1. flushScheduled => queue # <<>>
    BY DEF IInv, OneSleeper, NoIdleFlush
  <2>2. sleeping' > 0 => queue # <<>>
    BY <1>5, <2>1
  <2> QED
    BY <2>2 DEF NoIdleFlush, Resume
<1> QED
  BY <1>4, <1>5, <1>6, <1>7, <1>8 DEF IInv

\* The stages between pausing and resuming stay inside the barrier.
LEMMA RewriteKeepsIInv ==
    \A k \in Checkpointers :
        IInv /\ BarrierStep(k) /\ ~PauseAndDrain(k) /\ ~Resume(k) => IInv'
<1> SUFFICES ASSUME NEW k \in Checkpointers, IInv,
                    BarrierStep(k), ~PauseAndDrain(k), ~Resume(k)
             PROVE  IInv'
  OBVIOUS
<1>1. /\ UNCHANGED stateVars
      /\ ck[k] \in InBarrier
      /\ \E stage \in InBarrier : At(k, stage)
  BY DEF BarrierStep, TakeLog, DropLog, ReadTail, CommitSnapshot, RotateLog, PromoteTail,
         RewriteFails, InBarrier
<1>2. InBarrier \subseteq Stages
  BY DEF InBarrier, Stages
<1> QED
  BY <1>1, <1>2, MoveKeepsIInv

LEMMA StepIInv == IInv /\ [Next]_vars => IInv'
<1> SUFFICES ASSUME IInv, [Next]_vars PROVE IInv'
  OBVIOUS
<1>1. ASSUME NEW e \in Events, Append_(e) PROVE IInv'
  BY <1>1, AppendKeepsIInv
<1>3. CASE FlushTakes
  BY <1>3, FlushTakesKeepsIInv
<1>4. ASSUME NEW c \in cycles, CycleStep(c) PROVE IInv'
  <2>1. CASE FinishCycle(c)
    BY <2>1, FinishKeepsIInv
  <2>2. CASE ~FinishCycle(c)
    <3>1. UNCHANGED <<stateVars, ck>>
      BY <1>4, <2>2 DEF CycleStep, WriteBatch, WriteFails, OpenFails, SendReplies
    <3> QED
      BY <3>1, QuietKeepsIInv
  <2> QED
    BY <2>1, <2>2
<1>5. ASSUME NEW k \in Checkpointers, Request(k) PROVE IInv'
  <2>1. UNCHANGED stateVars /\ At(k, "check") /\ ck[k] = "idle"
    BY <1>5 DEF Request
  <2> QED
    BY <2>1, MoveKeepsIInv DEF Stages, InBarrier
<1>6. ASSUME NEW k \in Checkpointers, Panic(k) PROVE IInv'
  <2>1. UNCHANGED stateVars /\ At(k, "panicked") /\ ck[k] \in InBarrier
    BY <1>6 DEF Panic, InBarrier
  <2> QED
    BY <2>1, MoveKeepsIInv DEF Stages, InBarrier
<1>7. ASSUME NEW k \in Checkpointers, BarrierStep(k) PROVE IInv'
  BY <1>7, PauseKeepsIInv, ResumeKeepsIInv, RewriteKeepsIInv
<1>8. CASE UNCHANGED vars
  <2>1. UNCHANGED <<stateVars, ck>>
    BY <1>8 DEF vars
  <2> QED
    BY <2>1, QuietKeepsIInv
<1> QED
  BY <1>1, <1>3, <1>4, <1>5, <1>6, <1>7, <1>8 DEF Next

LEMMA IInvHolds == Spec => []IInv
  BY InitIInv, StepIInv, PTL DEF Spec

\* A queued event always has a sleeping flush cycle or a barrier that will
\* look at the queue when it resumes.
THEOREM NoStrandedAppendHolds == Spec => []NoStrandedAppend
<1>1. IInv => NoStrandedAppend
  BY DEF IInv
<1> QED
  BY <1>1, IInvHolds, PTL

\* A cycle that wakes always finds a non-empty, unpaused queue.
THEOREM NoIdleFlushHolds == Spec => []NoIdleFlush
<1>1. IInv => NoIdleFlush
  BY DEF IInv
<1> QED
  BY <1>1, IInvHolds, PTL

\* The flag flush_scheduled is exactly the presence of a sleeping cycle.
THEOREM OneSleeperHolds == Spec => []OneSleeper
<1>1. IInv => OneSleeper
  BY DEF IInv
<1> QED
  BY <1>1, IInvHolds, PTL

\* Checkpoints exclude one another, and pause the queue while they rewrite.
THEOREM BarrierExclusiveHolds == Spec => []BarrierExclusive
<1>1. IInv => BarrierExclusive
  BY DEF IInv
<1> QED
  BY <1>1, IInvHolds, PTL

-----------------------------------------------------------------------------
\* As long as no checkpoint has begun: the log is open or closed but never
\* that of another file, it only grows, and what a cycle is about to
\* acknowledge is in it under the number the reply will carry.
Replies(c) == \A i \in DOMAIN c.batch : Entry(c.first + i - 1, c.batch[i]) \in ToSet(log)

CycleSound(c) ==
    /\ c.batch \in Seq(Events)
    /\ c.first \in Nat
    /\ c.stage = "ok" => Replies(c)

FileSound ==
    /\ handle \in {"closed", "live"}
    /\ nextSeq \in Nat
    /\ log \in Seq(Entries)
    /\ buffer \in Seq(Entries)
    /\ \A c \in cycles : CycleSound(c)
    /\ reply = [e \in Events |-> reply[e]]
    /\ \A e \in Events : Acked(e) => Entry(reply[e].seq, e) \in ToSet(log)

AckedInv == NoRewrite => FileSound

LEMMA Grows ==
    ASSUME NEW old \in Seq(Entries), NEW new \in Seq(Entries)
    PROVE  /\ old \o new \in Seq(Entries)
           /\ ToSet(old) \subseteq ToSet(old \o new)
           /\ ToSet(new) \subseteq ToSet(old \o new)
<1> DEFINE both == old \o new
<1>1. ASSUME NEW i \in DOMAIN old PROVE i \in DOMAIN both /\ both[i] = old[i]
  OBVIOUS
<1>2. ASSUME NEW i \in DOMAIN new
      PROVE  Len(old) + i \in DOMAIN both /\ both[Len(old) + i] = new[i]
  OBVIOUS
<1>3. both \in Seq(Entries)
  OBVIOUS
<1> HIDE DEF both
<1>4. ToSet(old) \subseteq ToSet(both)
  BY <1>1 DEF ToSet
<1>5. ToSet(new) \subseteq ToSet(both)
  BY <1>2 DEF ToSet
<1> QED
  BY <1>3, <1>4, <1>5 DEF both

\* A step in which the log grows leaves the other cycles and the replies sound.
LEMMA GrownKeeps ==
    ASSUME FileSound, ToSet(log) \subseteq ToSet(log')
    PROVE  /\ \A c \in cycles : CycleSound(c)'
           /\ reply' = reply => \A e \in Events : Acked(e)' => Entry(reply'[e].seq, e) \in ToSet(log')
<1>1. ASSUME NEW c \in cycles PROVE CycleSound(c)'
  BY DEF FileSound, CycleSound, Replies
<1> QED
  BY <1>1 DEF FileSound, Acked

LEMMA InitAcked == Init => FileSound
<1> SUFFICES ASSUME Init PROVE FileSound
  OBVIOUS
<1>1. handle = "closed" /\ nextSeq = 0 /\ log = <<>> /\ buffer = <<>> /\ cycles = {}
  BY DEF Init
<1>2. reply = [e \in Events |-> Pending("none")]
  BY DEF Init
<1>3. Pending("none").kind # "ok"
  BY DEF Pending
<1>4. reply = [e \in Events |-> reply[e]] /\ \A e \in Events : ~Acked(e)
  BY <1>2, <1>3 DEF Acked
<1> QED
  BY <1>1, <1>4 DEF FileSound

\* Nothing of the file, the cycles and the replies changes.
LEMMA AloneKeeps == FileSound /\ UNCHANGED <<handle, nextSeq, log, buffer, cycles, reply>> => FileSound'
BY DEF FileSound, CycleSound, Replies, Acked

\* The numbers a batch gets follow those in the file.
LEMMA NumberedSound ==
    ASSUME FileSound, NEW c \in cycles
    PROVE  /\ FirstSeq \in Nat
           /\ Numbered(c) \in Seq(Entries) /\ Len(Numbered(c)) = Len(c.batch)
           /\ \A i \in DOMAIN c.batch : /\ i \in DOMAIN Numbered(c)
                                        /\ Numbered(c)[i] = Entry(FirstSeq + i - 1, c.batch[i])
<1>1. FirstSeq \in Nat
  <2>1. log # <<>> => log[Len(log)] \in Entries
    BY DEF FileSound
  <2> QED
    BY <2>1 DEF FileSound, FirstSeq, SeqAfter, Entries
<1>2. c.batch \in Seq(Events)
  BY DEF FileSound, CycleSound
<1>3. \A i \in DOMAIN c.batch : Entry(FirstSeq + i - 1, c.batch[i]) \in Entries
  BY <1>1, <1>2 DEF Entry, Entries
<1> QED
  BY <1>1, <1>2, <1>3 DEF Numbered

\* A cycle moves to another stage; if it has to acknowledge its batch, that
\* batch is in the file.
LEMMA MovesKeeps ==
    ASSUME FileSound, ToSet(log) \subseteq ToSet(log'), NEW c \in cycles, NEW stage, NEW first \in Nat,
           Move(c, stage, first),
           stage = "ok" => \A i \in DOMAIN c.batch : Entry(first + i - 1, c.batch[i]) \in ToSet(log')
    PROVE  \A d \in cycles' : CycleSound(d)'
<1>1. \A d \in cycles : CycleSound(d)'
  BY GrownKeeps
<1> DEFINE new == [batch |-> c.batch, stage |-> stage, first |-> first]
<1>2. c.batch \in Seq(Events)
  BY DEF FileSound, CycleSound
<1>3. new.batch = c.batch /\ new.stage = stage /\ new.first = first
  OBVIOUS
<1>4. cycles' \subseteq cycles \cup {new}
  BY DEF Move
<1> HIDE DEF new
<1>5. ASSUME NEW d \in {new} PROVE CycleSound(d)'
  BY <1>2, <1>3 DEF CycleSound, Replies
<1> QED
  BY <1>1, <1>4, <1>5

LEMMA WriteKeeps ==
    ASSUME FileSound, NEW c \in cycles, WriteBatch(c) \/ WriteFails(c)
    PROVE  FileSound'
<1>1. /\ FirstSeq \in Nat
      /\ Numbered(c) \in Seq(Entries) /\ Len(Numbered(c)) = Len(c.batch)
      /\ \A i \in DOMAIN c.batch : /\ i \in DOMAIN Numbered(c)
                                   /\ Numbered(c)[i] = Entry(FirstSeq + i - 1, c.batch[i])
  BY NumberedSound
<1>2. /\ log \in Seq(Entries) /\ buffer \in Seq(Entries) /\ handle \in {"closed", "live"}
      /\ c.batch \in Seq(Events) /\ reply = [e \in Events |-> reply[e]]
  BY DEF FileSound, CycleSound
<1> DEFINE entries == buffer \o Numbered(c)
<1>3. entries \in Seq(Entries) /\ ToSet(Numbered(c)) \subseteq ToSet(entries)
  BY <1>1, <1>2, Grows
<1>4. handle' \in {"closed", "live"} /\ reply' = reply
  BY <1>1, <1>2 DEF WriteBatch, WriteFails, Opened
<1>5. CASE WriteBatch(c)
  <2>1. log' = log \o entries /\ buffer' = <<>> /\ Move(c, "ok", FirstSeq) /\ nextSeq' \in Nat
    BY <1>1, <1>2, <1>5 DEF WriteBatch, Land
  <2> HIDE DEF entries
  <2>2. log' \in Seq(Entries) /\ ToSet(log) \subseteq ToSet(log') /\ ToSet(entries) \subseteq ToSet(log')
    BY <1>2, <1>3, <2>1, Grows
  <2>3. \A i \in DOMAIN c.batch : Entry(FirstSeq + i - 1, c.batch[i]) \in ToSet(log')
    BY <1>1, <1>3, <2>2 DEF ToSet
  <2>4. \A d \in cycles' : CycleSound(d)'
    BY <1>1, <2>1, <2>2, <2>3, MovesKeeps
  <2>5. \A e \in Events : Acked(e)' => Entry(reply'[e].seq, e) \in ToSet(log')
    BY <1>4, <2>2, GrownKeeps
  <2> QED
    BY <1>2, <1>4, <2>1, <2>2, <2>4, <2>5 DEF FileSound
<1>6. CASE WriteFails(c)
  <2>7. PICK m \in 0..Len(c.batch) :
          /\ \E k \in 0..Len(buffer \o SubSeq(Numbered(c), 1, m)) :
               /\ Land(SubSeq(buffer \o SubSeq(Numbered(c), 1, m), 1, k))
               /\ buffer' = SubSeq(buffer \o SubSeq(Numbered(c), 1, m), k + 1,
                                   Len(buffer \o SubSeq(Numbered(c), 1, m)))
          /\ nextSeq' = FirstSeq + m
    BY <1>6 DEF WriteFails
  <2> DEFINE part == buffer \o SubSeq(Numbered(c), 1, m)
  <2>1. PICK k \in 0..Len(part) : /\ log' = log \o SubSeq(part, 1, k)
                                  /\ buffer' = SubSeq(part, k + 1, Len(part))
    BY <1>2, <2>7 DEF Land
  <2>2. Move(c, "err", 0) /\ nextSeq' \in Nat
    BY <1>1, <1>2, <1>6, <2>7 DEF WriteFails
  <2>8. part \in Seq(Entries)
    <3>1. m <= Len(Numbered(c)) /\ SubSeq(Numbered(c), 1, m) \in Seq(Entries)
      BY <1>1, <1>2
    <3> QED
      BY <1>2, <3>1
  <2> HIDE DEF part
  <2>3. SubSeq(part, 1, k) \in Seq(Entries) /\ buffer' \in Seq(Entries)
    BY <2>8, <2>1
  <2>4. log' \in Seq(Entries) /\ ToSet(log) \subseteq ToSet(log')
    BY <1>2, <2>1, <2>3, Grows
  <2>5. \A d \in cycles' : CycleSound(d)'
    BY <2>2, <2>4, MovesKeeps
  <2>6. \A e \in Events : Acked(e)' => Entry(reply'[e].seq, e) \in ToSet(log')
    BY <1>4, <2>4, GrownKeeps
  <2> QED
    BY <1>2, <1>4, <2>2, <2>3, <2>4, <2>5, <2>6 DEF FileSound
<1> QED
  BY <1>5, <1>6

\* A reply says ok only for events of a batch that is in the file.
LEMMA RepliesKeep ==
    ASSUME FileSound, NEW c \in cycles, SendReplies(c)
    PROVE  FileSound'
<1>1. UNCHANGED <<handle, nextSeq, log, buffer>> /\ Move(c, "finish", 0)
  BY DEF SendReplies, logVars
<1>2. \A d \in cycles' : CycleSound(d)'
  BY <1>1, MovesKeeps
<1>3. reply' = [e \in Events |-> reply'[e]]
  BY DEF SendReplies
<1>4. ASSUME NEW e \in Events, Acked(e)' PROVE Entry(reply'[e].seq, e) \in ToSet(log')
  <2>1. CASE \E i \in DOMAIN c.batch : c.batch[i] = e
    <3> DEFINE i == CHOOSE i \in DOMAIN c.batch : c.batch[i] = e
    <3>1. i \in DOMAIN c.batch /\ c.batch[i] = e
      BY <2>1
    <3>2. reply'[e] = IF c.stage = "ok" THEN [kind |-> "ok", seq |-> c.first + i - 1]
                                        ELSE Pending("err")
      BY <2>1 DEF SendReplies
    <3> HIDE DEF i
    <3>3. c.stage = "ok"
      BY <1>4, <3>2 DEF Acked, Pending
    <3>4. Entry(c.first + i - 1, c.batch[i]) \in ToSet(log)
      BY <3>1, <3>3 DEF FileSound, CycleSound, Replies
    <3> QED
      BY <1>1, <3>1, <3>2, <3>3, <3>4
  <2>2. CASE ~\E i \in DOMAIN c.batch : c.batch[i] = e
    <3>1. reply'[e] = reply[e]
      BY <2>2 DEF SendReplies
    <3> QED
      BY <1>1, <1>4, <3>1 DEF FileSound, Acked
  <2> QED
    BY <2>1, <2>2
<1> QED
  BY <1>1, <1>2, <1>3, <1>4 DEF FileSound

LEMMA StepAcked == IInv /\ AckedInv /\ [Next]_vars => AckedInv'
<1> SUFFICES ASSUME IInv, AckedInv, [Next]_vars, NoRewrite' PROVE FileSound'
  BY DEF AckedInv
<1>1. ck \in [Checkpointers -> Stages]
  BY DEF IInv, Flags
<1>2. ASSUME NEW e \in Events, Append_(e) PROVE FileSound'
  <2>1. UNCHANGED <<ck, handle, nextSeq, log, buffer, cycles>>
    BY <1>2 DEF Append_, logVars
  <2>2. FileSound
    BY <2>1 DEF AckedInv, NoRewrite
  <2>3. reply' = [reply EXCEPT ![e] = Pending("queued")]
    BY <1>2 DEF Append_
  <2>4. /\ reply' = [d \in Events |-> reply'[d]]
        /\ \A d \in Events : Acked(d)' => Acked(d) /\ reply'[d] = reply[d]
    BY <2>2, <2>3 DEF FileSound, Acked, Pending
  <2> QED
    BY <2>1, <2>2, <2>4 DEF FileSound, CycleSound, Replies
<1>3. CASE FlushTakes
  <2>1. UNCHANGED <<ck, handle, nextSeq, log, buffer, reply>>
    BY <1>3 DEF FlushTakes, logVars
  <2>2. FileSound
    BY <2>1 DEF AckedInv, NoRewrite
  <2>3. PICK new : new = [batch |-> queue, stage |-> "write", first |-> 0]
    OBVIOUS
  <2>4. cycles' = cycles \cup {new} /\ queue \in Seq(Events)
    BY <1>3, <2>3 DEF FlushTakes, IInv, Flags
  <2>7. CycleSound(new)'
    BY <2>3, <2>4 DEF CycleSound
  <2>5. \A c \in cycles : CycleSound(c)'
    BY <2>1, <2>2, GrownKeeps
  <2>6. \A c \in cycles' : CycleSound(c)'
    <3> SUFFICES ASSUME NEW c \in cycles' PROVE CycleSound(c)'
      OBVIOUS
    <3> QED
      BY <2>4, <2>5, <2>7
  <2> QED
    BY <2>1, <2>2, <2>6 DEF FileSound, Acked
<1>4. ASSUME NEW c \in cycles, CycleStep(c) PROVE FileSound'
  <2>1. CASE FinishCycle(c)
    <3>1. \A k \in Checkpointers : ck'[k] \in InBarrier \cup {"done"} <=> ck[k] \in InBarrier \cup {"done"}
      BY <1>1, <2>1 DEF FinishCycle, Notify, InBarrier
    <3>2. FileSound
      BY <3>1 DEF AckedInv, NoRewrite
    <3>3. cycles' \subseteq cycles /\ UNCHANGED <<handle, nextSeq, log, buffer, reply>>
      BY <2>1 DEF FinishCycle, logVars
    <3> QED
      BY <3>2, <3>3 DEF FileSound, CycleSound, Replies, Acked
  <2>2. CASE ~FinishCycle(c)
    <3>1. ck' = ck
      BY <1>4, <2>2 DEF CycleStep, WriteBatch, WriteFails, OpenFails, SendReplies
    <3>2. FileSound
      BY <3>1 DEF AckedInv, NoRewrite
    <3>3. CASE OpenFails(c)
      <4>1. UNCHANGED <<handle, nextSeq, log, buffer, reply>> /\ Move(c, "err", 0)
        BY <3>3 DEF OpenFails, logVars
      <4>2. \A d \in cycles' : CycleSound(d)'
        BY <3>2, <4>1, MovesKeeps
      <4> QED
        BY <3>2, <4>1, <4>2 DEF FileSound, Acked
    <3> QED
      BY <1>4, <2>2, <3>2, <3>3, WriteKeeps, RepliesKeep DEF CycleStep
  <2> QED
    BY <2>1, <2>2
<1>5. ASSUME NEW k \in Checkpointers, Request(k) \/ BarrierStep(k) \/ Panic(k) PROVE FileSound'
  <2>1. ck[k] \in {"idle", "check"} /\ UNCHANGED <<handle, nextSeq, log, buffer, cycles, reply>>
    <3>1. ck'[k] \notin InBarrier \cup {"done"}
      BY DEF NoRewrite
    <3>2. Request(k) \/ PauseAndDrain(k)
      BY <1>1, <1>5, <3>1 DEF BarrierStep, Panic, TakeLog, DropLog, ReadTail, CommitSnapshot,
            RotateLog, PromoteTail, RewriteFails, Resume, At, InBarrier
    <3> QED
      BY <3>2 DEF Request, PauseAndDrain, logVars
  <2>2. \A m \in Checkpointers : ck[m] \notin InBarrier \cup {"done"}
    <3>1. \A m \in Checkpointers : m # k => ck'[m] = ck[m]
      BY <1>1, <1>5, <2>1 DEF Request, BarrierStep, Panic, PauseAndDrain, TakeLog, DropLog,
            ReadTail, CommitSnapshot, RotateLog, PromoteTail, RewriteFails, Resume, At
    <3> QED
      BY <2>1, <3>1 DEF NoRewrite, InBarrier
  <2>3. FileSound
    BY <2>2 DEF AckedInv, NoRewrite
  <2> QED
    BY <2>1, <2>3, AloneKeeps
<1>6. CASE UNCHANGED vars
  <2>1. UNCHANGED <<ck, handle, nextSeq, log, buffer, cycles, reply>>
    BY <1>6 DEF vars, logVars
  <2>2. FileSound
    BY <2>1 DEF AckedInv, NoRewrite
  <2> QED
    BY <2>1, <2>2, AloneKeeps
<1> QED
  BY <1>2, <1>3, <1>4, <1>5, <1>6 DEF Next

\* Before the first checkpoint an acknowledged event is in the session's file under
\* the number its caller was told, however flush cycles overlap and writes fail
\* halfway (batch_appender.rs, event_log.rs).
THEOREM AckedInFileHolds == Spec => []AckedInFile
<1>1. Init => AckedInv
  BY InitAcked DEF AckedInv
<1>2. Spec => []AckedInv
  BY <1>1, StepAcked, IInvHolds, PTL DEF Spec
<1>3. AckedInv => AckedInFile
  BY DEF AckedInv, AckedInFile, FileSound
<1> QED
  BY <1>2, <1>3, PTL

-----------------------------------------------------------------------------
\* Picking elements of a sequence by their places.
\* The ranks of the places K run from 1 to their number, each once.
LEMMA Ranks ==
    ASSUME NEW n \in Nat, NEW K \in SUBSET (1..n)
    PROVE  /\ Cardinality(K) \in Nat
           /\ \A k \in K : Rank(K, k) \in 1..Cardinality(K)
           /\ \A j, k \in K : Rank(K, j) = Rank(K, k) => j = k
           /\ \A i \in 1..Cardinality(K) : \E k \in K : Rank(K, k) = i
  <1> DEFINE Upto(k) == {j \in K : j <= k}
  <1>0. IsFiniteSet(1..n)
    BY FS_Interval
  <1>1. IsFiniteSet(K) /\ Cardinality(K) \in Nat
    BY <1>0, FS_Subset, FS_CardinalityType
  <1>2. \A k \in K : IsFiniteSet(Upto(k)) /\ Cardinality(Upto(k)) \in Nat
                     /\ Cardinality(Upto(k)) <= Cardinality(K)
    <2> SUFFICES ASSUME NEW k \in K PROVE IsFiniteSet(Upto(k)) /\ Cardinality(Upto(k)) \in Nat
                     /\ Cardinality(Upto(k)) <= Cardinality(K)
      OBVIOUS
    <2>1. Upto(k) \in SUBSET K
      OBVIOUS
    <2> HIDE DEF Upto
    <2> QED
      BY <1>1, <2>1, FS_Subset, FS_CardinalityType
  <1>3. \A k \in K : Cardinality(Upto(k)) # 0
    <2> TAKE k \in K
    <2>1. k \in Upto(k)
      OBVIOUS
    <2> HIDE DEF Upto
    <2> QED
      BY <1>2, <2>1, FS_EmptySet
  <1>4. \A j, k \in K : j < k => Cardinality(Upto(j)) # Cardinality(Upto(k))
    <2> SUFFICES ASSUME NEW j \in K, NEW k \in K, j < k, Cardinality(Upto(j)) = Cardinality(Upto(k))
                 PROVE FALSE
      OBVIOUS
    <2>1. \A i \in K : i \in Int
      OBVIOUS
    <2>2. Upto(j) \subseteq Upto(k)
      <3> SUFFICES ASSUME NEW i \in K, i <= j PROVE i <= k
        OBVIOUS
      <3> QED
        BY <2>1
    <2>3. k \in Upto(k) /\ k \notin Upto(j)
      BY <2>1
    <2> HIDE DEF Upto
    <2>4. Upto(k) = Upto(j)
      BY <1>2, <2>2, FS_Subset
    <2> QED
      BY <2>3, <2>4
  <1>5. \A j, k \in K : Cardinality(Upto(j)) = Cardinality(Upto(k)) => j = k
    BY <1>4
  <1>6. \A k \in K : Rank(K, k) = Cardinality(Upto(k))
    BY DEF Rank
  <1> HIDE DEF Upto
  <1> DEFINE f == [k \in K |-> Rank(K, k)]
  <1>7. \A k \in K : Rank(K, k) \in 1..Cardinality(K)
    BY <1>1, <1>2, <1>3, <1>6
  <1>8. \A j, k \in K : Rank(K, j) = Rank(K, k) => j = k
    BY <1>5, <1>6
  <1>9. f \in Injection(K, 1..Cardinality(K))
    BY <1>7, <1>8 DEF Injection, IsInjective
  <1>10. IsFiniteSet(1..Cardinality(K)) /\ Cardinality(1..Cardinality(K)) = Cardinality(K)
    BY <1>1, FS_Interval
  <1>11. f \in Surjection(K, 1..Cardinality(K))
    BY <1>9, <1>10, FS_Injection
  <1>12. \A i \in 1..Cardinality(K) : \E k \in K : f[k] = i
    BY <1>11 DEF Surjection
  <1> QED
    BY <1>1, <1>7, <1>8, <1>12

\* Selected picks the elements at the places, each once.
LEMMA SelectedPlaces ==
    ASSUME NEW S, NEW q \in Seq(S), NEW K \in SUBSET DOMAIN q, NEW T, \A k \in K : q[k] \in T
    PROVE  /\ DOMAIN Selected(q, K) = 1..Cardinality(K) /\ Cardinality(K) \in Nat
           /\ Selected(q, K) \in Seq(T)
           /\ \A k \in K : Selected(q, K)[Rank(K, k)] = q[k] /\ Rank(K, k) \in DOMAIN Selected(q, K)
           /\ \A i \in DOMAIN Selected(q, K) : \E k \in K : Rank(K, k) = i
           /\ \A j, k \in K : Rank(K, j) = Rank(K, k) => j = k
  <1>1. DOMAIN q = 1..Len(q) /\ Len(q) \in Nat
    BY LenProperties
  <1>2. /\ Cardinality(K) \in Nat
        /\ \A k \in K : Rank(K, k) \in 1..Cardinality(K)
        /\ \A j, k \in K : Rank(K, j) = Rank(K, k) => j = k
        /\ \A i \in 1..Cardinality(K) : \E k \in K : Rank(K, k) = i
    BY <1>1, Ranks
  <1>3. DOMAIN Selected(q, K) = 1..Cardinality(K)
    BY DEF Selected
  <1>4. \A k \in K : Selected(q, K)[Rank(K, k)] = q[k]
    <2> TAKE k \in K
    <2>1. Selected(q, K)[Rank(K, k)] = q[CHOOSE j \in K : Rank(K, j) = Rank(K, k)]
      BY <1>2 DEF Selected
    <2>2. (CHOOSE j \in K : Rank(K, j) = Rank(K, k)) = k
      BY <1>2
    <2> QED
      BY <2>1, <2>2
  <1>5. \A i \in 1..Cardinality(K) : Selected(q, K)[i] \in T
    BY <1>2, <1>4
  <1>6. Selected(q, K) = [i \in 1..Cardinality(K) |-> Selected(q, K)[i]]
    BY DEF Selected
  <1>7. Selected(q, K) \in Seq(T)
    <2>1. Selected(q, K) \in [1..Cardinality(K) -> T]
      BY <1>5, <1>6
    <2> QED
      BY <1>2, <2>1, SeqDef
  <1> QED
    BY <1>2, <1>3, <1>4, <1>7

-----------------------------------------------------------------------------
\* The order of a caller's events in the file.
\* The events of a sequence of entries.
Evs(s) == {s[i].ev : i \in DOMAIN s}

\* Of the events A, each stands before the event its caller appends next.
InOrder(s, A) == \A i, j \in DOMAIN s : s[i].ev \in A /\ Prev[s[j].ev] = s[i].ev => i < j

AckedEvents == {e \in Events : Acked(e)}
Hands == {"write", "ok", "err"}

PiecesTyped ==
    /\ log \in Seq(Entries) /\ buffer \in Seq(Entries)
    /\ leftover \in Seq(Entries) /\ tail \in Seq(Entries)
    /\ nextSeq \in Nat
    /\ \A c \in cycles : c.batch \in Seq(Events)
    /\ reply = [e \in Events |-> reply[e]]

\* Who is queued, or in the hands of a cycle, has not been answered.
Unanswered ==
    /\ \A e \in ToSet(queue) : reply[e].kind = "queued"
    /\ \A c \in cycles : c.stage \in Hands => \A e \in ToSet(c.batch) : reply[e].kind = "queued"

\* An event is queued or in the hands of one cycle, never both.
Apart ==
    \A c \in cycles : c.stage \in Hands =>
        /\ ToSet(c.batch) \cap ToSet(queue) = {}
        /\ \A d \in cycles \ {c} : d.stage \in Hands => ToSet(c.batch) \cap ToSet(d.batch) = {}

\* An event is in the file or on its way there only after its call was made ...
Issued == \A e \in Evs(log) \cup Evs(buffer) \cup Evs(leftover) \cup Evs(tail) : reply[e].kind # "none"

\* ... which its caller makes after the answer to the one before.
CallOrder == \A e \in Events : reply[e].kind # "none" /\ Prev[e] # NoEvent => Answered(Prev[e])

\* What a failed flush left in a BufWriter was never acknowledged and never will be:
\* it may land at any later time.
Loose == \A e \in Evs(buffer) \cup Evs(leftover) :
    /\ ~ Acked(e) /\ e \notin ToSet(queue)
    /\ \A c \in cycles : c.stage \in {"write", "ok"} => e \notin ToSet(c.batch)

OrderInv == Unanswered /\ Apart /\ Issued /\ CallOrder /\ Loose
            /\ InOrder(log, AckedEvents) /\ InOrder(tail, AckedEvents)

OInv == PiecesTyped /\ OrderInv

LEMMA EvsOf ==
    ASSUME NEW s \in Seq(Entries)
    PROVE  /\ \A i \in DOMAIN s : s[i].ev \in Evs(s)
           /\ \A e \in Evs(s) : e \in Events /\ \E i \in DOMAIN s : s[i].ev = e
           /\ Evs(<<>>) = {}
  <1>1. \A i \in DOMAIN s : s[i] \in Entries
    OBVIOUS
  <1>2. \A i \in DOMAIN s : s[i].ev \in Events
    BY <1>1 DEF Entries
  <1> QED
    BY <1>2 DEF Evs

LEMMA Joined ==
    ASSUME NEW s \in Seq(Entries), NEW t \in Seq(Entries)
    PROVE  /\ s \o t \in Seq(Entries)
           /\ \A k \in DOMAIN (s \o t) :
                 \/ k \in DOMAIN s /\ (s \o t)[k] = s[k]
                 \/ /\ k - Len(s) \in DOMAIN t /\ (s \o t)[k] = t[k - Len(s)]
                    /\ \A j \in DOMAIN s : j < k
           /\ \A k \in DOMAIN s : k \in DOMAIN (s \o t) /\ (s \o t)[k] = s[k]
           /\ Evs(s \o t) \subseteq Evs(s) \cup Evs(t)
  <1> DEFINE both == s \o t
  <1>1. both \in Seq(Entries)
    OBVIOUS
  <1>2. \A k \in DOMAIN both :
                 \/ k \in DOMAIN s /\ both[k] = s[k]
                 \/ /\ k - Len(s) \in DOMAIN t /\ both[k] = t[k - Len(s)]
                    /\ \A j \in DOMAIN s : j < k
    OBVIOUS
  <1>3. \A k \in DOMAIN s : k \in DOMAIN both /\ both[k] = s[k]
    OBVIOUS
  <1> HIDE DEF both
  <1>4. ASSUME NEW k \in DOMAIN both PROVE both[k].ev \in Evs(s) \cup Evs(t)
    BY <1>2 DEF Evs
  <1>5. Evs(both) \subseteq Evs(s) \cup Evs(t)
    BY <1>4 DEF Evs
  <1> QED
    BY <1>1, <1>2, <1>3, <1>5 DEF both

LEMMA Cut ==
    ASSUME NEW s \in Seq(Entries), NEW m \in 1..(Len(s) + 1), NEW n \in 0..Len(s)
    PROVE  SubSeq(s, m, n) \in Seq(Entries) /\ Evs(SubSeq(s, m, n)) \subseteq Evs(s)
  <1> DEFINE part == SubSeq(s, m, n)
  <1>1. part \in Seq(Entries)
    OBVIOUS
  <1>2. \A k \in DOMAIN part : m + k - 1 \in DOMAIN s /\ part[k] = s[m + k - 1]
    BY SubSeqProperties
  <1> HIDE DEF part
  <1>3. \A k \in DOMAIN part : part[k].ev \in Evs(s)
    BY <1>2 DEF Evs
  <1>4. Evs(part) \subseteq Evs(s)
    BY <1>3 DEF Evs
  <1> QED
    BY <1>1, <1>4 DEF part

\* What comes after an event that is in its place does not move it.
LEMMA OrderGrows ==
    ASSUME NEW s \in Seq(Entries), NEW t \in Seq(Entries), NEW A, InOrder(s, A), Evs(t) \cap A = {}
    PROVE  InOrder(s \o t, A)
  <1> DEFINE both == s \o t
  <1> SUFFICES ASSUME NEW i \in DOMAIN both, NEW j \in DOMAIN both,
                      both[i].ev \in A, Prev[both[j].ev] = both[i].ev
               PROVE  i < j
    BY DEF InOrder
  <1>1. \A k \in DOMAIN both : \/ k \in DOMAIN s /\ both[k] = s[k]
                               \/ /\ k - Len(s) \in DOMAIN t /\ both[k] = t[k - Len(s)]
                                  /\ \A l \in DOMAIN s : l < k
    BY Joined
  <1> HIDE DEF both
  <1>2. \A k \in DOMAIN t : t[k].ev \notin A
    BY DEF Evs
  <1>3. i \in DOMAIN s /\ both[i] = s[i]
    BY <1>1, <1>2
  <1>4. CASE j \in DOMAIN s /\ both[j] = s[j]
    BY <1>3, <1>4 DEF InOrder
  <1>5. CASE \A l \in DOMAIN s : l < j
    BY <1>3, <1>5
  <1> QED
    BY <1>1, <1>4, <1>5

LEMMA RankGrows ==
    ASSUME NEW n \in Nat, NEW K \in SUBSET (1..n), NEW j \in K, NEW k \in K, Rank(K, j) < Rank(K, k)
    PROVE  j < k
  <1> SUFFICES ASSUME k <= j PROVE FALSE
    OBVIOUS
  <1> DEFINE Upto(l) == {i \in K : i <= l}
  <1>1. Rank(K, j) = Cardinality(Upto(j)) /\ Rank(K, k) = Cardinality(Upto(k))
    BY DEF Rank
  <1>2. \A i \in K : i \in Int
    OBVIOUS
  <1>3. Upto(k) \subseteq Upto(j) /\ Upto(j) \subseteq 1..n
    <2>1. ASSUME NEW i \in K, i <= k PROVE i <= j
      BY <1>2, <2>1
    <2> QED
      BY <2>1
  <1> HIDE DEF Upto
  <1>4. IsFiniteSet(Upto(j))
    <2>1. IsFiniteSet(1..n)
      BY FS_Interval
    <2>2. Upto(j) \in SUBSET (1..n)
      BY <1>3
    <2> QED
      BY <2>1, <2>2, FS_Subset
  <1>5. Cardinality(Upto(k)) <= Cardinality(Upto(j)) /\ Cardinality(Upto(j)) \in Nat
        /\ Cardinality(Upto(k)) \in Nat
    BY <1>3, <1>4, FS_Subset, FS_CardinalityType
  <1> QED
    BY <1>1, <1>5

\* A filter leaves the order.
LEMMA OrderSelected ==
    ASSUME NEW s \in Seq(Entries), NEW K \in SUBSET DOMAIN s, NEW A, InOrder(s, A)
    PROVE  /\ Selected(s, K) \in Seq(Entries) /\ InOrder(Selected(s, K), A)
           /\ Evs(Selected(s, K)) \subseteq Evs(s)
  <1> DEFINE r == Selected(s, K)
  <1>1. DOMAIN s = 1..Len(s) /\ Len(s) \in Nat /\ \A k \in K : s[k] \in Entries
    BY LenProperties
  <1>2. /\ DOMAIN r = 1..Cardinality(K) /\ Cardinality(K) \in Nat /\ r \in Seq(Entries)
        /\ \A k \in K : r[Rank(K, k)] = s[k]
        /\ \A i \in DOMAIN r : \E k \in K : Rank(K, k) = i
    BY <1>1, SelectedPlaces
  <1> HIDE DEF r
  <1>3. ASSUME NEW i \in DOMAIN r, NEW j \in DOMAIN r, r[i].ev \in A, Prev[r[j].ev] = r[i].ev
        PROVE  i < j
    <2>1. PICK k \in K : Rank(K, k) = i /\ r[i] = s[k]
      BY <1>2
    <2>2. PICK l \in K : Rank(K, l) = j /\ r[j] = s[l]
      BY <1>2
    <2>3. k < l
      BY <1>3, <2>1, <2>2 DEF InOrder
    <2>4. ~ (j < i)
      <3> SUFFICES ASSUME j < i PROVE FALSE
        OBVIOUS
      <3>1. K \in SUBSET (1..Len(s)) /\ Rank(K, l) < Rank(K, k)
        BY <1>1, <2>1, <2>2
      <3>2. l < k
        BY <1>1, <3>1, RankGrows
      <3>3. k \in Int /\ l \in Int
        BY <1>1
      <3> QED
        BY <2>3, <3>2, <3>3
    <2>5. i # j
      <3>1. SUFFICES ASSUME i = j PROVE k = l
        BY <1>1, <2>3
      <3> QED
        BY <1>1, <2>1, <2>2, <3>1, Ranks
    <2> QED
      BY <1>2, <2>4, <2>5
  <1>4. \A i \in DOMAIN r : \E k \in K : r[i] = s[k]
    BY <1>2
  <1>5. Evs(r) \subseteq Evs(s)
    BY <1>4 DEF Evs
  <1> QED
    BY <1>2, <1>3, <1>5 DEF InOrder, r

\* Answering a call whose successor has not been made leaves the order.
LEMMA OrderAcked ==
    ASSUME NEW s \in Seq(Entries), NEW A, NEW B, InOrder(s, A),
           \A e \in Evs(s) : Prev[e] \notin B \ A
    PROVE  InOrder(s, B)
  <1> SUFFICES ASSUME NEW i \in DOMAIN s, NEW j \in DOMAIN s, s[i].ev \in B, Prev[s[j].ev] = s[i].ev
               PROVE  i < j
    BY DEF InOrder
  <1>1. s[j].ev \in Evs(s)
    BY EvsOf
  <1> QED
    BY <1>1 DEF InOrder

LEMMA InitOrder == Init => OInv
  <1> SUFFICES ASSUME Init PROVE OInv
    OBVIOUS
  <1>1. log = <<>> /\ buffer = <<>> /\ leftover = <<>> /\ tail = <<>> /\ queue = <<>>
        /\ nextSeq = 0 /\ cycles = {} /\ reply = [e \in Events |-> Pending("none")]
    BY DEF Init
  <1>2. PiecesTyped
    BY <1>1 DEF PiecesTyped
  <1>3. \A e \in Events : reply[e].kind = "none"
    BY <1>1 DEF Pending
  <1>4. ToSet(queue) = {}
    BY <1>1 DEF ToSet
  <1>5. Evs(log) = {} /\ Evs(buffer) = {} /\ Evs(leftover) = {} /\ Evs(tail) = {}
    BY <1>1 DEF Evs
  <1>6. InOrder(log, AckedEvents) /\ InOrder(tail, AckedEvents)
    BY <1>1 DEF InOrder
  <1>7. Unanswered /\ Apart /\ Issued /\ CallOrder /\ Loose
    BY <1>1, <1>3, <1>4, <1>5 DEF Unanswered, Apart, Issued, CallOrder, Loose
  <1> QED
    BY <1>2, <1>6, <1>7 DEF OInv, OrderInv

\* The pieces are unchanged.
LEMMA StillOrder ==
    ASSUME OInv, UNCHANGED <<queue, cycles, reply, log, buffer, leftover, tail, nextSeq>>
    PROVE  OInv'
  <1>1. PiecesTyped'
    BY DEF OInv, PiecesTyped
  <1>2. Unanswered'
    BY DEF OInv, OrderInv, Unanswered
  <1>3. Apart'
    BY DEF OInv, OrderInv, Apart
  <1>4. Issued'
    BY DEF OInv, OrderInv, Issued, Evs
  <1>5. CallOrder'
    BY DEF OInv, OrderInv, CallOrder, Answered
  <1>6. Loose'
    BY DEF OInv, OrderInv, Loose, Evs, Acked
  <1>7. AckedEvents' = AckedEvents
    BY DEF AckedEvents, Acked
  <1>8. InOrder(log, AckedEvents)' /\ InOrder(tail, AckedEvents)'
    BY <1>7 DEF OInv, OrderInv, InOrder
  <1> QED
    BY <1>1, <1>2, <1>3, <1>4, <1>5, <1>6, <1>8 DEF OInv, OrderInv

\* A call is made: its event is nowhere yet.
LEMMA AppendOrder ==
    ASSUME IInv, OInv, NEW e \in Events, Append_(e)
    PROVE  OInv'
  <1> USE DEF OInv
  <1>0. queue \in Seq(Events)
    BY DEF IInv, Flags
  <1>1. /\ reply[e].kind = "none" /\ (Prev[e] # NoEvent => Answered(Prev[e]))
        /\ queue' = Append(queue, e) /\ reply' = [reply EXCEPT ![e] = Pending("queued")]
        /\ UNCHANGED <<cycles, log, buffer, leftover, tail, nextSeq>>
    BY DEF Append_, logVars, ckVars
  <1>2. reply' = [d \in Events |-> IF d = e THEN Pending("queued") ELSE reply[d]]
    BY <1>1 DEF PiecesTyped
  <1>3. reply'[e].kind = "queued" /\ \A d \in Events \ {e} : reply'[d] = reply[d]
    BY <1>2 DEF Pending
  <1>4. ToSet(queue') = ToSet(queue) \cup {e}
    BY <1>0, <1>1 DEF ToSet
  <1>4a. ToSet(queue) \subseteq Events /\ \A c \in cycles : ToSet(c.batch) \subseteq Events
    BY <1>0 DEF ToSet, PiecesTyped
  <1>5. PiecesTyped'
    BY <1>1, <1>2 DEF PiecesTyped
  <1>6. Unanswered'
    BY <1>1, <1>3, <1>4, <1>4a DEF OrderInv, Unanswered
  <1>7. \A c \in cycles : c.stage \in Hands => e \notin ToSet(c.batch)
    BY <1>1 DEF OrderInv, Unanswered
  <1>8. Apart'
    BY <1>1, <1>4, <1>7 DEF OrderInv, Apart
  <1>9. /\ Evs(log)' = Evs(log) /\ Evs(buffer)' = Evs(buffer)
        /\ Evs(leftover)' = Evs(leftover) /\ Evs(tail)' = Evs(tail)
    BY <1>1 DEF Evs
  <1>10. \A d \in Evs(log) \cup Evs(buffer) \cup Evs(leftover) \cup Evs(tail) : d \in Events \ {e}
    BY <1>1, EvsOf DEF OrderInv, Issued, PiecesTyped
  <1>11. Issued'
    BY <1>3, <1>9, <1>10 DEF OrderInv, Issued
  <1>12. \A d \in Events : Acked(d)' <=> Acked(d)
    BY <1>1, <1>3 DEF Acked
  <1>13. \A d \in Events : Answered(d)' <=> Answered(d)
    BY <1>1, <1>3 DEF Answered
  <1>14. CallOrder'
    <2> SUFFICES ASSUME NEW d \in Events, reply'[d].kind # "none", Prev[d] # NoEvent
                 PROVE  Answered(Prev[d])'
      BY DEF CallOrder
    <2>1. Prev[d] \in Events
      BY PrevAssumption
    <2>2. Answered(Prev[d])
      BY <1>1, <1>3 DEF OrderInv, CallOrder
    <2> QED
      BY <2>1, <2>2, <1>13
  <1>15. Loose'
    BY <1>1, <1>4, <1>9, <1>10, <1>12 DEF OrderInv, Loose
  <1>16. AckedEvents' = AckedEvents
    BY <1>12 DEF AckedEvents
  <1>17. InOrder(log, AckedEvents)' /\ InOrder(tail, AckedEvents)'
    BY <1>1, <1>16 DEF OrderInv, InOrder
  <1> QED
    BY <1>5, <1>6, <1>8, <1>11, <1>14, <1>15, <1>17 DEF OrderInv

\* The queue becomes the batch of a cycle.
LEMMA TakeOrder ==
    ASSUME IInv, OInv, FlushTakes
    PROVE  OInv'
  <1> USE DEF OInv
  <1> DEFINE n == [batch |-> queue, stage |-> "write", first |-> 0]
  <1>0. queue \in Seq(Events)
    BY DEF IInv, Flags
  <1>1. /\ cycles' = cycles \cup {n} /\ queue' = <<>>
        /\ UNCHANGED <<reply, log, buffer, leftover, tail, nextSeq>>
    BY DEF FlushTakes, logVars, ckVars
  <1>2. n.batch = queue /\ n.stage = "write"
    OBVIOUS
  <1> HIDE DEF n
  <1>3. ToSet(queue') = {}
    BY <1>1 DEF ToSet
  <1>4. PiecesTyped'
    BY <1>0, <1>1, <1>2 DEF PiecesTyped
  <1>5. Unanswered'
    BY <1>1, <1>2, <1>3 DEF OrderInv, Unanswered
  <1>6. \A c \in cycles : c.stage \in Hands => ToSet(c.batch) \cap ToSet(n.batch) = {}
    BY <1>2 DEF OrderInv, Apart
  <1>7. Apart'
    BY <1>1, <1>3, <1>6 DEF OrderInv, Apart
  <1>8. /\ Evs(log)' = Evs(log) /\ Evs(buffer)' = Evs(buffer)
        /\ Evs(leftover)' = Evs(leftover) /\ Evs(tail)' = Evs(tail)
    BY <1>1 DEF Evs
  <1>9. Issued' /\ CallOrder'
    BY <1>1, <1>8 DEF OrderInv, Issued, CallOrder, Answered
  <1>10. Loose'
    BY <1>1, <1>2, <1>3, <1>8 DEF OrderInv, Loose, Acked
  <1>11. AckedEvents' = AckedEvents
    BY <1>1 DEF AckedEvents, Acked
  <1>12. InOrder(log, AckedEvents)' /\ InOrder(tail, AckedEvents)'
    BY <1>1, <1>11 DEF OrderInv, InOrder
  <1> QED
    BY <1>4, <1>5, <1>7, <1>9, <1>10, <1>12 DEF OrderInv

LEMMA FirstSeqNat == OInv => FirstSeq \in Nat
  <1> SUFFICES ASSUME OInv PROVE FirstSeq \in Nat
    OBVIOUS
  <1>1. log \in Seq(Entries) /\ nextSeq \in Nat
    BY DEF OInv, PiecesTyped
  <1>2. ASSUME log # <<>> PROVE log[Len(log)].seq \in Nat
    <2>1. Len(log) \in DOMAIN log
      BY <1>1, <1>2
    <2>2. log[Len(log)] \in Entries
      BY <1>1, <2>1
    <2> QED
      BY <2>2 DEF Entries
  <1> QED
    BY <1>1, <1>2 DEF FirstSeq, SeqAfter

LEMMA NumberedTyped ==
    ASSUME OInv, NEW c \in cycles
    PROVE  /\ Numbered(c) \in Seq(Entries) /\ Evs(Numbered(c)) \subseteq ToSet(c.batch)
           /\ Len(c.batch) \in Nat
  <1>1. c.batch \in Seq(Events) /\ FirstSeq \in Nat
    BY FirstSeqNat DEF OInv, PiecesTyped
  <1>2. DOMAIN c.batch = 1..Len(c.batch) /\ Len(c.batch) \in Nat
    BY <1>1, LenProperties
  <1>3. \A i \in 1..Len(c.batch) : Entry(FirstSeq + i - 1, c.batch[i]) \in Entries
    BY <1>1, <1>2 DEF Entry, Entries
  <1>4. Numbered(c) = [i \in 1..Len(c.batch) |-> Entry(FirstSeq + i - 1, c.batch[i])]
    BY <1>2 DEF Numbered
  <1>5. Numbered(c) \in [1..Len(c.batch) -> Entries]
    BY <1>3, <1>4
  <1>6. Numbered(c) \in Seq(Entries)
    BY <1>2, <1>5, SeqDef
  <1>7. \A i \in DOMAIN Numbered(c) : i \in DOMAIN c.batch /\ Numbered(c)[i].ev = c.batch[i]
    BY <1>2, <1>4 DEF Entry
  <1>8. Evs(Numbered(c)) \subseteq ToSet(c.batch)
    BY <1>7 DEF Evs, ToSet
  <1> QED
    BY <1>2, <1>6, <1>8

\* A cycle goes on to another of its stages.
LEMMA MovesKeepOrder ==
    ASSUME OInv, NEW c \in cycles, c.stage \in Hands, NEW stage, stage \in {"ok", "err"},
           NEW first, Move(c, stage, first), UNCHANGED <<queue, reply>>
    PROVE  /\ Unanswered' /\ Apart' /\ CallOrder'
           /\ \A d \in cycles' : d.batch \in Seq(Events)
           /\ \A d \in cycles' : d \in cycles \/ (d.batch = c.batch /\ d.stage = stage)
           /\ \A d \in cycles' : d.stage = "write" => d \in cycles /\ d # c
  <1> DEFINE n == [batch |-> c.batch, stage |-> stage, first |-> first]
  <1>1. cycles' = (cycles \ {c}) \cup {n} /\ n.batch = c.batch /\ n.stage = stage
    BY DEF Move
  <1> HIDE DEF n
  <1>2. Unanswered'
    BY <1>1 DEF OInv, OrderInv, Unanswered
  <1>3. \A d \in cycles \ {c} : d.stage \in Hands => ToSet(c.batch) \cap ToSet(d.batch) = {}
        /\ ToSet(c.batch) \cap ToSet(queue) = {}
    BY DEF OInv, OrderInv, Apart
  <1>4. Apart'
    <2> SUFFICES ASSUME NEW d \in cycles', d.stage \in Hands
                 PROVE  /\ ToSet(d.batch) \cap ToSet(queue) = {}
                        /\ \A b \in cycles' \ {d} : b.stage \in Hands => ToSet(d.batch) \cap ToSet(b.batch) = {}
      BY DEF Apart
    <2>1. CASE d = n
      BY <1>1, <1>3, <2>1 DEF OInv, OrderInv, Apart
    <2>2. CASE d \in cycles \ {c}
      BY <1>1, <1>3, <2>2 DEF OInv, OrderInv, Apart
    <2> QED
      BY <1>1, <2>1, <2>2
  <1>5. CallOrder'
    BY DEF OInv, OrderInv, CallOrder, Answered
  <1> QED
    BY <1>1, <1>2, <1>4, <1>5 DEF OInv, PiecesTyped

\* Entries not yet acknowledged land behind those of the file or stay in the buffer.
LEMMA LandOrder ==
    ASSUME IInv, OInv, NEW c \in cycles, c.stage = "write",
           NEW landed \in Seq(Entries), NEW rest \in Seq(Entries),
           NEW stage, stage \in {"ok", "err"}, NEW first, Move(c, stage, first),
           Evs(landed) \subseteq Evs(buffer) \cup ToSet(c.batch),
           Evs(rest) \subseteq Evs(buffer) \cup ToSet(c.batch),
           stage = "ok" => rest = <<>>,
           Land(landed), buffer' = rest, nextSeq' \in Nat,
           UNCHANGED <<queue, reply, leftover, tail>>
    PROVE  OInv'
  <1>0. PiecesTyped /\ OrderInv
    BY DEF OInv
  <1>1. /\ Unanswered' /\ Apart' /\ CallOrder'
        /\ \A d \in cycles' : d.batch \in Seq(Events)
        /\ \A d \in cycles' : d \in cycles \/ (d.batch = c.batch /\ d.stage = stage)
    <2>1. c.stage \in Hands
      BY DEF Hands
    <2> QED
      BY <2>1, MovesKeepOrder
  <1>1a. \A d \in cycles' : d \in cycles \ {c} \/ (d.batch = c.batch /\ d.stage = stage)
    BY DEF Move
  <1>2. log' = log \/ log' = log \o landed
    BY DEF Land
  <1>3. log' \in Seq(Entries) /\ Evs(log') \subseteq Evs(log) \cup Evs(landed)
    <2>1. log \in Seq(Entries)
      BY <1>0 DEF PiecesTyped
    <2>2. log \o landed \in Seq(Entries) /\ Evs(log \o landed) \subseteq Evs(log) \cup Evs(landed)
      BY <2>1, Joined
    <2> QED
      BY <1>2, <2>1, <2>2
  <1>5. PiecesTyped'
    BY <1>0, <1>1, <1>3 DEF PiecesTyped
  <1>6. \A e \in ToSet(c.batch) : reply[e].kind = "queued"
    BY <1>0 DEF OrderInv, Unanswered, Hands
  <1>7. \A e \in Evs(landed) \cup Evs(rest) : ~ Acked(e) /\ reply[e].kind # "none"
    BY <1>0, <1>6 DEF OrderInv, Loose, Issued, Acked
  <1>8. /\ Evs(log)' \subseteq Evs(log) \cup Evs(landed) /\ Evs(buffer)' = Evs(rest)
        /\ Evs(leftover)' = Evs(leftover) /\ Evs(tail)' = Evs(tail)
    <2>1. Evs(log)' = Evs(log')
      BY DEF Evs
    <2> QED
      BY <1>3, <2>1 DEF Evs
  <1>9. Issued'
    BY <1>0, <1>7, <1>8 DEF OrderInv, Issued
  <1>10. \A e : Acked(e)' <=> Acked(e)
    BY DEF Acked
  <1>11. Loose'
    <2>1. \A e \in Evs(leftover) : ~ Acked(e) /\ e \notin ToSet(queue)
            /\ \A d \in cycles' : d.stage \in {"write", "ok"} => e \notin ToSet(d.batch)
      BY <1>0, <1>1a DEF OrderInv, Loose
    <2>2. \A e \in Evs(rest) : ~ Acked(e) /\ e \notin ToSet(queue)
            /\ \A d \in cycles' : d.stage \in {"write", "ok"} => e \notin ToSet(d.batch)
      <3> SUFFICES ASSUME NEW e \in Evs(rest)
                   PROVE  /\ ~ Acked(e) /\ e \notin ToSet(queue)
                          /\ \A d \in cycles' : d.stage \in {"write", "ok"} => e \notin ToSet(d.batch)
        OBVIOUS
      <3>1. stage = "err"
        <4>1. rest # <<>>
          BY DEF Evs
        <4> QED
          BY <4>1
      <3>2. CASE e \in Evs(buffer)
        BY <1>0, <1>1a, <3>1, <3>2 DEF OrderInv, Loose
      <3>3. CASE e \in ToSet(c.batch)
        <4>1. e \notin ToSet(queue)
          BY <1>0, <3>3 DEF OrderInv, Apart, Hands
        <4>2. \A d \in cycles \ {c} : d.stage \in Hands => e \notin ToSet(d.batch)
          BY <1>0, <3>3 DEF OrderInv, Apart, Hands
        <4> QED
          BY <1>1a, <1>7, <3>1, <4>1, <4>2 DEF Hands
      <3> QED
        BY <3>2, <3>3
    <2> QED
      BY <1>8, <1>10, <2>1, <2>2 DEF Loose
  <1>12. AckedEvents' = AckedEvents
    BY <1>10 DEF AckedEvents
  <1>13. Evs(landed) \cap AckedEvents = {}
    BY <1>7 DEF AckedEvents
  <1>14. InOrder(log', AckedEvents)
    BY <1>0, <1>2, <1>13, OrderGrows DEF OrderInv, PiecesTyped
  <1>15. InOrder(log, AckedEvents)'
    BY <1>12, <1>14 DEF InOrder
  <1>16. InOrder(tail, AckedEvents)'
    BY <1>0, <1>12 DEF OrderInv, InOrder
  <1> QED
    BY <1>1, <1>5, <1>9, <1>11, <1>15, <1>16 DEF OInv, OrderInv

LEMMA WriteOrder ==
    ASSUME IInv, OInv, NEW c \in cycles, WriteBatch(c)
    PROVE  OInv'
  <1> DEFINE entries == buffer \o Numbered(c)
  <1>1. buffer \in Seq(Entries) /\ Numbered(c) \in Seq(Entries) /\ Evs(Numbered(c)) \subseteq ToSet(c.batch)
    BY NumberedTyped DEF OInv, PiecesTyped
  <1>2. entries \in Seq(Entries) /\ Evs(entries) \subseteq Evs(buffer) \cup ToSet(c.batch)
    BY <1>1, Joined
  <1>3. /\ c.stage = "write" /\ Land(entries) /\ buffer' = <<>> /\ nextSeq' \in Nat
        /\ Move(c, "ok", FirstSeq) /\ UNCHANGED <<queue, reply, leftover, tail>>
    BY FirstSeqNat, NumberedTyped DEF WriteBatch, stateVars, ckVars
  <1> HIDE DEF entries
  <1>4. <<>> \in Seq(Entries) /\ Evs(<<>>) = {}
    BY DEF Evs
  <1> QED
    BY <1>2, <1>3, <1>4, LandOrder

LEMMA WriteFailsOrder ==
    ASSUME IInv, OInv, NEW c \in cycles, WriteFails(c)
    PROVE  OInv'
  <1>1. /\ buffer \in Seq(Entries) /\ Numbered(c) \in Seq(Entries)
        /\ Evs(Numbered(c)) \subseteq ToSet(c.batch)
        /\ FirstSeq \in Nat /\ Len(c.batch) \in Nat /\ Len(Numbered(c)) = Len(c.batch)
    <2>1. c.batch \in Seq(Events)
      BY DEF OInv, PiecesTyped
    <2> QED
      BY <2>1, NumberedTyped, FirstSeqNat DEF OInv, PiecesTyped, Numbered
  <1>2. PICK m \in 0..Len(c.batch) :
          /\ \E k \in 0..Len(buffer \o SubSeq(Numbered(c), 1, m)) :
               /\ Land(SubSeq(buffer \o SubSeq(Numbered(c), 1, m), 1, k))
               /\ buffer' = SubSeq(buffer \o SubSeq(Numbered(c), 1, m), k + 1,
                                   Len(buffer \o SubSeq(Numbered(c), 1, m)))
          /\ nextSeq' = FirstSeq + m
    BY DEF WriteFails
  <1> DEFINE first == SubSeq(Numbered(c), 1, m)
             entries == buffer \o first
  <1>3. PICK k \in 0..Len(entries) :
          Land(SubSeq(entries, 1, k)) /\ buffer' = SubSeq(entries, k + 1, Len(entries))
    BY <1>2
  <1>4. /\ c.stage = "write" /\ nextSeq' \in Nat
        /\ Move(c, "err", 0) /\ UNCHANGED <<queue, reply, leftover, tail>>
    BY <1>1, <1>2 DEF WriteFails, stateVars, ckVars
  <1>5. first \in Seq(Entries) /\ Evs(first) \subseteq ToSet(c.batch)
    <2>1. 1 \in 1..(Len(Numbered(c)) + 1) /\ m \in 0..Len(Numbered(c))
      BY <1>1
    <2>2. SubSeq(Numbered(c), 1, m) \in Seq(Entries) /\ Evs(SubSeq(Numbered(c), 1, m)) \subseteq Evs(Numbered(c))
      BY <1>1, <2>1, Cut
    <2> QED
      BY <1>1, <2>2
  <1> HIDE DEF first
  <1>6. entries \in Seq(Entries) /\ Evs(entries) \subseteq Evs(buffer) \cup ToSet(c.batch)
    BY <1>1, <1>5, Joined
  <1> HIDE DEF entries
  <1>7. Len(entries) \in Nat
    BY <1>6
  <1>8. /\ SubSeq(entries, 1, k) \in Seq(Entries)
        /\ Evs(SubSeq(entries, 1, k)) \subseteq Evs(buffer) \cup ToSet(c.batch)
    BY <1>6, <1>7, Cut
  <1>9. /\ SubSeq(entries, k + 1, Len(entries)) \in Seq(Entries)
        /\ Evs(SubSeq(entries, k + 1, Len(entries))) \subseteq Evs(buffer) \cup ToSet(c.batch)
    <2>1. k + 1 \in 1..(Len(entries) + 1) /\ Len(entries) \in 0..Len(entries)
      BY <1>7
    <2> QED
      BY <1>6, <2>1, Cut
  <1> QED
    BY <1>3, <1>4, <1>8, <1>9, LandOrder

LEMMA OpenFailsOrder ==
    ASSUME IInv, OInv, NEW c \in cycles, OpenFails(c)
    PROVE  OInv'
  <1>1. /\ c.stage = "write" /\ Move(c, "err", 0)
        /\ UNCHANGED <<queue, reply, log, buffer, leftover, tail, nextSeq>>
    BY DEF OpenFails, stateVars, logVars, ckVars
  <1>2. c.stage \in Hands
    BY <1>1 DEF Hands
  <1>3. /\ Unanswered' /\ Apart' /\ CallOrder' /\ \A d \in cycles' : d.batch \in Seq(Events)
    BY <1>1, <1>2, MovesKeepOrder
  <1>4. \A d \in cycles' : d \in cycles \/ d.stage = "err"
    BY <1>1 DEF Move
  <1>5. PiecesTyped'
    BY <1>1, <1>3 DEF OInv, PiecesTyped
  <1>6. /\ Evs(log)' = Evs(log) /\ Evs(buffer)' = Evs(buffer)
        /\ Evs(leftover)' = Evs(leftover) /\ Evs(tail)' = Evs(tail)
    BY <1>1 DEF Evs
  <1>7. Issued'
    BY <1>1, <1>6 DEF OInv, OrderInv, Issued
  <1>8. Loose'
    BY <1>1, <1>4, <1>6 DEF OInv, OrderInv, Loose, Acked
  <1>9. AckedEvents' = AckedEvents
    BY <1>1 DEF AckedEvents, Acked
  <1>10. InOrder(log, AckedEvents)' /\ InOrder(tail, AckedEvents)'
    BY <1>1, <1>9 DEF OInv, OrderInv, InOrder
  <1> QED
    BY <1>3, <1>5, <1>7, <1>8, <1>10 DEF OInv, OrderInv

\* The callers of a batch are told: whoever follows one of them has not called yet.
LEMMA RepliesOrder ==
    ASSUME IInv, OInv, NEW c \in cycles, SendReplies(c)
    PROVE  OInv'
  <1> DEFINE n == [batch |-> c.batch, stage |-> "finish", first |-> 0]
             mine == ToSet(c.batch)
  <1>0. PiecesTyped /\ OrderInv
    BY DEF OInv
  <1>1. /\ c.stage \in {"ok", "err"} /\ c.stage \in Hands /\ Move(c, "finish", 0)
        /\ UNCHANGED <<queue, log, buffer, leftover, tail, nextSeq>>
    BY DEF SendReplies, stateVars, logVars, ckVars, Hands
  <1>2. cycles' = (cycles \ {c}) \cup {n} /\ n.batch = c.batch /\ n.stage = "finish"
    BY <1>1 DEF Move
  <1> HIDE DEF n
  <1>3. mine \subseteq Events /\ \A e \in mine : reply[e].kind = "queued"
    <2>1. c.batch \in Seq(Events)
      BY <1>0 DEF PiecesTyped
    <2>2. mine \subseteq Events
      BY <2>1 DEF ToSet
    <2> HIDE DEF mine
    <2>3. \A e \in ToSet(c.batch) : reply[e].kind = "queued"
      BY <1>0, <1>1 DEF OrderInv, Unanswered
    <2> QED
      BY <2>2, <2>3 DEF mine
  <1>4. \A e : e \in mine <=> \E i \in DOMAIN c.batch : c.batch[i] = e
    BY DEF ToSet
  <1>5. /\ reply' = [e \in Events |-> reply'[e]]
        /\ \A e \in Events \ mine : reply'[e] = reply[e]
        /\ \A e \in mine : reply'[e].kind = c.stage
    BY <1>1, <1>3, <1>4 DEF SendReplies, Pending
  <1>6. PiecesTyped'
    BY <1>0, <1>1, <1>2, <1>5 DEF PiecesTyped
  <1>7. /\ ToSet(queue) \cap mine = {}
        /\ \A d \in cycles \ {c} : d.stage \in Hands => ToSet(d.batch) \cap mine = {}
    BY <1>0, <1>1 DEF OrderInv, Apart
  <1>8. ToSet(queue) \subseteq Events /\ \A d \in cycles : ToSet(d.batch) \subseteq Events
    BY <1>0 DEF IInv, Flags, PiecesTyped, ToSet
  <1> HIDE DEF mine
  <1>9. n.stage \notin Hands
    BY <1>2 DEF Hands
  <1>10. Unanswered'
    <2>1. \A e \in ToSet(queue) : reply'[e].kind = "queued"
      BY <1>0, <1>5, <1>7, <1>8 DEF OrderInv, Unanswered
    <2>2. ASSUME NEW d \in cycles \ {c}, d.stage \in Hands, NEW e \in ToSet(d.batch)
          PROVE  reply'[e].kind = "queued"
      <3>1. e \in Events \ mine
        BY <1>7, <1>8, <2>2
      <3>2. reply[e].kind = "queued"
        BY <1>0, <2>2 DEF OrderInv, Unanswered
      <3> QED
        BY <1>5, <3>1, <3>2
    <2> QED
      BY <1>1, <1>2, <1>9, <2>1, <2>2 DEF Unanswered
  <1>11. Apart'
    BY <1>0, <1>1, <1>2, <1>9 DEF OrderInv, Apart
  <1>12. /\ Evs(log)' = Evs(log) /\ Evs(buffer)' = Evs(buffer)
         /\ Evs(leftover)' = Evs(leftover) /\ Evs(tail)' = Evs(tail)
    BY <1>1 DEF Evs
  <1>13. \A e \in Evs(log) \cup Evs(buffer) \cup Evs(leftover) \cup Evs(tail) : e \in Events
    BY <1>0, EvsOf DEF PiecesTyped
  <1>14. \A e \in Events : reply'[e].kind = "none" => reply[e].kind = "none" /\ e \notin mine
    BY <1>1, <1>5
  <1>15. Issued'
    BY <1>0, <1>12, <1>13, <1>14 DEF OrderInv, Issued
  <1>16. \A e \in Events : Answered(e) => Answered(e)'
    BY <1>1, <1>5 DEF Answered
  <1>17. \A e \in Events : reply'[e].kind # "none" => reply[e].kind # "none"
    BY <1>3, <1>5
  <1>18. CallOrder'
    BY <1>0, <1>16, <1>17, PrevAssumption DEF OrderInv, CallOrder
  <1>19. Loose'
    <2> SUFFICES ASSUME NEW e \in Evs(buffer) \cup Evs(leftover)
                 PROVE  /\ ~ Acked(e)' /\ e \notin ToSet(queue)
                        /\ \A d \in cycles' : d.stage \in {"write", "ok"} => e \notin ToSet(d.batch)
      BY <1>1, <1>12 DEF Loose
    <2>1. /\ ~ Acked(e) /\ e \notin ToSet(queue) /\ e \in Events
          /\ \A d \in cycles : d.stage \in {"write", "ok"} => e \notin ToSet(d.batch)
      BY <1>0, <1>13 DEF OrderInv, Loose
    <2>2. e \in mine => c.stage = "err"
      BY <1>1, <2>1 DEF mine
    <2>3. ~ Acked(e)'
      BY <1>5, <2>1, <2>2 DEF Acked
    <2> QED
      BY <1>2, <2>1, <2>3
  <1>20. \A e \in AckedEvents' \ AckedEvents : e \in mine
    BY <1>5 DEF AckedEvents, Acked
  <1>21. \A e \in Evs(log) \cup Evs(tail) : Prev[e] \notin AckedEvents' \ AckedEvents
    <2> SUFFICES ASSUME NEW e \in Evs(log) \cup Evs(tail), Prev[e] \in AckedEvents' \ AckedEvents
                 PROVE  FALSE
      OBVIOUS
    <2>1. Prev[e] \in mine /\ e \in Events /\ reply[e].kind # "none"
      BY <1>0, <1>13, <1>20 DEF OrderInv, Issued
    <2>2. Prev[e] # NoEvent
      BY <1>3, <2>1, PrevAssumption
    <2>3. Answered(Prev[e])
      BY <1>0, <2>1, <2>2 DEF OrderInv, CallOrder
    <2> QED
      BY <1>3, <2>1, <2>3 DEF Answered
  <1>22. InOrder(log, AckedEvents') /\ InOrder(tail, AckedEvents')
    <2>1. log \in Seq(Entries) /\ tail \in Seq(Entries)
          /\ InOrder(log, AckedEvents) /\ InOrder(tail, AckedEvents)
      BY <1>0 DEF OrderInv, PiecesTyped
    <2>2. \A e \in Evs(log) : Prev[e] \notin AckedEvents' \ AckedEvents
      BY <1>21
    <2>3. \A e \in Evs(tail) : Prev[e] \notin AckedEvents' \ AckedEvents
      BY <1>21
    <2>4. InOrder(log, AckedEvents')
      BY <2>1, <2>2, OrderAcked
    <2>5. InOrder(tail, AckedEvents')
      BY <2>1, <2>3, OrderAcked
    <2> QED
      BY <2>4, <2>5
  <1>23. InOrder(log, AckedEvents)' /\ InOrder(tail, AckedEvents)'
    BY <1>1, <1>22 DEF InOrder
  <1> QED
    BY <1>6, <1>10, <1>11, <1>15, <1>18, <1>19, <1>23 DEF OInv, OrderInv

\* The steps that leave the queue, the cycles but for finished ones, and the replies alone.
LEMMA PiecesOrder ==
    ASSUME OInv, UNCHANGED <<queue, reply, nextSeq>>, cycles' \subseteq cycles,
           log' \in Seq(Entries), buffer' \in Seq(Entries), leftover' \in Seq(Entries), tail' \in Seq(Entries),
           Evs(log') \cup Evs(buffer') \cup Evs(leftover') \cup Evs(tail')
               \subseteq Evs(log) \cup Evs(buffer) \cup Evs(leftover) \cup Evs(tail),
           Evs(buffer') \cup Evs(leftover') \subseteq Evs(buffer) \cup Evs(leftover),
           InOrder(log', AckedEvents), InOrder(tail', AckedEvents)
    PROVE  OInv'
  <1>0. PiecesTyped /\ OrderInv
    BY DEF OInv
  <1>1. PiecesTyped'
    BY <1>0 DEF PiecesTyped
  <1>2. Unanswered'
    BY <1>0 DEF OrderInv, Unanswered
  <1>3. Apart'
    BY <1>0 DEF OrderInv, Apart
  <1>4. /\ Evs(log)' = Evs(log') /\ Evs(buffer)' = Evs(buffer')
        /\ Evs(leftover)' = Evs(leftover') /\ Evs(tail)' = Evs(tail')
    BY DEF Evs
  <1>5. Issued'
    BY <1>0, <1>4 DEF OrderInv, Issued
  <1>6. CallOrder'
    BY <1>0 DEF OrderInv, CallOrder, Answered
  <1>7. Loose'
    BY <1>0, <1>4 DEF OrderInv, Loose, Acked
  <1>8. AckedEvents' = AckedEvents
    BY DEF AckedEvents, Acked
  <1>9. InOrder(log, AckedEvents)' /\ InOrder(tail, AckedEvents)'
    BY <1>8 DEF InOrder
  <1> QED
    BY <1>1, <1>2, <1>3, <1>5, <1>6, <1>7, <1>9 DEF OInv, OrderInv

LEMMA FinishOrder ==
    ASSUME OInv, NEW c \in cycles, FinishCycle(c)
    PROVE  OInv'
  <1>1. /\ UNCHANGED <<queue, reply, log, buffer, leftover, tail, nextSeq>> /\ cycles' \subseteq cycles
    BY DEF FinishCycle, logVars, ckVars
  <1> QED
    BY <1>1, PiecesOrder DEF OInv, OrderInv, PiecesTyped

\* A checkpoint drops the log, keeps its tail in order and puts it in the file's place.
LEMMA BarrierOrder ==
    ASSUME IInv, OInv, NEW k \in Checkpointers, Request(k) \/ BarrierStep(k) \/ Panic(k)
    PROVE  OInv'
  <1>0. /\ log \in Seq(Entries) /\ buffer \in Seq(Entries) /\ leftover \in Seq(Entries)
        /\ tail \in Seq(Entries) /\ InOrder(log, AckedEvents) /\ InOrder(tail, AckedEvents)
        /\ <<>> \in Seq(Entries) /\ Evs(<<>>) = {}
    BY DEF OInv, OrderInv, PiecesTyped, Evs
  <1>1. CASE TakeLog(k)
    <2>1. /\ UNCHANGED <<queue, reply, log, tail, nextSeq, cycles>> /\ buffer' = <<>>
          /\ leftover' = buffer \/ leftover' = <<>>
      BY <1>1 DEF TakeLog, stateVars
    <2>2. Evs(buffer') = {} /\ Evs(leftover') \subseteq Evs(buffer) /\ leftover' \in Seq(Entries)
      BY <1>0, <2>1
    <2> QED
      BY <1>0, <2>1, <2>2, PiecesOrder
  <1>2. CASE DropLog(k)
    <2>1. PICK n \in 0..Len(leftover) : log' = log \o SubSeq(leftover, 1, n)
      BY <1>2 DEF DropLog
    <2>2. UNCHANGED <<queue, reply, buffer, tail, nextSeq, cycles>> /\ leftover' = <<>>
      BY <1>2 DEF DropLog, stateVars
    <2> DEFINE part == SubSeq(leftover, 1, n)
    <2>3. part \in Seq(Entries) /\ Evs(part) \subseteq Evs(leftover)
      BY <1>0, Cut
    <2> HIDE DEF part
    <2>4. Evs(part) \cap AckedEvents = {}
      BY <2>3 DEF OInv, OrderInv, Loose, AckedEvents
    <2>5. InOrder(log \o part, AckedEvents)
      BY <1>0, <2>3, <2>4, OrderGrows
    <2>6. log \o part \in Seq(Entries) /\ Evs(log \o part) \subseteq Evs(log) \cup Evs(part)
      BY <1>0, <2>3, Joined
    <2>7. log' = log \o part
      BY <2>1 DEF part
    <2> QED
      BY <1>0, <2>2, <2>3, <2>5, <2>6, <2>7, PiecesOrder
  <1>3. CASE ReadTail(k)
    <2> DEFINE after == {i \in DOMAIN log : log[i].seq > ckSeq[k]}
    <2>1. /\ UNCHANGED <<queue, reply, log, buffer, leftover, nextSeq, cycles>>
          /\ tail' = Selected(log, after)
      BY <1>3 DEF ReadTail, stateVars, logVars
    <2>2. after \in SUBSET DOMAIN log
      OBVIOUS
    <2> HIDE DEF after
    <2>3. /\ Selected(log, after) \in Seq(Entries) /\ InOrder(Selected(log, after), AckedEvents)
          /\ Evs(Selected(log, after)) \subseteq Evs(log)
      BY <1>0, <2>2, OrderSelected
    <2> QED
      BY <1>0, <2>1, <2>3, PiecesOrder
  <1>4. CASE PromoteTail(k)
    <2>1. UNCHANGED <<queue, reply, buffer, leftover, tail, nextSeq, cycles>> /\ log' = tail
      BY <1>4 DEF PromoteTail, stateVars, ckVars
    <2> QED
      BY <1>0, <2>1, PiecesOrder
  <1>5. CASE Request(k) \/ PauseAndDrain(k) \/ CommitSnapshot(k) \/ RotateLog(k) \/ RewriteFails(k)
             \/ Resume(k) \/ Panic(k)
    <2>1. UNCHANGED <<queue, cycles, reply, log, buffer, leftover, tail, nextSeq>>
      BY <1>5 DEF Request, PauseAndDrain, CommitSnapshot, RotateLog, RewriteFails, Resume, Panic,
            stateVars, logVars, ckVars
    <2> QED
      BY <2>1, StillOrder
  <1> QED
    BY <1>1, <1>2, <1>3, <1>4, <1>5 DEF BarrierStep

LEMMA StepOrder == IInv /\ OInv /\ [Next]_vars => OInv'
  <1> SUFFICES ASSUME IInv, OInv, [Next]_vars PROVE OInv'
    OBVIOUS
  <1>1. CASE \E e \in Events : Append_(e)
    BY <1>1, AppendOrder
  <1>2. CASE FlushTakes
    BY <1>2, TakeOrder
  <1>3. ASSUME NEW c \in cycles, CycleStep(c) PROVE OInv'
    BY <1>3, WriteOrder, WriteFailsOrder, OpenFailsOrder, RepliesOrder, FinishOrder DEF CycleStep
  <1>4. CASE \E k \in Checkpointers : Request(k) \/ BarrierStep(k) \/ Panic(k)
    BY <1>4, BarrierOrder
  <1>5. CASE UNCHANGED vars
    BY <1>5, StillOrder DEF vars, stateVars, logVars, ckVars
  <1> QED
    BY <1>1, <1>2, <1>3, <1>4, <1>5 DEF Next

\* Whatever the overlap of cycles, failed flushes and checkpoints, events reach the
\* file only after their call, a call is made after the one before it is answered, and
\* what an answered call appended stands before what its caller appends next.
THEOREM OrderInvariant == Spec => []OrderInv
<1>1. Spec => []OInv
  BY InitOrder, StepOrder, IInvHolds, PTL DEF Spec
<1>2. OInv => OrderInv
  BY DEF OInv
<1> QED
  BY <1>1, <1>2, PTL

\* A caller that awaits one append before the next finds its acknowledged events in
\* that order in the file (flush_pending_batch, append_batch, persist_checkpoint).
THEOREM ProgramOrderHolds == Spec => []ProgramOrder
<1>1. OInv => ProgramOrder
  <2> SUFFICES ASSUME OInv, NEW i \in DOMAIN log, NEW j \in DOMAIN log,
                      Acked(log[i].ev), Prev[log[j].ev] = log[i].ev
               PROVE  i < j
    BY DEF ProgramOrder
  <2>1. log[i] \in Entries
    BY DEF OInv, PiecesTyped
  <2>2. log[i].ev \in AckedEvents
    BY <2>1 DEF AckedEvents, Entries
  <2> QED
    BY <2>2 DEF OInv, OrderInv, InOrder
<1>2. Spec => []OInv
  BY InitOrder, StepOrder, IInvHolds, PTL DEF Spec
<1> QED
  BY <1>1, <1>2, PTL
=============================================================================
