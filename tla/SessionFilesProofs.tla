------------------------- MODULE SessionFilesProofs -------------------------
(***************************************************************************)
(* Theorems about the files of a session: the two lock files, and the log  *)
(* with its checkpoints.                                                   *)
(*                                                                         *)
(* TurnLock, for any number of turns and processes and any number of retry *)
(* attempts.  LeaseExclusive says that a turn in a holding state owns the  *)
(* lock file; to know that a contender is refused by somebody else one     *)
(* also needs the converse, that the owner of the lock file is in a        *)
(* holding state.  HolderIffLock is that equivalence; with the type        *)
(* invariant and LeasePayload it is inductive.  The type invariant itself  *)
(* needs to know that a contender about to count an attempt has one left.  *)
(*                                                                         *)
(* CheckpointFiles: what crashes and failures in the middle of a           *)
(* checkpoint can do, for any number of events, checkpoints and failures:  *)
(* no acknowledged event leaves the disk and none is recovered twice.      *)
(* While a checkpoint is under way its snapshot and the log beyond its     *)
(* number cover everything and share nothing (Covered, Apart), wherever    *)
(* the log lies at that moment (Kept).  That the projection, from which    *)
(* the next snapshot is taken, is complete after a restart rests on the    *)
(* listing condition: only a log that no checkpoint has shortened is       *)
(* loaded again, and there the numbers of entries and events agree (Whole).*)
(***************************************************************************)
EXTENDS TurnLock, CheckpointFiles, TLAPS

AttemptLeft == \A t \in Turns : pc[t] \in {"idle"} \cup Contending => attempt[t] < Attempts

HolderIffLock == \A t \in Turns : lock = t <=> pc[t] \in Holding

LockIInv == TypeOK /\ HolderIffLock /\ LeasePayload

\* Every variable keeps its type through calls, drops and crashes.
THEOREM LockTypeCorrect == LockSpec => []TypeOK
<1>1. LockInit => TypeOK /\ AttemptLeft
  BY AttemptsAssumption DEF LockInit, TypeOK, AttemptLeft
<1>2. TypeOK /\ AttemptLeft /\ [LockNext]_lockVars => (TypeOK /\ AttemptLeft)'
  <2> SUFFICES ASSUME TypeOK, AttemptLeft, [LockNext]_lockVars PROVE TypeOK' /\ AttemptLeft'
    OBVIOUS
  <2> USE AttemptsAssumption DEF TypeOK, AttemptLeft, Goto, Take, Calling, Writing, Contending, Over
  <2>1. ASSUME NEW t \in Turns, TryAcquire(t) PROVE TypeOK' /\ AttemptLeft'
    BY <2>1 DEF TryAcquire
  <2>2. ASSUME NEW t \in Turns, TruncatePayload(t) PROVE TypeOK' /\ AttemptLeft'
    BY <2>2 DEF TruncatePayload
  <2>3. ASSUME NEW t \in Turns, WritePayload(t) PROVE TypeOK' /\ AttemptLeft'
    BY <2>3 DEF WritePayload
  <2>4. ASSUME NEW t \in Turns, WriteFails(t) PROVE TypeOK' /\ AttemptLeft'
    BY <2>4 DEF WriteFails
  <2>5. ASSUME NEW t \in Turns, ReadPayload(t) PROVE TypeOK' /\ AttemptLeft'
    BY <2>5 DEF ReadPayload
  <2>6. ASSUME NEW t \in Turns, Confirm(t) PROVE TypeOK' /\ AttemptLeft'
    BY <2>6 DEF Confirm
  <2>7. ASSUME NEW t \in Turns, Retry(t) PROVE TypeOK' /\ AttemptLeft'
    BY <2>7, AttemptsAssumption DEF Retry
  <2>8. ASSUME NEW t \in Turns, Unlock(t) PROVE TypeOK' /\ AttemptLeft'
    BY <2>8 DEF Unlock
  <2>9. ASSUME NEW t \in Turns, Unlink(t) PROVE TypeOK' /\ AttemptLeft'
    BY <2>9 DEF Unlink
  <2>10. ASSUME NEW p \in Pids, ProcessDies(p) PROVE TypeOK' /\ AttemptLeft'
    BY <2>10 DEF ProcessDies
  <2>11. CASE UNCHANGED lockVars
    BY <2>11 DEF lockVars
  <2> QED
    BY <2>1, <2>2, <2>3, <2>4, <2>5, <2>6, <2>7, <2>8, <2>9, <2>10, <2>11
    DEF LockNext, CallStep
<1> QED
  BY <1>1, <1>2, PTL DEF LockSpec

LEMMA LockInitIInv == LockInit => LockIInv
  BY AttemptsAssumption, MetaAssumption
  DEF LockInit, LockIInv, TypeOK, HolderIffLock, LeasePayload, Holding, Writing

LEMMA LockStepIInv == LockIInv /\ TypeOK' /\ [LockNext]_lockVars => LockIInv'
<1> SUFFICES ASSUME LockIInv, TypeOK', [LockNext]_lockVars
             PROVE  HolderIffLock' /\ LeasePayload'
  BY DEF LockIInv
<1> USE MetaAssumption
    DEF LockIInv, HolderIffLock, LeasePayload, TypeOK, Goto, Take, Holding, Writing, Contending
<1>1. ASSUME NEW t \in Turns, TryAcquire(t) PROVE HolderIffLock' /\ LeasePayload'
  BY <1>1 DEF TryAcquire
<1>2. ASSUME NEW t \in Turns, TruncatePayload(t) PROVE HolderIffLock' /\ LeasePayload'
  BY <1>2 DEF TruncatePayload
<1>3. ASSUME NEW t \in Turns, WritePayload(t) PROVE HolderIffLock' /\ LeasePayload'
  BY <1>3 DEF WritePayload
<1>4. ASSUME NEW t \in Turns, WriteFails(t) PROVE HolderIffLock' /\ LeasePayload'
  BY <1>4 DEF WriteFails
<1>5. ASSUME NEW t \in Turns, ReadPayload(t) PROVE HolderIffLock' /\ LeasePayload'
  BY <1>5 DEF ReadPayload
<1>6. ASSUME NEW t \in Turns, Confirm(t) PROVE HolderIffLock' /\ LeasePayload'
  BY <1>6 DEF Confirm
<1>7. ASSUME NEW t \in Turns, Retry(t) PROVE HolderIffLock' /\ LeasePayload'
  BY <1>7 DEF Retry
<1>8. ASSUME NEW t \in Turns, Unlock(t) PROVE HolderIffLock' /\ LeasePayload'
  BY <1>8 DEF Unlock
<1>9. ASSUME NEW t \in Turns, Unlink(t) PROVE HolderIffLock' /\ LeasePayload'
  BY <1>9 DEF Unlink
<1>10. ASSUME NEW p \in Pids, ProcessDies(p) PROVE HolderIffLock' /\ LeasePayload'
  BY <1>10 DEF ProcessDies
<1>11. CASE UNCHANGED lockVars
  BY <1>11 DEF lockVars
<1> QED
  BY <1>1, <1>2, <1>3, <1>4, <1>5, <1>6, <1>7, <1>8, <1>9, <1>10, <1>11
  DEF LockNext, CallStep

LEMMA LockIInvHolds == LockSpec => []LockIInv
  BY LockInitIInv, LockStepIInv, LockTypeCorrect, PTL DEF LockSpec

\* No two turns hold the lease of one session, in any number of processes.
THEOREM LeaseExclusiveHolds == LockSpec => []LeaseExclusive
<1>1. LockIInv => LeaseExclusive
  BY DEF LockIInv, HolderIffLock, LeaseExclusive
<1> QED
  BY <1>1, LockIInvHolds, PTL

\* A completed lease's payload file is its own or missing.
THEOREM LeasePayloadHolds == LockSpec => []LeasePayload
<1>1. LockIInv => LeasePayload
  BY DEF LockIInv
<1> QED
  BY <1>1, LockIInvHolds, PTL

\* A contender is turned away only while another turn holds the lock.
THEOREM RefusedOnlyWhileHeldHolds == LockSpec => RefusedOnlyWhileHeld
<1> DEFINE Refusal == \A t \in Turns :
              pc[t] \in Contending /\ pc'[t] \in {"busy", "unreadable"}
                 => lock \notin {t, NoTurn}
<1>1. LockIInv /\ [LockNext]_lockVars => [Refusal]_lockVars
  <2> SUFFICES ASSUME LockIInv, LockNext PROVE Refusal
    OBVIOUS
  <2> SUFFICES ASSUME NEW t \in Turns, pc[t] \in Contending,
                      pc'[t] \in {"busy", "unreadable"}
               PROVE  lock \notin {t, NoTurn}
    OBVIOUS
  <2>1. lock # t
    BY DEF LockIInv, HolderIffLock, Contending, Holding, Writing
  <2> USE DEF LockIInv, TypeOK, Goto, Take, Contending
  <2>2. ASSUME NEW u \in Turns, TryAcquire(u) PROVE lock # NoTurn
    BY <2>2 DEF TryAcquire
  <2>3. ASSUME NEW u \in Turns, CallStep(u) PROVE lock # NoTurn
    <3>1. CASE TruncatePayload(u) BY <3>1 DEF TruncatePayload
    <3>2. CASE WritePayload(u) BY <3>2 DEF WritePayload
    <3>3. CASE WriteFails(u) BY <3>3 DEF WriteFails
    <3>4. CASE ReadPayload(u) BY <3>4 DEF ReadPayload
    <3>5. CASE Confirm(u) BY <3>5 DEF Confirm
    <3>6. CASE Retry(u) BY <3>6 DEF Retry
    <3> QED BY <2>3, <3>1, <3>2, <3>3, <3>4, <3>5, <3>6 DEF CallStep
  <2>4. ASSUME NEW u \in Turns, Unlock(u) \/ Unlink(u) PROVE lock # NoTurn
    BY <2>4 DEF Unlock, Unlink
  <2>5. ASSUME NEW p \in Pids, ProcessDies(p) PROVE lock # NoTurn
    BY <2>5 DEF ProcessDies
  <2> QED
    BY <2>1, <2>2, <2>3, <2>4, <2>5 DEF LockNext
<1> QED
  BY <1>1, LockIInvHolds, PTL DEF LockSpec, RefusedOnlyWhileHeld

-----------------------------------------------------------------------------
\* Initial states are initial states of the lease contract.
LEMMA LockInitMaps == LockInit => Lease!LeaseInit
  BY DEF LockInit, Lease!LeaseInit, answerOf

\* Every step of the two-file protocol is a step of the contract or a stutter.
LEMMA LockStepMaps == LockIInv /\ LockIInv' /\ [LockNext]_lockVars => [Lease!LeaseNext]_(Lease!leaseVars)
<1> SUFFICES ASSUME LockIInv, LockIInv', [LockNext]_lockVars
             PROVE  Lease!LeaseNext \/ UNCHANGED <<lock, answerOf>>
  BY DEF Lease!leaseVars
<1> USE MetaAssumption DEF LockIInv, TypeOK, HolderIffLock, Goto, Take, Holding, Writing, answerOf
<1>1. ASSUME NEW t \in Turns, TryAcquire(t) PROVE Lease!Own(t) \/ UNCHANGED <<lock, answerOf>>
  BY <1>1 DEF TryAcquire, Lease!Own
<1>2. ASSUME NEW t \in Turns, TruncatePayload(t) PROVE UNCHANGED <<lock, answerOf>>
  BY <1>2 DEF TruncatePayload
<1>3. ASSUME NEW t \in Turns, WritePayload(t) PROVE Lease!Grant(t)
  BY <1>3 DEF WritePayload, Lease!Grant, Lease!Tell
<1>4. ASSUME NEW t \in Turns, WriteFails(t) PROVE Lease!Fail(t)
  BY <1>4 DEF WriteFails, Lease!Fail, Lease!Tell
<1>5. ASSUME NEW t \in Turns, ReadPayload(t) PROVE UNCHANGED <<lock, answerOf>>
  BY <1>5 DEF ReadPayload
<1>6. ASSUME NEW t \in Turns, Confirm(t) PROVE Lease!Own(t) \/ Lease!Refuse(t)
  BY <1>6 DEF Confirm, Lease!Own, Lease!Refuse, Lease!Tell
<1>7. ASSUME NEW t \in Turns, Retry(t)
      PROVE  Lease!Own(t) \/ Lease!Refuse(t) \/ UNCHANGED <<lock, answerOf>>
  BY <1>7 DEF Retry, Lease!Own, Lease!Refuse, Lease!Tell
<1>8. ASSUME NEW t \in Turns, Unlock(t) PROVE Lease!Release(t)
  BY <1>8 DEF Unlock, Lease!Release, Lease!Tell
<1>9. ASSUME NEW t \in Turns, Unlink(t) PROVE UNCHANGED <<lock, answerOf>>
  BY <1>9 DEF Unlink
<1>10. ASSUME NEW p \in Pids, ProcessDies(p) PROVE \E S \in SUBSET Turns : Lease!Die(S)
  <2> DEFINE mine == {t \in Turns : PidOf[t] = p}
  <2>1. Lease!Die(mine)
    BY <1>10 DEF ProcessDies, Lease!Die
  <2> QED
    BY <2>1
<1>11. CASE UNCHANGED lockVars
  BY <1>11 DEF lockVars
<1> QED
  BY <1>1, <1>2, <1>3, <1>4, <1>5, <1>6, <1>7, <1>8, <1>9, <1>10, <1>11
  DEF LockNext, CallStep, Lease!LeaseNext

\* The lock file and the payload file together implement the lease contract.
THEOREM LockImplementsLease == LockSpec => ImplementsLease
  BY LockInitMaps, LockStepMaps, LockIInvHolds, PTL DEF LockSpec, ImplementsLease, Lease!LeaseSpec

-----------------------------------------------------------------------------
Entries == [seq : Nat, ev : 1..count]
HasLast(F) == F = {} \/ \E e \in F : \A f \in F : f.seq <= e.seq

\* The log, which lies under its backup's name until its tail is promoted.
Kept == IF stage = "promote" THEN bak ELSE log

Committed == {"clear", "mark", "unbak", "rotate", "promote", "cleanup"}
Pending == {"built", "read", "snapshot", "clear", "mark", "unbak", "rotate", "promote"}

Types ==
    /\ count \in Nat \ {0}
    /\ nextSeq \in Nat /\ ckSeq \in Nat
    /\ marker \in Nat \cup {NoMarker}
    /\ stage \in {"idle", "built", "down"} \cup Rewriting
    /\ log \subseteq Entries /\ bak \subseteq Entries /\ tail \subseteq Entries
    /\ DOMAIN snaps \subseteq Nat
    /\ \A s \in DOMAIN snaps : snaps[s] \subseteq 1..count
    /\ payload \subseteq 1..count
    /\ acked = 1..count

\* What is in memory is complete, and the log is closed while it is rewritten.
Loaded ==
    /\ stage # "down" => applied = acked
    /\ stage \in {"down"} \cup Rewriting => nextSeq = 0

\* Numbers increase, and the tail is what lies beyond the checkpoint.
Numbered ==
    /\ HasLast(Kept)
    /\ stage = "promote" => log = {}
    /\ nextSeq # 0 => \A e \in log : e.seq < nextSeq
    /\ stage \in Pending => \E e \in Kept : e.seq >= ckSeq
    /\ stage \in Rewriting \ {"read"} => HasLast(tail)
    /\ stage \in Rewriting \ {"read", "cleanup"} => tail = After(Kept, ckSeq)
    /\ stage = "cleanup" => tail = log

Covered ==
    /\ stage \in Pending => acked \subseteq payload \cup Evs(After(Kept, ckSeq))
    /\ stage \in Committed => ckSeq \in DOMAIN snaps /\ snaps[ckSeq] = payload
    /\ stage = "cleanup" => acked \subseteq payload \cup Evs(log)
    /\ NothingDestroyed

Apart ==
    /\ stage \in Pending => payload \cap Evs(After(Kept, ckSeq)) = {}
    /\ marker \in DOMAIN snaps => snaps[marker] \cap Evs(After(Kept, marker)) = {}

\* A log that begins with sessionStart has never been shortened.
Whole ==
    1 \in Evs(Kept) =>
        /\ Kept = {[seq |-> i, ev |-> i] : i \in 1..count}
        /\ \A s \in DOMAIN snaps : s <= count /\ snaps[s] = 1..s
        /\ stage \in Pending => ckSeq \in 1..count /\ payload = 1..ckSeq
        /\ nextSeq \in {0, count + 1}

IInv == Types /\ Loaded /\ Numbered /\ Covered /\ Apart /\ Whole

LEMMA InitIInv == Init => IInv
  BY BoundAssumption
  DEF Init, IInv, Types, Entries, Loaded, Numbered, Covered, Apart, Whole, NothingDestroyed,
      HasLast, Kept, Committed, Pending, Rewriting, After, Evs

-----------------------------------------------------------------------------
LEMMA LastNumber ==
    ASSUME NEW F, F \subseteq Entries, HasLast(F), F # {}
    PROVE  /\ Max(Seqs(F)) \in Nat
           /\ \E e \in F : e.seq = Max(Seqs(F))
           /\ \A f \in F : f.seq <= Max(Seqs(F))
<1>1. PICK e \in F : \A f \in F : f.seq <= e.seq
  BY DEF HasLast
<1>2. /\ Seqs(F) \subseteq Nat
      /\ \E x \in Seqs(F) : \A y \in Seqs(F) : x >= y
  BY <1>1 DEF Seqs, Entries
<1>3. /\ Max(Seqs(F)) \in Seqs(F)
      /\ \A y \in Seqs(F) : Max(Seqs(F)) >= y
  BY <1>2 DEF Max
<1> QED
  BY <1>2, <1>3 DEF Seqs

LEMMA TailHasLast ==
    ASSUME NEW F, F \subseteq Entries, HasLast(F), NEW n \in Nat
    PROVE  HasLast(After(F, n))
<1>1. CASE After(F, n) = {}
  BY <1>1 DEF HasLast
<1>2. CASE After(F, n) # {}
  <2>1. PICK e \in F : \A f \in F : f.seq <= e.seq
    BY <1>2 DEF HasLast, After
  <2>2. PICK f \in F : f.seq > n
    BY <1>2 DEF After
  <2>3. e.seq > n
    BY <2>1, <2>2 DEF Entries
  <2> QED
    BY <2>1, <2>3 DEF HasLast, After
<1> QED
  BY <1>1, <1>2

\* What an append adds, whether the log was open or not.
LEMMA Appended ==
    ASSUME IInv, Append_
    PROVE  \E s \in Nat :
              /\ log' = log \cup {[seq |-> s, ev |-> count + 1]}
              /\ nextSeq' = s + 1
              /\ \A e \in log : e.seq < s
              /\ 1 \in Evs(log) => s = count + 1
<1> DEFINE s == IF nextSeq = 0 THEN SeqAfter(log) ELSE nextSeq
<1>1. /\ log' = log \cup {[seq |-> s, ev |-> count + 1]}
      /\ nextSeq' = s + 1
      /\ stage \in {"idle", "built"}
  BY DEF Append_
<1>2. Kept = log /\ log \subseteq Entries /\ HasLast(log) /\ count \in Nat \ {0}
  BY <1>1 DEF IInv, Types, Numbered, Kept
<1>3. CASE nextSeq # 0
  <2>1. s = nextSeq /\ nextSeq \in Nat
    BY <1>3 DEF IInv, Types
  <2>2. \A e \in log : e.seq < nextSeq
    BY <1>3 DEF IInv, Numbered
  <2>3. 1 \in Evs(log) => nextSeq = count + 1
    BY <1>2, <1>3 DEF IInv, Whole
  <2> QED
    BY <1>1, <2>1, <2>2, <2>3
<1>4. CASE nextSeq = 0 /\ log = {}
  BY <1>1, <1>4 DEF SeqAfter, Evs
<1>5. CASE nextSeq = 0 /\ log # {}
  <2> DEFINE last == Max(Seqs(log))
  <2>1. /\ last \in Nat
        /\ \E e \in log : e.seq = last
        /\ \A f \in log : f.seq <= last
    BY <1>2, <1>5, LastNumber
  <2>2. s = last + 1
    BY <1>5 DEF SeqAfter
  <2>3. ASSUME 1 \in Evs(log) PROVE last = count
    <3>1. log = {[seq |-> i, ev |-> i] : i \in 1..count}
      BY <1>2, <2>3 DEF IInv, Whole
    <3>2. [seq |-> count, ev |-> count] \in log
      BY <1>2, <3>1
    <3>3. last >= count
      BY <2>1, <3>2
    <3>4. last <= count
      BY <2>1, <3>1, <1>2
    <3> QED
      BY <1>2, <2>1, <3>3, <3>4
  <2>4. \A e \in log : e.seq < s
    BY <1>2, <2>1, <2>2 DEF Entries
  <2> HIDE DEF s, last
  <2> QED
    BY <1>1, <2>1, <2>2, <2>3, <2>4
<1> QED
  BY <1>3, <1>4, <1>5

LEMMA AppendKeeps == IInv /\ Append_ => IInv'
<1> SUFFICES ASSUME IInv, Append_ PROVE IInv'
  OBVIOUS
<1>1. PICK s \in Nat :
          /\ log' = log \cup {[seq |-> s, ev |-> count + 1]}
          /\ nextSeq' = s + 1
          /\ \A e \in log : e.seq < s
          /\ 1 \in Evs(log) => s = count + 1
  BY Appended
<1>2. /\ stage \in {"idle", "built"} /\ stage' = stage
      /\ count' = count + 1 /\ acked' = acked \cup {count + 1}
      /\ applied' = applied \cup {count + 1}
      /\ UNCHANGED <<bak, snaps, marker, ckSeq, payload, tail>>
  BY DEF Append_, progress
<1>3. Kept = log /\ Kept' = log'
  BY <1>2 DEF Kept
<1> DEFINE new == [seq |-> s, ev |-> count + 1]
<1>4. count \in Nat \ {0} /\ new.seq = s /\ new.ev = count + 1
  BY DEF IInv, Types
<1>5. Types'
  BY <1>1, <1>2 DEF IInv, Types, Entries
<1>6. Loaded'
  BY <1>2 DEF IInv, Loaded, Rewriting
<1>7. Numbered'
  BY <1>1, <1>2, <1>3, <1>4 DEF IInv, Numbered, HasLast, Rewriting, Types, Entries, Pending
<1>8. stage = "built" => After(log', ckSeq) = After(log, ckSeq) \cup {new}
  BY <1>1, <1>2, <1>3, <1>4 DEF IInv, Numbered, Types, Entries, After, Pending
<1>9. Evs(log') = Evs(log) \cup {count + 1}
  BY <1>1, <1>4 DEF Evs
<1>10. Covered'
  <2>1. NothingDestroyed'
    BY <1>2, <1>9 DEF IInv, Covered, NothingDestroyed
  <2>2. stage = "built" => acked' \subseteq payload \cup Evs(After(log', ckSeq))
    <3>1. Evs(After(log, ckSeq) \cup {new}) = Evs(After(log, ckSeq)) \cup {count + 1}
      BY <1>4 DEF Evs
    <3>2. stage = "built" => acked \subseteq payload \cup Evs(After(log, ckSeq))
      BY <1>3 DEF IInv, Covered, Pending
    <3> QED
      BY <1>2, <1>8, <3>1, <3>2
  <2> QED
    BY <1>2, <1>3, <2>1, <2>2 DEF Covered, Pending, Committed
<1>11. Apart'
  <2>1. \A n : Evs(After(log', n)) \subseteq Evs(After(log, n)) \cup {count + 1}
    BY <1>1, <1>4 DEF Evs, After
  <2>2. payload \subseteq 1..count /\ \A m \in DOMAIN snaps : snaps[m] \subseteq 1..count
    BY DEF IInv, Types
  <2>3. count + 1 \notin 1..count
    BY <1>4
  <2> QED
    BY <1>2, <1>3, <2>1, <2>2, <2>3 DEF IInv, Apart, Pending
<1>12. Whole'
  <2> SUFFICES ASSUME 1 \in Evs(log')
               PROVE  /\ log' = {[seq |-> i, ev |-> i] : i \in 1..(count + 1)}
                      /\ \A m \in DOMAIN snaps : m <= count + 1 /\ snaps[m] = 1..m
                      /\ stage \in Pending => ckSeq \in 1..(count + 1) /\ payload = 1..ckSeq
                      /\ nextSeq' = count + 2
    BY <1>2, <1>3, <1>4 DEF Whole
  <2>1. 1 \in Evs(log)
    BY <1>4, <1>9
  <2>2. /\ log = {[seq |-> i, ev |-> i] : i \in 1..count}
        /\ \A m \in DOMAIN snaps : m <= count /\ snaps[m] = 1..m
        /\ stage \in Pending => ckSeq \in 1..count /\ payload = 1..ckSeq
    BY <1>3, <2>1 DEF IInv, Whole
  <2>3. s = count + 1
    BY <1>1, <2>1
  <2>4. 1..(count + 1) = 1..count \cup {count + 1}
    BY <1>4
  <2>5. log' = {[seq |-> i, ev |-> i] : i \in 1..(count + 1)}
    BY <1>1, <2>2, <2>3, <2>4
  <2>6. DOMAIN snaps \subseteq Nat
    BY DEF IInv, Types
  <2> QED
    BY <1>1, <1>4, <2>2, <2>3, <2>5, <2>6
<1> QED
  BY <1>5, <1>6, <1>7, <1>10, <1>11, <1>12 DEF IInv

LEMMA BuildKeeps == IInv /\ Build => IInv'
<1> SUFFICES ASSUME IInv, Build PROVE IInv'
  OBVIOUS
<1>1. /\ stage = "idle" /\ stage' = "built" /\ log # {}
      /\ ckSeq' = Max(Seqs(log)) /\ payload' = applied
      /\ UNCHANGED <<log, bak, snaps, marker, nextSeq, acked, applied, tail, count>>
  BY DEF Build, files
<1>2. Kept = log /\ Kept' = log /\ log \subseteq Entries /\ HasLast(log) /\ applied = acked
  BY <1>1 DEF Kept, IInv, Types, Numbered, Loaded
<1>3. /\ ckSeq' \in Nat
      /\ \E e \in log : e.seq = ckSeq'
      /\ \A f \in log : f.seq <= ckSeq'
  BY <1>1, <1>2, LastNumber
<1>4. After(log, ckSeq') = {}
  BY <1>2, <1>3 DEF After, Entries
<1>5. Types'
  BY <1>1, <1>2, <1>3 DEF IInv, Types, Entries
<1>6. Loaded'
  BY <1>1 DEF IInv, Loaded, Rewriting
<1>7. Numbered'
  BY <1>1, <1>2, <1>3 DEF IInv, Numbered, Rewriting, Pending, HasLast, Entries
<1>8. Covered'
  BY <1>1, <1>2, <1>4 DEF IInv, Covered, NothingDestroyed, Committed, Pending
<1>9. Apart'
  BY <1>1, <1>2, <1>4 DEF IInv, Apart, Evs
<1>10. Whole'
  <2> SUFFICES ASSUME 1 \in Evs(log)
               PROVE  ckSeq' = count
    BY <1>1, <1>2 DEF IInv, Whole, Types
  <2>1. log = {[seq |-> i, ev |-> i] : i \in 1..count} /\ count \in Nat \ {0}
    BY <1>2 DEF IInv, Whole, Types
  <2>2. [seq |-> count, ev |-> count] \in log
    BY <2>1
  <2>3. ckSeq' >= count
    BY <1>3, <2>2
  <2>4. ckSeq' <= count
    BY <1>3, <2>1
  <2> QED
    BY <1>3, <2>1, <2>3, <2>4
<1> QED
  BY <1>5, <1>6, <1>7, <1>8, <1>9, <1>10 DEF IInv

-----------------------------------------------------------------------------
\* The steps of persist_checkpoint up to the rotation change no log.
LEMMA CloseLogKeeps == IInv /\ CloseLog => IInv'
<1> SUFFICES ASSUME IInv, CloseLog PROVE IInv'
  OBVIOUS
<1>1. /\ stage = "built" /\ stage' = "read" /\ nextSeq' = 0
      /\ UNCHANGED <<log, bak, snaps, marker, acked, applied, ckSeq, payload, tail, count>>
  BY DEF CloseLog, files, progress
<1>2. Kept' = Kept
  BY <1>1 DEF Kept
<1>3. Types' /\ Loaded'
  BY <1>1 DEF IInv, Types, Entries, Loaded, Rewriting
<1>4. Numbered'
  BY <1>1, <1>2 DEF IInv, Numbered, HasLast, Rewriting, Pending
<1>5. Covered'
  BY <1>1, <1>2 DEF IInv, Covered, NothingDestroyed, Pending, Committed
<1>6. Apart' /\ Whole'
  BY <1>1, <1>2 DEF IInv, Apart, Whole, Pending
<1> QED
  BY <1>3, <1>4, <1>5, <1>6 DEF IInv

LEMMA ReadTailKeeps == IInv /\ ReadTail => IInv'
<1> SUFFICES ASSUME IInv, ReadTail PROVE IInv'
  OBVIOUS
<1>1. /\ stage = "read" /\ stage' = "snapshot" /\ tail' = After(log, ckSeq)
      /\ UNCHANGED <<log, bak, snaps, marker, nextSeq, acked, applied, ckSeq, payload, count>>
  BY DEF ReadTail, files
<1>2. Kept = log /\ Kept' = Kept
  BY <1>1 DEF Kept
<1>3. HasLast(tail') /\ tail' \subseteq Entries
  BY <1>1, <1>2, TailHasLast DEF IInv, Types, Numbered, After
<1>4. Types' /\ Loaded'
  BY <1>1, <1>3 DEF IInv, Types, Entries, Loaded, Rewriting
<1>5. Numbered'
  BY <1>1, <1>2, <1>3 DEF IInv, Numbered, Rewriting, Pending
<1>6. Covered'
  BY <1>1, <1>2 DEF IInv, Covered, NothingDestroyed, Pending, Committed
<1>7. Apart' /\ Whole'
  BY <1>1, <1>2 DEF IInv, Apart, Whole, Pending
<1> QED
  BY <1>4, <1>5, <1>6, <1>7 DEF IInv

LEMMA CommitSnapshotKeeps == IInv /\ CommitSnapshot => IInv'
<1> SUFFICES ASSUME IInv, CommitSnapshot PROVE IInv'
  OBVIOUS
<1>1. /\ stage = "snapshot" /\ stage' = "clear"
      /\ snaps' = [s \in DOMAIN snaps \cup {ckSeq} |-> IF s = ckSeq THEN payload ELSE snaps[s]]
      /\ UNCHANGED <<log, bak, marker, nextSeq, acked, applied, ckSeq, payload, tail, count>>
  BY DEF CommitSnapshot, progress
<1>2. Kept = log /\ Kept' = Kept
  BY <1>1 DEF Kept
<1>3. /\ DOMAIN snaps' = DOMAIN snaps \cup {ckSeq}
      /\ snaps'[ckSeq] = payload
      /\ \A s \in DOMAIN snaps \ {ckSeq} : snaps'[s] = snaps[s]
  BY <1>1
<1>4. acked \subseteq payload \cup Evs(After(log, ckSeq))
  BY <1>1, <1>2 DEF IInv, Covered, Pending
<1>5. Types'
  BY <1>1, <1>3 DEF IInv, Types, Entries, Rewriting
<1>6. Loaded' /\ Numbered'
  BY <1>1, <1>2 DEF IInv, Loaded, Numbered, Rewriting, HasLast, Pending
<1>7. Covered'
  <2>1. Evs(After(log, ckSeq)) \subseteq Evs(log)
    BY DEF Evs, After
  <2>2. payload \subseteq UNION {snaps'[s] : s \in DOMAIN snaps'}
    BY <1>3
  <2>3. NothingDestroyed'
    BY <1>1, <1>4, <2>1, <2>2 DEF NothingDestroyed
  <2> QED
    BY <1>1, <1>2, <1>3, <1>4, <2>3 DEF Covered, Pending, Committed
<1>8. Apart'
  BY <1>1, <1>2, <1>3 DEF IInv, Apart, Pending
<1>9. Whole'
  BY <1>1, <1>2, <1>3 DEF IInv, Whole, Pending
<1> QED
  BY <1>5, <1>6, <1>7, <1>8, <1>9 DEF IInv

LEMMA MarkerKeeps == IInv /\ (ClearMarker \/ PlaceMarker) => IInv'
<1> SUFFICES ASSUME IInv, ClearMarker \/ PlaceMarker PROVE IInv'
  OBVIOUS
<1>1. /\ stage \in {"clear", "mark"} /\ stage' \in {"mark", "unbak"}
      /\ marker' \in {NoMarker, ckSeq}
      /\ UNCHANGED <<log, bak, snaps, nextSeq, acked, applied, ckSeq, payload, tail, count>>
  BY DEF ClearMarker, PlaceMarker, progress
<1>2. Kept = log /\ Kept' = Kept
  BY <1>1 DEF Kept
<1>3. Types' /\ Loaded' /\ Numbered'
  BY <1>1, <1>2 DEF IInv, Types, Entries, Loaded, Numbered, Rewriting, HasLast, Pending
<1>4. Covered' /\ Whole'
  BY <1>1, <1>2 DEF IInv, Covered, Whole, NothingDestroyed, Pending, Committed
<1>5. Apart'
  <2>1. /\ payload \cap Evs(After(Kept, ckSeq)) = {}
        /\ snaps[ckSeq] = payload
    BY <1>1 DEF IInv, Apart, Covered, Pending, Committed
  <2>2. NoMarker \notin DOMAIN snaps
    BY MarkerAssumption DEF IInv, Types
  <2> QED
    BY <1>1, <1>2, <2>1, <2>2 DEF Apart, Pending
<1> QED
  BY <1>3, <1>4, <1>5 DEF IInv

LEMMA RemoveStaleBackupKeeps == IInv /\ RemoveStaleBackup => IInv'
<1> SUFFICES ASSUME IInv, RemoveStaleBackup PROVE IInv'
  OBVIOUS
<1>1. /\ stage = "unbak" /\ stage' = "rotate" /\ bak' = {}
      /\ UNCHANGED <<log, snaps, marker, nextSeq, acked, applied, ckSeq, payload, tail, count>>
  BY DEF RemoveStaleBackup, progress
<1>2. Kept = log /\ Kept' = Kept
  BY <1>1 DEF Kept
<1>3. Types' /\ Loaded' /\ Numbered'
  BY <1>1, <1>2 DEF IInv, Types, Entries, Loaded, Numbered, Rewriting, HasLast, Pending
<1>4. NothingDestroyed'
  <2>1. acked \subseteq snaps[ckSeq] \cup Evs(After(log, ckSeq)) /\ ckSeq \in DOMAIN snaps
    BY <1>1, <1>2 DEF IInv, Covered, Pending, Committed
  <2>2. Evs(After(log, ckSeq)) \subseteq Evs(log)
    BY DEF Evs, After
  <2> QED
    BY <1>1, <2>1, <2>2 DEF NothingDestroyed
<1>5. Covered'
  BY <1>1, <1>2, <1>4 DEF IInv, Covered, Pending, Committed
<1>6. Apart' /\ Whole'
  BY <1>1, <1>2 DEF IInv, Apart, Whole, Pending
<1> QED
  BY <1>3, <1>5, <1>6 DEF IInv

\* Then the log is moved aside and its tail takes its place.
LEMMA RotateLogKeeps == IInv /\ RotateLog => IInv'
<1> SUFFICES ASSUME IInv, RotateLog PROVE IInv'
  OBVIOUS
<1>1. /\ stage = "rotate" /\ stage' = "promote" /\ bak' = log /\ log' = {}
      /\ UNCHANGED <<snaps, marker, nextSeq, acked, applied, ckSeq, payload, tail, count>>
  BY DEF RotateLog, progress
<1>2. Kept = log /\ Kept' = Kept
  BY <1>1 DEF Kept
<1>3. Types' /\ Loaded' /\ Numbered'
  BY <1>1, <1>2 DEF IInv, Types, Entries, Loaded, Numbered, Rewriting, HasLast, Pending
<1>4. NothingDestroyed'
  <2>1. acked \subseteq snaps[ckSeq] \cup Evs(After(log, ckSeq)) /\ ckSeq \in DOMAIN snaps
    BY <1>1, <1>2 DEF IInv, Covered, Pending, Committed
  <2>2. Evs(After(log, ckSeq)) \subseteq Evs(log)
    BY DEF Evs, After
  <2> QED
    BY <1>1, <2>1, <2>2 DEF NothingDestroyed
<1>5. Covered'
  BY <1>1, <1>2, <1>4 DEF IInv, Covered, Pending, Committed
<1>6. Apart' /\ Whole'
  BY <1>1, <1>2 DEF IInv, Apart, Whole, Pending
<1> QED
  BY <1>3, <1>5, <1>6 DEF IInv

LEMMA PromoteTailKeeps == IInv /\ PromoteTail => IInv'
<1> SUFFICES ASSUME IInv, PromoteTail PROVE IInv'
  OBVIOUS
<1>1. /\ stage = "promote" /\ stage' = "cleanup" /\ log' = tail
      /\ UNCHANGED <<bak, snaps, marker, nextSeq, acked, applied, ckSeq, payload, tail, count>>
  BY DEF PromoteTail, progress
<1>2. Kept' = tail /\ tail = After(Kept, ckSeq) /\ HasLast(tail) /\ nextSeq = 0
  BY <1>1 DEF Kept, IInv, Numbered, Loaded, Rewriting
<1>3. acked \subseteq snaps[ckSeq] \cup Evs(tail) /\ ckSeq \in DOMAIN snaps /\ snaps[ckSeq] = payload
  BY <1>1, <1>2 DEF IInv, Covered, Pending, Committed
<1>4. Types' /\ Loaded' /\ Numbered'
  BY <1>1, <1>2 DEF IInv, Types, Entries, Loaded, Numbered, Rewriting, HasLast, Pending
<1>5. Covered'
  <2>1. NothingDestroyed'
    BY <1>1, <1>3 DEF NothingDestroyed
  <2> QED
    BY <1>1, <1>3, <2>1 DEF Covered, Pending, Committed
<1>6. Apart'
  <2>1. Evs(After(tail, marker)) \subseteq Evs(After(Kept, marker))
    BY <1>2 DEF Evs, After
  <2> QED
    BY <1>1, <1>2, <2>1 DEF IInv, Apart, Pending
<1>7. 1 \notin Evs(tail)
  <2> SUFFICES ASSUME NEW e \in tail, e.ev = 1 PROVE FALSE
    BY DEF Evs
  <2>1. e \in Kept /\ e.seq > ckSeq
    BY <1>2 DEF After
  <2>2. 1 \in Evs(Kept)
    BY <2>1 DEF Evs
  <2>3. Kept = {[seq |-> i, ev |-> i] : i \in 1..count} /\ ckSeq \in 1..count
    BY <1>1, <2>2 DEF IInv, Whole, Pending
  <2>4. e.seq = 1
    BY <2>1, <2>3
  <2> QED
    BY <2>1, <2>3, <2>4 DEF IInv, Types
<1>8. Whole'
  BY <1>2, <1>7 DEF Whole
<1> QED
  BY <1>4, <1>5, <1>6, <1>8 DEF IInv

LEMMA RemoveBackupKeeps == IInv /\ RemoveBackup => IInv'
<1> SUFFICES ASSUME IInv, RemoveBackup PROVE IInv'
  OBVIOUS
<1>1. /\ stage = "cleanup" /\ stage' = "idle" /\ bak' = {}
      /\ UNCHANGED <<log, snaps, marker, nextSeq, acked, applied, ckSeq, payload, tail, count>>
  BY DEF RemoveBackup, progress
<1>2. Kept = log /\ Kept' = Kept
  BY <1>1 DEF Kept
<1>3. Types' /\ Loaded' /\ Numbered'
  BY <1>1, <1>2 DEF IInv, Types, Entries, Loaded, Numbered, Rewriting, HasLast, Pending
<1>4. NothingDestroyed'
  <2>1. acked \subseteq snaps[ckSeq] \cup Evs(log) /\ ckSeq \in DOMAIN snaps
    BY <1>1, <1>2 DEF IInv, Covered, Pending, Committed
  <2> QED
    BY <1>1, <2>1 DEF NothingDestroyed
<1>5. Covered'
  BY <1>1, <1>4 DEF Covered, Pending, Committed
<1>6. Apart' /\ Whole'
  BY <1>1, <1>2 DEF IInv, Apart, Whole, Pending
<1> QED
  BY <1>3, <1>5, <1>6 DEF IInv

-----------------------------------------------------------------------------
\* An error leaves the files as they are, or moves the backup back.
LEMMA StepFailsKeeps == IInv /\ StepFails => IInv'
<1> SUFFICES ASSUME IInv, StepFails PROVE IInv'
  OBVIOUS
<1>1. /\ stage \in Rewriting /\ stage' = "idle"
      /\ UNCHANGED <<snaps, marker, nextSeq, acked, applied, ckSeq, payload, tail, count>>
  BY DEF StepFails, progress
<1>2. \/ stage = "promote" /\ log' = bak /\ bak' = {}
      \/ UNCHANGED <<log, bak>>
  BY DEF StepFails
<1>3. Kept' = log' /\ log' \in {Kept, {}}
  BY <1>1, <1>2 DEF Kept, IInv, Numbered
<1>4. HasLast(Kept')
  BY <1>3 DEF IInv, Numbered, HasLast
<1>5. Types'
  BY <1>1, <1>2 DEF IInv, Types, Entries
<1>6. Loaded' /\ Numbered'
  BY <1>1, <1>3, <1>4 DEF IInv, Loaded, Numbered, Rewriting, Pending
<1>7. NothingDestroyed'
  <2>1. Evs(log) \cup Evs(bak) \subseteq Evs(log') \cup Evs(bak')
    BY <1>2 DEF IInv, Numbered, Evs
  <2> QED
    BY <1>1, <2>1 DEF IInv, Covered, NothingDestroyed
<1>8. Covered'
  BY <1>1, <1>7 DEF Covered, Pending, Committed
<1>9. Apart'
  BY <1>1, <1>3 DEF IInv, Apart, Pending, Evs, After
<1>10. Whole'
  BY <1>1, <1>3 DEF IInv, Whole, Pending, Evs
<1> QED
  BY <1>5, <1>6, <1>8, <1>9, <1>10 DEF IInv

LEMMA CrashKeeps == IInv /\ Crash => IInv'
<1> SUFFICES ASSUME IInv, Crash PROVE IInv'
  OBVIOUS
<1>1. /\ stage' = "down" /\ nextSeq' = 0
      /\ ckSeq' = 0 /\ payload' = {} /\ tail' = {}
      /\ UNCHANGED <<log, bak, snaps, marker, acked, count>>
  BY DEF Crash, files
<1>2. Kept' = log /\ log \in {Kept, {}}
  BY <1>1 DEF Kept, IInv, Numbered
<1>3. Types'
  BY <1>1 DEF IInv, Types, Entries
<1>4. Loaded' /\ Numbered'
  BY <1>1, <1>2 DEF IInv, Loaded, Numbered, Rewriting, Pending, HasLast
<1>5. Covered'
  BY <1>1 DEF IInv, Covered, NothingDestroyed, Pending, Committed
<1>6. Apart'
  BY <1>1, <1>2 DEF IInv, Apart, Pending, Evs, After
<1>7. Whole'
  BY <1>1, <1>2 DEF IInv, Whole, Pending, Evs
<1> QED
  BY <1>3, <1>4, <1>5, <1>6, <1>7 DEF IInv

\* A session that can be loaded is recovered completely.
LEMMA RecoveredComplete ==
    ASSUME IInv, stage = "down", Listed, MarkerReadable
    PROVE  Recovered = acked
<1>1. Kept = log /\ acked = 1..count /\ count \in Nat \ {0}
  BY DEF Kept, IInv, Types
<1>2. /\ log = {[seq |-> i, ev |-> i] : i \in 1..count}
      /\ \A s \in DOMAIN snaps : s <= count /\ snaps[s] = 1..s
  BY <1>1 DEF IInv, Whole, Listed
<1>3. CASE marker = NoMarker
  <2>1. Evs(log) = 1..count
    <3>1. \A i \in 1..count : [seq |-> i, ev |-> i] \in log /\ [seq |-> i, ev |-> i].ev = i
      BY <1>2
    <3>2. \A e \in log : e.ev \in 1..count
      BY <1>2
    <3> QED
      BY <3>1, <3>2 DEF Evs
  <2> QED
    BY <1>1, <1>3, <2>1 DEF Recovered, Checkpointed, TailRecovered
<1>4. CASE marker # NoMarker
  <2>1. marker \in Nat /\ marker <= count /\ snaps[marker] = 1..marker
    BY <1>2, <1>4 DEF MarkerReadable, IInv, Types
  <2>2. Evs(After(log, marker)) = {i \in 1..count : i > marker}
    <3>1. \A i \in 1..count : /\ [seq |-> i, ev |-> i] \in log
                             /\ [seq |-> i, ev |-> i].seq = i /\ [seq |-> i, ev |-> i].ev = i
      BY <1>2
    <3>2. \A e \in log : e.ev \in 1..count /\ e.seq = e.ev
      BY <1>2
    <3> QED
      BY <3>1, <3>2 DEF Evs, After
  <2>3. Recovered = 1..marker \cup {i \in 1..count : i > marker}
    BY <1>4, <2>1, <2>2 DEF Recovered, Checkpointed, TailRecovered
  <2> QED
    BY <1>1, <2>1, <2>3
<1> QED
  BY <1>3, <1>4

LEMMA ReloadKeeps == IInv /\ Reload => IInv'
<1> SUFFICES ASSUME IInv, Reload PROVE IInv'
  OBVIOUS
<1>1. /\ stage = "down" /\ stage' = "idle" /\ applied' = acked
      /\ UNCHANGED <<log, bak, snaps, marker, nextSeq, acked, ckSeq, payload, tail, count>>
  BY RecoveredComplete DEF Reload, files, progress
<1>2. Kept' = Kept
  BY <1>1 DEF Kept
<1> QED
  BY <1>1, <1>2
  DEF IInv, Types, Entries, Loaded, Numbered, Covered, Apart, Whole, NothingDestroyed,
      HasLast, Pending, Committed, Rewriting

LEMMA IInvHolds == Spec => []IInv
<1>1. IInv /\ [Next]_vars => IInv'
  <2> SUFFICES ASSUME IInv, [Next]_vars PROVE IInv'
    OBVIOUS
  <2>1. CASE UNCHANGED vars
    <3>1. /\ UNCHANGED <<log, bak, snaps, marker, stage, nextSeq, acked, applied, ckSeq,
                         payload, tail, count>>
          /\ Kept' = Kept
      BY <2>1 DEF vars, files, progress, Kept
    <3>2. Types' /\ Loaded' /\ Numbered'
      BY <3>1 DEF IInv, Types, Entries, Loaded, Numbered, HasLast
    <3>3. Covered' /\ Apart' /\ Whole'
      BY <3>1 DEF IInv, Covered, Apart, Whole, NothingDestroyed
    <3> QED
      BY <3>2, <3>3 DEF IInv
  <2> QED
    BY <2>1, AppendKeeps, BuildKeeps, CloseLogKeeps, ReadTailKeeps, CommitSnapshotKeeps,
       MarkerKeeps, RemoveStaleBackupKeeps, RotateLogKeeps, PromoteTailKeeps,
       RemoveBackupKeeps, StepFailsKeeps, CrashKeeps, ReloadKeeps
    DEF Next
<1> QED
  BY <1>1, InitIInv, PTL DEF Spec

\* However often checkpoints fail and processes die, an acknowledged event is in
\* the log, in its backup or in a snapshot (checkpoint.rs).
THEOREM NothingDestroyedHolds == Spec => []NothingDestroyed
<1>1. IInv => NothingDestroyed
  BY DEF IInv, Covered
<1> QED
  BY <1>1, IInvHolds, PTL

\* The log that recovery reads beyond a checkpoint and the checkpoint itself have
\* no event in common, wherever the process died (recover_session).
THEOREM NoDoubleApplyHolds == Spec => []NoDoubleApply
<1>1. IInv => NoDoubleApply
  <2> SUFFICES ASSUME IInv, MarkerReadable, marker # NoMarker
               PROVE  snaps[marker] \cap Evs(After(log, marker)) = {}
    BY DEF NoDoubleApply, Checkpointed, TailRecovered
  <2>1. log \in {Kept, {}} /\ marker \in DOMAIN snaps
    BY DEF IInv, Numbered, Kept, MarkerReadable
  <2> QED
    BY <2>1 DEF IInv, Apart, Evs, After
<1> QED
  BY <1>1, IInvHolds, PTL

\* What a restart loads is exactly what was acknowledged: a session whose log a
\* checkpoint has shortened is not listed any more, every other one is whole.
THEOREM LoadedIsComplete ==
    Spec => [](stage = "down" /\ Listed /\ MarkerReadable => Recovered = acked)
  BY IInvHolds, RecoveredComplete, PTL
=============================================================================
