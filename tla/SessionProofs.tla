---------------------------- MODULE SessionProofs ----------------------------
(***************************************************************************)
(* Theorems about a loaded session (SessionState) and about a client that  *)
(* follows one (ConversationStream).                                       *)
(*                                                                         *)
(* SessionState.  That a restart rebuilds the task's own events rests on   *)
(* two facts: the projections hold them all but the one that is stored and *)
(* not applied yet (Projected), and when a checkpoint is built there is no *)
(* such event and the checkpoint's number is that of the last own event    *)
(* (Places).  What a restart computes is a function defined by recursion   *)
(* on the number of the event; that it exists and is right is shown by a   *)
(* least counterexample (Least).                                           *)
(*                                                                         *)
(* That a waiter is right needs more.  It trusts the projections, which    *)
(* may be those of a restart, and they know of no end that is not in the   *)
(* log (Truthful); and it takes a session whose phase is "interrupted" for *)
(* a cancelled turn, which is right because the phase is a running one     *)
(* from the first event of the turn to its end (PhaseTells), and because   *)
(* it looks for that end after the phase (Looking).  A restart             *)
(* leaves an "interrupted" session too, but no waiter can wait for a turn  *)
(* that the process has not seen (Seen, Waiting).  Underway says what of a *)
(* turn has been persisted, so that a turn is not begun before the end of  *)
(* the one before it has been applied.                                     *)
(*                                                                         *)
(* ConversationStream.  For any number of appenders, which may broadcast   *)
(* in another order than they stored.  Accounted says that every record of *)
(* the file before the cursor, in the last replay or before the receiver   *)
(* has been shown, is about to be, was missed before the subscription or   *)
(* has been overtaken by a later one.  A frame can go back only when it is *)
(* received (Ahead: what is replayed is after the cursor), and since a     *)
(* record is broadcast once (Once), a record that is received before the   *)
(* cursor was either replayed before its broadcast or overtaken.           *)
(***************************************************************************)
EXTENDS SessionState, ConversationStream, SequenceTheorems, WellFoundedInduction, TLAPS

Outcomes == {"absent", "open"} \cup Ends
Projections == [applied : Seq(Nat), recent : SUBSET Nat, phase : Phases, agentPhase : Phases,
                ends : [Turns -> Outcomes]]
Events == [turn : Turns, kind : Kinds]
TaskStages == {"idle", "stored", "applied", "check", "built"}
WaiterStages == {"off", "checking", "replaying", "receiving", "phase", "projection", "over"}
WaiterRecords == [stage : WaiterStages, turn : Turns, next : Nat, verdict : {"none"} \cup Ends,
                  found : Outcomes, phase : Phases, then : WaiterStages]

SessionTypes ==
    /\ log \in Seq(Events)
    /\ state \in Projections
    /\ at \in [Appenders -> [stage : TaskStages, seq : Nat]]
    /\ batch \in [turn : Turns, left : Seq(Kinds), last : Nat, compacted : BOOLEAN,
                  snapshot : Projections]
    /\ turn \in Turns /\ open \in BOOLEAN
    /\ checkpoint \in [seq : Nat, state : Projections]
    /\ sent \in Seq(Nat)
    /\ waiter \in [Waiters -> WaiterRecords]

TaskStage == at[Task].stage
TaskSeq == at[Task].seq

\* Own, TellsEnds and Holds take the log as a parameter: they are used of the log
\* before and after a step.
OwnIn(l, i) == l[i].kind # "note"
OwnPlaces(l, applied) == {k \in DOMAIN applied : OwnIn(l, applied[k])}
OwnUpTo(l, n) == {i \in 1..n : OwnIn(l, i)}

\* A sequence of event numbers holds of the task's own events those of S, in order.
Holds(l, applied, S) ==
    /\ \A k \in DOMAIN applied : applied[k] \in DOMAIN l
    /\ {applied[k] : k \in OwnPlaces(l, applied)} = S
    /\ \A j, k \in OwnPlaces(l, applied) : j < k => applied[j] < applied[k]

\* The projections know of no event and no end that is not in the log.
TellsEnds(l, s) ==
    /\ s.recent \subseteq DOMAIN l
    /\ \A t \in Turns : s.ends[t] \in Ends =>
          \E i \in DOMAIN l : l[i] = [turn |-> t, kind |-> s.ends[t]]

\* What each appender is at is in the log, and the task is at its last event.
Places ==
    /\ \A p \in Appenders : at[p].stage # "idle" => at[p].seq \in DOMAIN log
    /\ \A p \in Others :
          /\ at[p].stage \in {"idle", "stored", "applied"}
          /\ at[p].stage # "idle" => log[at[p].seq] = [turn |-> 0, kind |-> "note"]
    /\ TaskStage # "idle" =>
          /\ OwnIn(log, TaskSeq)
          /\ \A i \in DOMAIN log : OwnIn(log, i) => i <= TaskSeq
    /\ TaskStage \in {"stored", "applied"} => batch.last = TaskSeq
    /\ TaskStage \in {"check", "built"} => batch.left = <<>>
    /\ \A k \in DOMAIN sent : sent[k] \in DOMAIN log

Unapplied == IF TaskStage = "stored" THEN {TaskSeq} ELSE {}

Projected ==
    /\ Holds(log, state.applied, OwnUpTo(log, Len(log)) \ Unapplied)
    /\ checkpoint.seq <= Len(log)
    /\ Holds(log, checkpoint.state.applied, OwnUpTo(log, checkpoint.seq))
    /\ TaskStage = "built" => Holds(log, batch.snapshot.applied, OwnUpTo(log, TaskSeq))

Truthful == TellsEnds(log, state) /\ TellsEnds(log, checkpoint.state) /\ TellsEnds(log, batch.snapshot)

\* The projections have an event of turn t that this process has seen.
Seen(t) ==
    \/ \E k \in DOMAIN sent : log[sent[k]].turn = t
    \/ TaskStage = "applied" /\ log[TaskSeq].turn = t

Underway ==
    /\ \A i \in DOMAIN log : log[i].turn <= turn
    /\ open => turn > 0 /\ (Seen(turn) \/ batch.left # <<>> \/ TaskStage = "stored")
    /\ batch.left # <<>> =>
          \/ /\ batch.turn = turn /\ open /\ turn > 0
             /\ Len(batch.left) = 1 /\ Head(batch.left) \in {"user", "queued"}
          \/ /\ batch.turn = turn /\ open /\ turn > 0
             /\ batch.left \in Seq({"work", "compact"}) /\ Seen(turn)
          \/ /\ batch.turn = turn /\ ~open /\ turn > 0
             /\ Len(batch.left) = 1 /\ Head(batch.left) \in Ends /\ Seen(turn)
          \/ /\ batch.turn = 0 /\ ~open
             /\ Len(batch.left) = 1 /\ Head(batch.left) = "compact"
    /\ TaskStage = "stored" =>
          LET e == log[TaskSeq] IN
          /\ e.turn = 0 => e.kind = "compact" /\ ~open
          /\ e.turn # 0 => e.turn = turn /\ IF e.kind \in {"user", "queued"} THEN open ELSE Seen(turn)
    /\ ~open /\ turn > 0 /\ Seen(turn) =>
          \/ state.ends[turn] \in Ends
          \/ batch.left # <<>> /\ batch.turn = turn
          \/ TaskStage = "stored" /\ log[TaskSeq].turn = turn /\ log[TaskSeq].kind \in Ends

\* The phase of the session is that of its last turn until that has ended.
PhaseTells ==
    \A t \in Turns : t > 0 /\ Seen(t) /\ ~BeganQueued(t) =>
        state.ends[t] \in Ends \/ (t = turn /\ state.phase \in Running)

Waiting ==
    \A w \in Waiters :
        /\ waiter[w].stage # "off" => waiter[w].turn > 0
        /\ waiter[w].stage \notin {"off", "over"} =>
              \E k \in DOMAIN sent : log[sent[k]].turn = waiter[w].turn
        /\ waiter[w].found \in Ends =>
              \E i \in DOMAIN log : log[i] = [turn |-> waiter[w].turn, kind |-> waiter[w].found]

\* A waiter that has found the session "interrupted" knows of a turn that ended
\* before that.
Looking ==
    \A w \in Waiters :
        /\ waiter[w].stage \in {"phase", "projection"} => waiter[w].then \in {"replaying", "receiving"}
        /\ waiter[w].stage = "projection" /\ waiter[w].phase = "interrupted" /\ ~BeganQueued(waiter[w].turn) =>
              state.ends[waiter[w].turn] \in Ends

SessionIInv == SessionTypes /\ Places /\ Projected /\ Truthful /\ Underway /\ PhaseTells /\ Waiting
               /\ Looking /\ WaiterRight

\* A non-empty set of naturals has a least element.
LEMMA Least == ASSUME NEW S \in SUBSET Nat, S # {} PROVE \E n \in S : \A m \in S : n <= m
<1> DEFINE R == OpToRel(<, Nat)
<1>1. \A x, y \in Nat : x < y => <<x, y>> \in R
  BY DEF OpToRel
<1> HIDE DEF R
<1>2. IsWellFoundedOn(R, Nat)
  BY NatLessThanWellFounded DEF R
<1>3. PICK n \in S : \A m \in S : <<m, n>> \notin R
  BY <1>2, WFMin
<1>4. \A m \in S : ~(m < n)
  BY <1>1, <1>3
<1> QED BY <1>4

\* A non-empty set of numbers up to a bound has a greatest element.
LEMMA Greatest ==
  ASSUME NEW n \in Nat, NEW S \in SUBSET (1..n), S # {}
  PROVE  \E m \in S : \A i \in S : i <= m
<1> DEFINE T == {n - i : i \in S}
<1>1. T \in SUBSET Nat /\ T # {}
  <2>1. \A i \in S : n - i \in Nat
    OBVIOUS
  <2>2. \A d \in T : d \in Nat
    BY <2>1
  <2>3. T # {}
    OBVIOUS
  <2> QED
    BY <2>2, <2>3
<1> HIDE DEF T
<1>2. PICK d \in T : \A e \in T : d <= e
  BY <1>1, Least
<1>3. PICK m \in S : d = n - m
  BY DEF T
<1>4. ASSUME NEW i \in S PROVE i <= m
  <2>1. n - i \in T
    BY DEF T
  <2>2. n - m <= n - i /\ i \in 1..n /\ m \in 1..n
    BY <1>2, <1>3, <2>1
  <2> QED
    BY <2>2
<1> QED
  BY <1>4

\* A log with one event more.
LEMMA Longer ==
  ASSUME NEW l \in Seq(Events), NEW e \in Events
  PROVE  /\ Append(l, e) \in Seq(Events) /\ Len(Append(l, e)) = Len(l) + 1 /\ Len(l) \in Nat
         /\ DOMAIN l = 1..Len(l) /\ DOMAIN Append(l, e) = 1..(Len(l) + 1)
         /\ \A i \in 1..Len(l) : Append(l, e)[i] = l[i] /\ i \in 1..(Len(l) + 1)
         /\ Append(l, e)[Len(l) + 1] = e
  OBVIOUS

\* What is held of a log is held of a longer one.
LEMMA HoldsLonger ==
  ASSUME NEW l \in Seq(Events), NEW e \in Events, NEW a, NEW S, Holds(l, a, S)
  PROVE  Holds(Append(l, e), a, S)
<1>1. \A k \in DOMAIN a : a[k] \in DOMAIN l
  BY DEF Holds
<1>2. \A k \in DOMAIN a : a[k] \in DOMAIN Append(l, e) /\ (OwnIn(Append(l, e), a[k]) <=> OwnIn(l, a[k]))
  BY <1>1, Longer DEF OwnIn
<1>3. OwnPlaces(Append(l, e), a) = OwnPlaces(l, a)
  BY <1>2 DEF OwnPlaces
<1> QED
  BY <1>2, <1>3 DEF Holds

\* ... its own events up to a number are the same ...
LEMMA OwnUpToLonger ==
  ASSUME NEW l \in Seq(Events), NEW e \in Events, NEW n \in Nat, n <= Len(l)
  PROVE  OwnUpTo(Append(l, e), n) = OwnUpTo(l, n)
<1>1. \A i \in 1..n : i \in 1..Len(l)
  BY Longer
<1>2. \A i \in 1..n : Append(l, e)[i] = l[i]
  BY <1>1, Longer
<1> QED
  BY <1>2 DEF OwnUpTo, OwnIn

\* ... and projections that are right about the ends stay so.
LEMMA TellsLonger ==
  ASSUME NEW l \in Seq(Events), NEW e \in Events, NEW s, TellsEnds(l, s)
  PROVE  TellsEnds(Append(l, e), s)
<1>1. DOMAIN l \subseteq DOMAIN Append(l, e) /\ \A i \in DOMAIN l : Append(l, e)[i] = l[i]
  BY Longer
<1> QED
  BY <1>1 DEF TellsEnds

\* One event more is held once, after the others.
LEMMA HoldsOneMore ==
  ASSUME NEW l \in Seq(Events), NEW a \in Seq(Nat), NEW S, Holds(l, a, S),
         NEW i \in DOMAIN l, OwnIn(l, i) => \A j \in S : j < i
  PROVE  Holds(l, Append(a, i), IF OwnIn(l, i) THEN S \cup {i} ELSE S)
<1> DEFINE b == Append(a, i)
<1>1. DOMAIN a = 1..Len(a) /\ DOMAIN l = 1..Len(l) /\ Len(a) \in Nat /\ i \in Nat
  OBVIOUS
<1>2. /\ b \in Seq(Nat) /\ DOMAIN b = 1..(Len(a) + 1)
      /\ \A k \in 1..Len(a) : b[k] = a[k]
      /\ b[Len(a) + 1] = i
  BY <1>1
<1> HIDE DEF b
<1>3. \A k \in DOMAIN b : k \in DOMAIN a \/ k = Len(a) + 1
  BY <1>1, <1>2
<1>4. \A k \in DOMAIN b : b[k] \in DOMAIN l
  BY <1>1, <1>2, <1>3 DEF Holds
<1>5. OwnPlaces(l, b) = IF OwnIn(l, i) THEN OwnPlaces(l, a) \cup {Len(a) + 1} ELSE OwnPlaces(l, a)
  <2>1. ASSUME NEW k \in DOMAIN a PROVE k \in DOMAIN b /\ (k \in OwnPlaces(l, b) <=> k \in OwnPlaces(l, a))
    BY <1>1, <1>2 DEF OwnPlaces
  <2>2. Len(a) + 1 \in DOMAIN b /\ (Len(a) + 1 \in OwnPlaces(l, b) <=> OwnIn(l, i))
    BY <1>1, <1>2 DEF OwnPlaces
  <2>3. OwnPlaces(l, b) \subseteq DOMAIN b /\ OwnPlaces(l, a) \subseteq DOMAIN a
    BY DEF OwnPlaces
  <2>4. ASSUME NEW k PROVE k \in OwnPlaces(l, b) <=> k \in OwnPlaces(l, a) \/ (OwnIn(l, i) /\ k = Len(a) + 1)
    <3>1. Len(a) + 1 \notin DOMAIN a
      BY <1>1
    <3> QED
      BY <2>1, <2>2, <2>3, <3>1, <1>3
  <2> QED
    BY <2>4
<1>6. OwnPlaces(l, a) \subseteq DOMAIN a
  BY DEF OwnPlaces
<1>7. {b[k] : k \in OwnPlaces(l, b)} = IF OwnIn(l, i) THEN S \cup {i} ELSE S
  <2>1. {a[k] : k \in OwnPlaces(l, a)} = S
    BY DEF Holds
  <2>2. \A k \in OwnPlaces(l, a) : b[k] = a[k]
    BY <1>1, <1>2, <1>6
  <2> QED
    BY <2>1, <2>2, <1>2, <1>5
<1>8. ASSUME NEW j \in OwnPlaces(l, b), NEW k \in OwnPlaces(l, b), j < k PROVE b[j] < b[k]
  <2>1. j \in DOMAIN b /\ k \in DOMAIN b
    BY DEF OwnPlaces
  <2>2. CASE k = Len(a) + 1
    <3>1. j \in 1..Len(a) /\ b[j] = a[j] /\ b[k] = i
      BY <1>1, <1>2, <1>8, <2>1, <2>2
    <3>2. OwnIn(l, i) /\ j \in OwnPlaces(l, a)
      BY <3>1, <2>2, <1>1, <1>2, <1>5 DEF OwnPlaces
    <3>3. a[j] \in S
      BY <3>2 DEF Holds
    <3> QED
      BY <3>1, <3>2, <3>3
  <2>3. CASE k # Len(a) + 1
    <3>1. k \in 1..Len(a) /\ j \in 1..Len(a)
      BY <1>1, <1>2, <1>8, <2>1, <2>3
    <3>2. k \in OwnPlaces(l, a) /\ j \in OwnPlaces(l, a)
      BY <3>1, <1>1, <1>5
    <3> QED
      BY <3>1, <3>2, <1>2, <1>8 DEF Holds
  <2> QED
    BY <2>2, <2>3
<1>9. Holds(l, b, IF OwnIn(l, i) THEN S \cup {i} ELSE S)
  BY <1>4, <1>7, <1>8 DEF Holds
<1> QED
  BY <1>9 DEF b

\* What applying one event makes of the projections.
LEMMA ApplyParts ==
  ASSUME log \in Seq(Events), NEW s \in Projections, NEW i \in DOMAIN log
  PROVE  /\ Apply(s, i) \in Projections
         /\ Apply(s, i).applied = Append(s.applied, i)
         /\ Apply(s, i).recent = s.recent \cup {i}
         /\ Apply(s, i).phase = PhaseAfter(s.phase, log[i].kind)
         /\ \A t \in Turns : Apply(s, i).ends[t] =
              IF t # 0 /\ t = log[i].turn THEN EndAfter(s.ends[t], log[i].kind) ELSE s.ends[t]
<1> DEFINE e == log[i]
<1>0. log[i] \in Events /\ i \in Nat
  OBVIOUS
<1>1. e.turn \in Turns /\ e.kind \in Kinds /\ i \in Nat
  BY <1>0 DEF Events
<1>2. /\ s.applied \in Seq(Nat) /\ s.recent \in SUBSET Nat /\ s.phase \in Phases
      /\ s.agentPhase \in Phases /\ s.ends \in [Turns -> Outcomes]
  BY DEF Projections
<1> HIDE DEF e
<1>3. PhaseAfter(s.phase, e.kind) \in Phases /\ AgentPhaseAfter(s.agentPhase, e.kind) \in Phases
  BY <1>1, <1>2 DEF PhaseAfter, TargetPhase, AgentPhaseAfter, Phases, Kinds, Ends
<1>4. \A o \in Outcomes : EndAfter(o, e.kind) \in Outcomes
  BY <1>1 DEF EndAfter, Outcomes, Ends
<1> DEFINE ends == IF e.turn = 0 THEN s.ends ELSE [s.ends EXCEPT ![e.turn] = EndAfter(@, e.kind)]
<1>5. ends \in [Turns -> Outcomes]
  BY <1>1, <1>2, <1>4
<1>6. \A t \in Turns : ends[t] = IF t # 0 /\ t = e.turn THEN EndAfter(s.ends[t], e.kind) ELSE s.ends[t]
  BY <1>1, <1>2
<1> HIDE DEF ends
<1>7. Append(s.applied, i) \in Seq(Nat) /\ s.recent \cup {i} \in SUBSET Nat
  BY <1>1, <1>2
<1>8. Apply(s, i) = [applied |-> Append(s.applied, i), recent |-> s.recent \cup {i},
                     phase |-> PhaseAfter(s.phase, e.kind),
                     agentPhase |-> AgentPhaseAfter(s.agentPhase, e.kind), ends |-> ends]
  BY DEF Apply, e, ends
<1>9. Apply(s, i) \in Projections
  BY <1>3, <1>5, <1>7, <1>8 DEF Projections
<1> QED
  BY <1>6, <1>8, <1>9 DEF e

\* Applying an event keeps projections right about the ends ...
LEMMA ApplyTells ==
  ASSUME log \in Seq(Events), NEW s \in Projections, NEW i \in DOMAIN log, TellsEnds(log, s)
  PROVE  TellsEnds(log, Apply(s, i))
<1>1. /\ Apply(s, i).recent = s.recent \cup {i}
      /\ \A t \in Turns : Apply(s, i).ends[t] =
            IF t # 0 /\ t = log[i].turn THEN EndAfter(s.ends[t], log[i].kind) ELSE s.ends[t]
  BY ApplyParts
<1>2. Apply(s, i).recent \subseteq DOMAIN log
  BY <1>1 DEF TellsEnds
<1>3. ASSUME NEW t \in Turns, Apply(s, i).ends[t] \in Ends
      PROVE  \E j \in DOMAIN log : log[j] = [turn |-> t, kind |-> Apply(s, i).ends[t]]
  <2>1. CASE t # 0 /\ t = log[i].turn /\ log[i].kind \in Ends
    <3>1. Apply(s, i).ends[t] = log[i].kind
      BY <2>1, <1>1 DEF EndAfter
    <3>2. log[i] = [turn |-> log[i].turn, kind |-> log[i].kind]
      <4>1. log[i] \in Events
        OBVIOUS
      <4> QED
        BY <4>1 DEF Events
    <3> QED
      BY <2>1, <3>1, <3>2
  <2>2. CASE ~(t # 0 /\ t = log[i].turn /\ log[i].kind \in Ends)
    <3>1. Apply(s, i).ends[t] = s.ends[t]
      BY <2>2, <1>1, <1>3 DEF EndAfter, Ends
    <3> QED
      BY <3>1, <1>3 DEF TellsEnds
  <2> QED
    BY <2>1, <2>2
<1> QED
  BY <1>2, <1>3 DEF TellsEnds

\* ... and adds the event to those held, when it is the task's own and the last.
LEMMA ApplyHoldsOwn ==
  ASSUME log \in Seq(Events), NEW s \in Projections, NEW S, Holds(log, s.applied, S),
         NEW i \in DOMAIN log, OwnIn(log, i) => \A j \in S : j < i
  PROVE  Holds(log, Apply(s, i).applied, IF OwnIn(log, i) THEN S \cup {i} ELSE S)
<1>1. s.applied \in Seq(Nat)
  BY DEF Projections
<1>2. Apply(s, i).applied = Append(s.applied, i)
  BY ApplyParts
<1>3. Holds(log, Append(s.applied, i), IF OwnIn(log, i) THEN S \cup {i} ELSE S)
  BY <1>1, HoldsOneMore
<1> QED
  BY <1>2, <1>3

-----------------------------------------------------------------------------
\* f has the projections s with one event after the other applied.
Applied(f, s, last, n) ==
    f = [i \in last..n |-> IF i = last THEN s ELSE Apply(f[i - 1], i)]

\* There are such, by induction on the number of the last event.
LEMMA AppliedExists ==
  ASSUME NEW s, NEW last \in Nat, NEW n \in Nat, last <= n
  PROVE  \E f : Applied(f, s, last, n)
<1> DEFINE Bad == {m \in Nat : last <= m /\ ~ \E f : Applied(f, s, last, m)}
<1> SUFFICES ASSUME Bad # {} PROVE FALSE
  OBVIOUS
<1>1. PICK m \in Bad : \A k \in Bad : m <= k
  <2>1. Bad \in SUBSET Nat
    OBVIOUS
  <2> HIDE DEF Bad
  <2> QED
    BY <2>1, Least
<1>2. CASE m = last
  <2> DEFINE f == [i \in last..last |-> s]
  <2>1. f = [i \in last..last |-> IF i = last THEN s ELSE Apply(f[i - 1], i)]
    OBVIOUS
  <2>2. Applied(f, s, last, m)
    BY <2>1, <1>2 DEF Applied
  <2> QED
    BY <1>1, <2>2
<1>3. CASE m # last
  <2>1. m \in Nat /\ m - 1 \in Nat /\ last <= m - 1 /\ ~(m <= m - 1)
    BY <1>1, <1>3
  <2>2. PICK g : Applied(g, s, last, m - 1)
    BY <1>1, <2>1
  <2> DEFINE final == Apply(g[m - 1], m)
             f == [i \in last..m |-> IF i = m THEN final ELSE g[i]]
  <2>3. g[last] = s /\ \A i \in (last + 1)..(m - 1) : g[i] = Apply(g[i - 1], i)
    BY <2>1, <2>2 DEF Applied
  <2>4. f[last] = s /\ f[m] = final /\ f[m - 1] = g[m - 1]
    BY <2>1, <2>3, <1>3
  <2>5. \A i \in (last + 1)..(m - 1) : f[i] = g[i] /\ f[i - 1] = g[i - 1]
    BY <2>1
  <2>6. \A i \in last..m : f[i] = IF i = last THEN s ELSE Apply(f[i - 1], i)
    <3> HIDE DEF f
    <3> SUFFICES ASSUME NEW i \in last..m PROVE f[i] = IF i = last THEN s ELSE Apply(f[i - 1], i)
      OBVIOUS
    <3>1. i = last \/ i = m \/ i \in (last + 1)..(m - 1)
      BY <2>1
    <3> QED
      BY <1>3, <2>3, <2>4, <2>5, <3>1
  <2>7. Applied(f, s, last, m)
    <3>1. f = [i \in last..m |-> f[i]]
      OBVIOUS
    <3> HIDE DEF f
    <3>2. [i \in last..m |-> f[i]] = [i \in last..m |-> IF i = last THEN s ELSE Apply(f[i - 1], i)]
      BY <2>6
    <3> QED
      BY <3>1, <3>2 DEF Applied
  <2> QED
    BY <1>1, <2>1, <2>7
<1> QED
  BY <1>2, <1>3

\* What a restart makes of projections that are right about a beginning of the log.
LEMMA AppliedAfterRight ==
  ASSUME log \in Seq(Events), NEW s \in Projections, NEW last \in Nat, last <= Len(log),
         Holds(log, s.applied, OwnUpTo(log, last)), TellsEnds(log, s)
  PROVE  /\ ApplyAfter(s, last) \in Projections
         /\ Holds(log, ApplyAfter(s, last).applied, OwnUpTo(log, Len(log)))
         /\ TellsEnds(log, ApplyAfter(s, last))
<1>0. Len(log) \in Nat /\ DOMAIN log = 1..Len(log)
  OBVIOUS
<1> DEFINE f == CHOOSE g : Applied(g, s, last, Len(log))
<1>1. Applied(f, s, last, Len(log))
  BY <1>0, AppliedExists
<1>2. ApplyAfter(s, last) = f[Len(log)]
  BY DEF ApplyAfter, Applied
<1> HIDE DEF f
<1>3. f[last] = s /\ \A i \in (last + 1)..Len(log) : f[i] = Apply(f[i - 1], i)
  <2>1. \A i \in last..Len(log) : f[i] = IF i = last THEN s ELSE Apply(f[i - 1], i)
    BY <1>1, Zenon DEF Applied
  <2>2. last \in last..Len(log) /\ \A i \in (last + 1)..Len(log) : i \in last..Len(log) /\ i # last
    BY <1>0
  <2> QED
    BY <2>1, <2>2, Zenon
<1> DEFINE Right(i) == /\ f[i] \in Projections
                       /\ Holds(log, f[i].applied, OwnUpTo(log, i))
                       /\ TellsEnds(log, f[i])
           Bad == {i \in last..Len(log) : ~Right(i)}
<1>4. Right(last)
  BY <1>3
<1>5. ASSUME NEW i \in (last + 1)..Len(log), Right(i - 1) PROVE Right(i)
  <2>1. i \in DOMAIN log /\ i \in Nat /\ i - 1 \in Nat /\ f[i] = Apply(f[i - 1], i)
    BY <1>0, <1>3
  <2>2. f[i - 1] \in Projections /\ Holds(log, f[i - 1].applied, OwnUpTo(log, i - 1)) /\ TellsEnds(log, f[i - 1])
    BY <1>5
  <2>3. \A j \in OwnUpTo(log, i - 1) : j < i
    BY <2>1 DEF OwnUpTo
  <2>4. OwnUpTo(log, i) = IF OwnIn(log, i) THEN OwnUpTo(log, i - 1) \cup {i} ELSE OwnUpTo(log, i - 1)
    <3>1. 1..i = (1..(i - 1)) \cup {i}
      BY <2>1, <1>0
    <3> QED
      BY <3>1 DEF OwnUpTo
  <2>5. Holds(log, Apply(f[i - 1], i).applied, OwnUpTo(log, i))
    BY <2>1, <2>2, <2>3, <2>4, ApplyHoldsOwn
  <2>6. Apply(f[i - 1], i) \in Projections /\ TellsEnds(log, Apply(f[i - 1], i))
    BY <2>1, <2>2, ApplyParts, ApplyTells
  <2> QED
    BY <2>1, <2>5, <2>6
<1> HIDE DEF Right
<1>6. Bad = {}
  <2> SUFFICES ASSUME Bad # {} PROVE FALSE
    OBVIOUS
  <2>1. PICK m \in Bad : \A k \in Bad : m <= k
    <3>1. Bad \in SUBSET Nat
      BY <1>0
    <3> HIDE DEF Bad
    <3> QED
      BY <3>1, Least
  <2>2. m # last /\ m \in last..Len(log) /\ ~Right(m)
    BY <1>4, <2>1
  <2>3. m \in (last + 1)..Len(log) /\ m - 1 \in last..Len(log) /\ ~(m <= m - 1)
    BY <1>0, <2>2
  <2>4. Right(m - 1)
    BY <2>1, <2>3
  <2> QED
    BY <1>5, <2>2, <2>3, <2>4
<1>7. Right(Len(log))
  BY <1>0, <1>6
<1> QED
  BY <1>2, <1>7 DEF Right

\* The projections and the checkpoint of a session that has just begun.
LEMMA NothingRight ==
  ASSUME NEW l \in Seq(Events)
  PROVE  NoState \in Projections /\ Holds(l, NoState.applied, OwnUpTo(l, 0)) /\ TellsEnds(l, NoState)
<1>1. NoState \in Projections
  BY DEF NoState, Projections, Phases, Outcomes
<1>2. NoState.applied = <<>> /\ NoState.recent = {} /\ NoState.ends = [t \in Turns |-> "absent"]
  BY DEF NoState
<1>3. OwnUpTo(l, 0) = {}
  BY DEF OwnUpTo
<1>4. OwnPlaces(l, NoState.applied) = {}
  BY <1>2 DEF OwnPlaces
<1>5. Holds(l, NoState.applied, OwnUpTo(l, 0))
  BY <1>2, <1>3, <1>4 DEF Holds
<1>6. TellsEnds(l, NoState)
  BY <1>2 DEF TellsEnds, Ends
<1> QED
  BY <1>1, <1>5, <1>6

\* What a restart rebuilds is right when the checkpoint is.
LEMMA RecoveredRight ==
  ASSUME log \in Seq(Events), checkpoint.state \in Projections, checkpoint.seq \in Nat,
         checkpoint.seq <= Len(log),
         Holds(log, checkpoint.state.applied, OwnUpTo(log, checkpoint.seq)),
         TellsEnds(log, checkpoint.state)
  PROVE  /\ Recovered \in Projections
         /\ Holds(log, Recovered.applied, OwnUpTo(log, Len(log)))
         /\ TellsEnds(log, Recovered)
<1>1. CASE checkpoint.seq = 0
  <2> DEFINE r == ApplyAfter(NoState, 0)
             phase == IF log = <<>> THEN "idle" ELSE NormalizePhase(TargetPhase(Last(log).kind))
  <2>1. Recovered = [r EXCEPT !.phase = phase]
    BY <1>1 DEF Recovered
  <2>2. r \in Projections /\ Holds(log, r.applied, OwnUpTo(log, Len(log))) /\ TellsEnds(log, r)
    <3>1. 0 \in Nat /\ 0 <= Len(log)
      OBVIOUS
    <3> QED
      BY <3>1, NothingRight, AppliedAfterRight
  <2>3. phase \in Phases
    BY DEF NormalizePhase, TargetPhase, Phases
  <2> HIDE DEF r, phase
  <2>4. /\ Recovered \in Projections /\ Recovered.applied = r.applied /\ Recovered.recent = r.recent
        /\ Recovered.ends = r.ends
    BY <2>1, <2>2, <2>3 DEF Projections
  <2> QED
    BY <2>2, <2>4 DEF TellsEnds
<1>2. CASE checkpoint.seq # 0
  <2> DEFINE s == [checkpoint.state EXCEPT !.phase = NormalizePhase(checkpoint.state.agentPhase),
                                           !.recent = {}]
  <2>1. Recovered = ApplyAfter(s, checkpoint.seq)
    BY <1>2 DEF Recovered
  <2>2. NormalizePhase(checkpoint.state.agentPhase) \in Phases
    BY DEF Projections, NormalizePhase, Phases
  <2>3. /\ s \in Projections /\ s.applied = checkpoint.state.applied /\ s.recent = {}
        /\ s.ends = checkpoint.state.ends
    BY <2>2 DEF Projections
  <2> HIDE DEF s
  <2>4. TellsEnds(log, s)
    BY <2>3 DEF TellsEnds
  <2> QED
    BY <2>1, <2>3, <2>4, AppliedAfterRight
<1> QED
  BY <1>1, <1>2

\* The invariant holds of a session that has just been loaded.
LEMMA InitSessionIInv == Init => SessionIInv
<1> SUFFICES ASSUME Init PROVE SessionIInv
  OBVIOUS
<1> USE SessionAssumption DEF Init
<1>0. log \in Seq(Events) /\ sent \in Seq(Nat) /\ <<>> \in Seq(Kinds)
  OBVIOUS
<1>1. NoState \in Projections /\ Holds(log, NoState.applied, OwnUpTo(log, 0)) /\ TellsEnds(log, NoState)
  BY <1>0, NothingRight
<1>2. Len(log) = 0 /\ DOMAIN log = {} /\ DOMAIN sent = {}
  OBVIOUS
<1>3. Task \in Appenders /\ Others \subseteq Appenders
  BY DEF Appenders
<1>4. TaskStage = "idle" /\ TaskSeq = 0 /\ \A p \in Appenders : at[p].stage = "idle"
  BY <1>3 DEF TaskStage, TaskSeq
<1>5. SessionTypes
  <2>1. batch \in [turn : Turns, left : Seq(Kinds), last : Nat, compacted : BOOLEAN,
                   snapshot : Projections]
    BY <1>0, <1>1 DEF NoBatch, Turns
  <2>2. checkpoint \in [seq : Nat, state : Projections]
    BY <1>1 DEF NoCheckpoint
  <2>3. waiter \in [Waiters -> WaiterRecords]
    BY SessionAssumption DEF Off, WaiterRecords, WaiterStages, Turns, Outcomes, Phases
  <2>4. at \in [Appenders -> [stage : TaskStages, seq : Nat]]
    BY DEF TaskStages
  <2>5. state \in Projections /\ turn \in Turns /\ open \in BOOLEAN
    <3>1. 0 \in Turns
      BY SessionAssumption DEF Turns
    <3>2. state = NoState /\ turn = 0 /\ open = FALSE
      OBVIOUS
    <3> QED
      BY <1>1, <3>1, <3>2
  <2> QED
    BY <1>0, <1>1, <2>1, <2>2, <2>3, <2>4, <2>5, Zenon DEF SessionTypes
<1>6. Places
  BY <1>2, <1>3, <1>4 DEF Places
<1>7. Projected
  <2>1. Unapplied = {}
    BY <1>4 DEF Unapplied
  <2> QED
    BY <1>1, <1>2, <1>4, <2>1 DEF Projected, NoCheckpoint
<1>8. Truthful
  BY <1>1 DEF Truthful, NoCheckpoint, NoBatch
<1>9. Underway /\ PhaseTells
  BY <1>2, <1>4 DEF Underway, PhaseTells, Seen, NoBatch
<1>10. Waiting /\ Looking /\ WaiterRight
  BY DEF Waiting, Looking, WaiterRight, Off, Ends
<1> QED
  BY <1>5, <1>6, <1>7, <1>8, <1>9, <1>10 DEF SessionIInv

\* The task is one of the appenders.
LEMMA TaskIn == Task \in Appenders /\ Others \subseteq Appenders /\ \A p \in Appenders : p # Task => p \in Others
  BY SessionAssumption DEF Appenders

\* The task's stage and number, as far as their types go.
LEMMA TaskTyped == SessionTypes => TaskStage \in TaskStages /\ TaskSeq \in Nat
  BY TaskIn DEF SessionTypes, TaskStage, TaskSeq

\* What a call that has still to append its events leaves alone.
LEMMA PersistKeeps ==
  ASSUME SessionIInv, TaskFree, NEW t \in Turns, NEW events \in Seq(Kinds), Persist(t, events),
         turn' \in Turns, open' \in BOOLEAN,
         UNCHANGED <<log, state, at, checkpoint, sent, waiter>>
  PROVE  /\ SessionTypes' /\ Places' /\ Projected' /\ Truthful' /\ Waiting' /\ Looking' /\ WaiterRight'
         /\ batch'.turn = t /\ batch'.left = events
         /\ TaskStage = "idle" /\ TaskStage' = "idle"
         /\ \A u : Seen(u)' <=> Seen(u)
<1> USE DEF SessionIInv
<1>1. batch' = [turn |-> t, left |-> events, last |-> 0, compacted |-> FALSE, snapshot |-> NoState]
  BY DEF Persist, NoBatch
<1>2. TaskStage = "idle" /\ TaskStage' = "idle" /\ TaskSeq' = TaskSeq
  BY DEF TaskFree, TaskStage, TaskSeq
<1>3. log \in Seq(Events)
  BY DEF SessionTypes
<1>4. NoState \in Projections /\ TellsEnds(log, NoState)
  BY <1>3, NothingRight
<1>5. batch' \in [turn : Turns, left : Seq(Kinds), last : Nat, compacted : BOOLEAN,
                  snapshot : Projections]
  BY <1>1, <1>4
<1>6. SessionTypes'
  BY <1>5 DEF SessionTypes
<1>7. Places'
  BY <1>2 DEF Places
<1>8. Projected'
  BY <1>2 DEF Projected, Unapplied
<1>9. Truthful'
  BY <1>1, <1>4 DEF Truthful
<1>10. Waiting' /\ Looking' /\ WaiterRight'
  BY DEF Waiting, Looking, WaiterRight, BeganQueued
<1>11. \A u : Seen(u)' <=> Seen(u)
  BY <1>2 DEF Seen
<1> QED
  BY <1>1, <1>2, <1>6, <1>7, <1>8, <1>9, <1>10, <1>11

\* Only turns up to the last one have been seen.
LEMMA SeenBounded ==
  ASSUME SessionTypes, Places, Underway, NEW t \in Turns, Seen(t)
  PROVE  t <= turn
<1>1. CASE \E k \in DOMAIN sent : log[sent[k]].turn = t
  BY <1>1 DEF Places, Underway
<1>2. CASE TaskStage = "applied" /\ log[TaskSeq].turn = t
  <2>1. TaskSeq \in DOMAIN log
    BY <1>2, TaskIn DEF Places, TaskStage, TaskSeq
  <2> QED
    BY <1>2, <2>1 DEF Underway
<1> QED
  BY <1>1, <1>2 DEF Seen

\* The message that begins a turn is of a turn nobody has seen yet.
LEMMA StartTurnKeeps == ASSUME SessionIInv, NEW o \in Prompts, StartTurn(o) PROVE SessionIInv'
<1> USE DEF SessionIInv
<1>1. /\ TaskFree /\ ~open /\ turn < MaxTurns /\ Persist(turn + 1, <<o>>) /\ turn' = turn + 1 /\ open' = TRUE
      /\ UNCHANGED <<log, state, at, checkpoint, sent, waiter>>
  BY DEF StartTurn
<1>2. turn + 1 \in Turns /\ turn \in Nat
  BY <1>1, SessionAssumption DEF SessionTypes, Turns
<1>3. o \in {"user", "queued"} /\ <<o>> \in Seq(Kinds) /\ <<o>> # <<>> /\ Len(<<o>>) = 1 /\ Head(<<o>>) = o
  BY SessionAssumption DEF Kinds
<1>4. /\ SessionTypes' /\ Places' /\ Projected' /\ Truthful' /\ Waiting' /\ Looking' /\ WaiterRight'
      /\ batch'.turn = turn + 1 /\ batch'.left = <<o>>
      /\ TaskStage = "idle" /\ TaskStage' = "idle"
      /\ \A u : Seen(u)' <=> Seen(u)
  BY <1>1, <1>2, <1>3, PersistKeeps
<1>5. Underway'
  <2>1. \A i \in DOMAIN log : log[i].turn <= turn + 1
    <3>1. \A i \in DOMAIN log : log[i].turn \in Nat
      <4>1. log \in Seq(Events)
        BY DEF SessionTypes
      <4>2. \A i \in DOMAIN log : log[i] \in Events
        BY <4>1
      <4> QED
        BY <4>2 DEF Events, Turns
    <3> QED
      BY <3>1, <1>2 DEF Underway
  <2>2. turn + 1 > 0
    BY <1>2
  <2> QED
    BY <2>1, <2>2, <1>1, <1>3, <1>4 DEF Underway
<1>6. PhaseTells'
  <2> SUFFICES ASSUME NEW t \in Turns, t > 0, Seen(t), ~BeganQueued(t) PROVE state.ends[t] \in Ends
    BY <1>1, <1>4 DEF PhaseTells, BeganQueued
  <2>1. CASE t = turn
    <3>1. batch.left = <<>>
      BY <1>1 DEF TaskFree
    <3> QED
      BY <2>1, <3>1, <1>1, <1>4 DEF Underway
  <2>2. CASE t # turn
    BY <2>2 DEF PhaseTells
  <2> QED
    BY <2>1, <2>2
<1> QED
  BY <1>4, <1>5, <1>6

\* A call of the running turn follows events of it that have been sent.
LEMMA ContinueTurnKeeps == ASSUME SessionIInv, NEW b \in Batches, ContinueTurn(b) PROVE SessionIInv'
<1> USE DEF SessionIInv
<1>1. /\ TaskFree /\ open /\ Persist(turn, b)
      /\ UNCHANGED <<log, state, at, turn, open, checkpoint, sent, waiter>>
  BY DEF ContinueTurn
<1>2. turn \in Turns /\ open \in BOOLEAN
  BY DEF SessionTypes
<1>3. b \in Seq({"work", "compact"}) /\ b \in Seq(Kinds)
  <2>1. b \in Seq({"work", "compact"}) /\ {"work", "compact"} \subseteq Kinds
    BY SessionAssumption DEF Kinds
  <2> QED
    BY <2>1, \A S, T : S \subseteq T => Seq(S) \subseteq Seq(T)
<1>4. /\ SessionTypes' /\ Places' /\ Projected' /\ Truthful' /\ Waiting' /\ Looking' /\ WaiterRight'
      /\ batch'.turn = turn /\ batch'.left = b
      /\ TaskStage = "idle" /\ TaskStage' = "idle"
      /\ \A u : Seen(u)' <=> Seen(u)
  BY <1>1, <1>2, <1>3, PersistKeeps
<1>5. Seen(turn) /\ turn > 0
  BY <1>1, <1>4 DEF Underway, TaskFree
<1>6. Seen(turn)'
  BY <1>1, <1>4, <1>5 DEF Seen
<1>7. Underway'
  BY <1>1, <1>3, <1>4, <1>5, <1>6 DEF Underway
<1>8. PhaseTells'
  BY <1>1, <1>4 DEF PhaseTells, BeganQueued
<1> QED
  BY <1>4, <1>7, <1>8

\* A turn that ends has a call for its end under way.
LEMMA EndTurnKeeps == ASSUME SessionIInv, NEW e \in Ends, EndTurn(e) PROVE SessionIInv'
<1> USE DEF SessionIInv
<1>1. /\ TaskFree /\ open /\ Persist(turn, <<e>>) /\ open' = FALSE
      /\ UNCHANGED <<log, state, at, turn, checkpoint, sent, waiter>>
  BY DEF EndTurn
<1>2. turn \in Turns
  BY DEF SessionTypes
<1>3. <<e>> \in Seq(Kinds) /\ Len(<<e>>) = 1 /\ Head(<<e>>) = e /\ <<e>> # <<>>
  BY DEF Kinds, Ends
<1>4. /\ SessionTypes' /\ Places' /\ Projected' /\ Truthful' /\ Waiting' /\ Looking' /\ WaiterRight'
      /\ batch'.turn = turn /\ batch'.left = <<e>>
      /\ TaskStage = "idle" /\ TaskStage' = "idle"
      /\ \A u : Seen(u)' <=> Seen(u)
  BY <1>1, <1>2, <1>3, PersistKeeps
<1>5. Seen(turn) /\ turn > 0
  BY <1>1, <1>4 DEF Underway, TaskFree
<1>6. Seen(turn)'
  BY <1>1, <1>4, <1>5 DEF Seen
<1>7. Underway'
  BY <1>1, <1>3, <1>4, <1>5, <1>6 DEF Underway
<1>8. PhaseTells'
  BY <1>1, <1>4 DEF PhaseTells, BeganQueued
<1> QED
  BY <1>4, <1>7, <1>8

\* A compaction between turns is of no turn.
LEMMA CompactBetweenKeeps == ASSUME SessionIInv, CompactBetween PROVE SessionIInv'
<1> USE DEF SessionIInv
<1>1. /\ TaskFree /\ ~open /\ turn > 0 /\ Persist(0, <<"compact">>)
      /\ UNCHANGED <<log, state, at, turn, open, checkpoint, sent, waiter>>
  BY DEF CompactBetween
<1>2. turn \in Turns /\ 0 \in Turns /\ open \in BOOLEAN
  BY SessionAssumption DEF SessionTypes, Turns
<1>3. <<"compact">> \in Seq(Kinds) /\ Len(<<"compact">>) = 1 /\ Head(<<"compact">>) = "compact"
      /\ <<"compact">> # <<>>
  BY DEF Kinds
<1>4. /\ SessionTypes' /\ Places' /\ Projected' /\ Truthful' /\ Waiting' /\ Looking' /\ WaiterRight'
      /\ batch'.turn = 0 /\ batch'.left = <<"compact">>
      /\ TaskStage = "idle" /\ TaskStage' = "idle"
      /\ \A u : Seen(u)' <=> Seen(u)
  BY <1>1, <1>2, <1>3, PersistKeeps
<1>5. batch.left = <<>>
  BY <1>1 DEF TaskFree
<1>6. Seen(turn)' <=> Seen(turn)
  BY <1>1, <1>4 DEF Seen
<1>7. Underway'
  BY <1>1, <1>3, <1>4, <1>5, <1>6 DEF Underway
<1>8. PhaseTells'
  BY <1>1, <1>4 DEF PhaseTells, BeganQueued
<1> QED
  BY <1>4, <1>7, <1>8

\* The number of the task's last event, when there is one in hand, is in the log.
LEMMA TaskSeqIn == Places /\ TaskStage # "idle" => TaskSeq \in DOMAIN log
  BY TaskIn DEF Places, TaskStage, TaskSeq

\* What an append leaves true of projections, checkpoint and waiters.
LEMMA LogGrows ==
  ASSUME SessionIInv, NEW e \in Events, log' = Append(log, e),
         UNCHANGED <<state, turn, checkpoint, sent, waiter>>, batch'.snapshot = batch.snapshot
  PROVE  /\ log' \in Seq(Events) /\ Len(log) \in Nat /\ Len(log') = Len(log) + 1
         /\ DOMAIN log = 1..Len(log) /\ DOMAIN log' = 1..(Len(log) + 1)
         /\ \A i \in DOMAIN log : i \in DOMAIN log' /\ log'[i] = log[i]
         /\ log'[Len(log) + 1] = e
         /\ \A a, S : Holds(log, a, S) => Holds(log', a, S)
         /\ OwnUpTo(log', Len(log) + 1) =
              IF e.kind # "note" THEN OwnUpTo(log, Len(log)) \cup {Len(log) + 1} ELSE OwnUpTo(log, Len(log))
         /\ \A n \in Nat : n <= Len(log) => OwnUpTo(log', n) = OwnUpTo(log, n)
         /\ Truthful' /\ Waiting' /\ Looking' /\ WaiterRight'
         /\ \A t : BeganQueued(t) => BeganQueued(t)'
<1>1. log \in Seq(Events)
  BY DEF SessionIInv, SessionTypes
<1>2. /\ log' \in Seq(Events) /\ Len(log) \in Nat /\ Len(log') = Len(log) + 1
      /\ DOMAIN log = 1..Len(log) /\ DOMAIN log' = 1..(Len(log) + 1)
      /\ log'[Len(log) + 1] = e
  BY <1>1, Longer
<1>3. \A i \in DOMAIN log : i \in DOMAIN log' /\ log'[i] = log[i]
  BY <1>1, Longer
<1>4. \A a, S : Holds(log, a, S) => Holds(log', a, S)
  BY <1>1, HoldsLonger
<1>5. \A n \in Nat : n <= Len(log) => OwnUpTo(log', n) = OwnUpTo(log, n)
  BY <1>1, OwnUpToLonger
<1>6. OwnUpTo(log', Len(log) + 1) =
        IF e.kind # "note" THEN OwnUpTo(log, Len(log)) \cup {Len(log) + 1} ELSE OwnUpTo(log, Len(log))
  <2>1. 1..(Len(log) + 1) = (1..Len(log)) \cup {Len(log) + 1}
    BY <1>2
  <2>2. OwnUpTo(log', Len(log)) = OwnUpTo(log, Len(log))
    BY <1>2, <1>5
  <2>3. OwnIn(log', Len(log) + 1) <=> e.kind # "note"
    BY <1>2 DEF OwnIn
  <2>4. OwnUpTo(log', Len(log) + 1) =
          IF OwnIn(log', Len(log) + 1) THEN OwnUpTo(log', Len(log)) \cup {Len(log) + 1}
          ELSE OwnUpTo(log', Len(log))
    BY <2>1 DEF OwnUpTo
  <2> QED
    BY <2>2, <2>3, <2>4
<1>7. Truthful'
  <2>1. \A s : TellsEnds(log, s) => TellsEnds(log', s)
    BY <1>1, TellsLonger
  <2> QED
    BY <2>1 DEF SessionIInv, Truthful
<1>8. \A t : BeganQueued(t) => BeganQueued(t)'
  BY <1>3 DEF BeganQueued
<1>9. Places
  BY DEF SessionIInv
<1>10. Waiting'
  <2>1. \A k \in DOMAIN sent : log'[sent[k]] = log[sent[k]]
    BY <1>3, <1>9 DEF Places
  <2> SUFFICES ASSUME NEW w \in Waiters
               PROVE  /\ waiter[w].stage # "off" => waiter[w].turn > 0
                      /\ waiter[w].stage \notin {"off", "over"} =>
                            \E k \in DOMAIN sent : log'[sent[k]].turn = waiter[w].turn
                      /\ waiter[w].found \in Ends =>
                            \E i \in DOMAIN log' : log'[i] = [turn |-> waiter[w].turn, kind |-> waiter[w].found]
    BY DEF Waiting
  <2>2. Waiting
    BY DEF SessionIInv
  <2>3. waiter[w].found \in Ends =>
          \E i \in DOMAIN log : log[i] = [turn |-> waiter[w].turn, kind |-> waiter[w].found]
    BY <2>2 DEF Waiting
  <2>4. waiter[w].stage # "off" => waiter[w].turn > 0
    BY <2>2 DEF Waiting
  <2>5. waiter[w].stage \notin {"off", "over"} => \E k \in DOMAIN sent : log[sent[k]].turn = waiter[w].turn
    BY <2>2 DEF Waiting
  <2>6. waiter[w].stage \notin {"off", "over"} => \E k \in DOMAIN sent : log'[sent[k]].turn = waiter[w].turn
    BY <2>1, <2>5
  <2>7. waiter[w].found \in Ends =>
          \E i \in DOMAIN log' : log'[i] = [turn |-> waiter[w].turn, kind |-> waiter[w].found]
    BY <2>3, <1>3
  <2> QED
    BY <2>4, <2>6, <2>7
<1>11. WaiterRight'
  <2>1. WaiterRight
    BY DEF SessionIInv
  <2> QED
    BY <2>1, <1>3, <1>8 DEF WaiterRight
<1>12. Looking'
  <2>1. Looking
    BY DEF SessionIInv
  <2> QED
    BY <2>1, <1>8 DEF Looking
<1> QED
  BY <1>2, <1>3, <1>4, <1>5, <1>6, <1>7, <1>8, <1>10, <1>11, <1>12

\* The task's next event is not applied yet, all before it are.
LEMMA StoreNextKeeps == ASSUME SessionIInv, StoreNext PROVE SessionIInv'
<1> USE DEF SessionIInv
<1> DEFINE e == [turn |-> batch.turn, kind |-> Head(batch.left)]
           n == Len(log) + 1
<1>1. /\ TaskStage = "idle" /\ batch.left # <<>> /\ log' = Append(log, e)
      /\ batch' = [batch EXCEPT !.left = Tail(@), !.last = Len(log) + 1,
                                !.compacted = @ \/ Head(batch.left) = "compact"]
      /\ at' = [at EXCEPT ![Task] = [stage |-> "stored", seq |-> n]]
      /\ UNCHANGED <<state, turn, open, checkpoint, sent, waiter>>
  BY DEF StoreNext, Stage, TaskStage
<1>2. /\ log \in Seq(Events) /\ turn \in Turns /\ turn \in Nat
      /\ at \in [Appenders -> [stage : TaskStages, seq : Nat]]
      /\ batch.turn \in Turns /\ batch.left \in Seq(Kinds) /\ batch.compacted \in BOOLEAN
      /\ batch.snapshot \in Projections
  BY SessionAssumption DEF SessionTypes, Turns
<1>3. Head(batch.left) \in Kinds /\ Tail(batch.left) \in Seq(Kinds)
  BY <1>1, <1>2
<1>4. e \in Events /\ e.turn = batch.turn /\ e.kind = Head(batch.left)
  BY <1>2, <1>3 DEF Events
<1>5. batch' = [turn |-> batch.turn, left |-> Tail(batch.left), last |-> n,
                compacted |-> batch.compacted \/ Head(batch.left) = "compact",
                snapshot |-> batch.snapshot]
  <2>1. batch \in [turn : Turns, left : Seq(Kinds), last : Nat, compacted : BOOLEAN,
                   snapshot : Projections]
    BY DEF SessionTypes
  <2> QED
    BY <1>1, <2>1
<1> HIDE DEF e
<1>6. /\ log' \in Seq(Events) /\ Len(log) \in Nat /\ Len(log') = n
      /\ DOMAIN log = 1..Len(log) /\ DOMAIN log' = 1..n
      /\ \A i \in DOMAIN log : i \in DOMAIN log' /\ log'[i] = log[i]
      /\ log'[n] = e
      /\ \A a, S : Holds(log, a, S) => Holds(log', a, S)
      /\ OwnUpTo(log', n) =
           IF e.kind # "note" THEN OwnUpTo(log, Len(log)) \cup {n} ELSE OwnUpTo(log, Len(log))
      /\ \A k \in Nat : k <= Len(log) => OwnUpTo(log', k) = OwnUpTo(log, k)
      /\ Truthful' /\ Waiting' /\ Looking' /\ WaiterRight'
      /\ \A t : BeganQueued(t) => BeganQueued(t)'
  BY <1>1, <1>4, <1>5, LogGrows
<1>7. n \in Nat /\ n \in 1..n /\ ~(n <= Len(log))
  BY <1>6
<1> HIDE DEF n
<1>8. /\ \A p \in Others : at'[p] = at[p]
      /\ TaskStage' = "stored" /\ TaskSeq' = n
      /\ at' \in [Appenders -> [stage : TaskStages, seq : Nat]]
  <2>1. [stage |-> "stored", seq |-> n] \in [stage : TaskStages, seq : Nat]
    BY <1>7 DEF TaskStages
  <2> QED
    BY <2>1, <1>1, <1>2, TaskIn, SessionAssumption DEF TaskStage, TaskSeq
<1>9. /\ batch.turn = turn \/ batch.turn = 0
      /\ e.kind # "note"
      /\ e.turn = 0 => e.kind = "compact" /\ ~open
      /\ e.turn # 0 => e.turn = turn /\ IF e.kind \in {"user", "queued"} THEN open ELSE Seen(turn)
      /\ Tail(batch.left) # <<>> =>
            batch.turn = turn /\ open /\ turn > 0 /\ Tail(batch.left) \in Seq({"work", "compact"}) /\ Seen(turn)
      /\ ~open /\ batch.turn = turn /\ turn > 0 => e.kind \in Ends
  <2>1. Underway
    OBVIOUS
  <2>2. Len(batch.left) = 1 => Tail(batch.left) = <<>>
    <3>1. Len(Tail(batch.left)) = Len(batch.left) - 1
      BY <1>1, <1>2
    <3>2. Len(batch.left) = 1 => Len(Tail(batch.left)) = 0
      BY <3>1
    <3> QED
      BY <3>2, <1>3, EmptySeq
  <2>3. batch.left \in Seq({"work", "compact"}) =>
          Head(batch.left) \in {"work", "compact"} /\ Tail(batch.left) \in Seq({"work", "compact"})
    BY <1>1
  <2>4. CASE Len(batch.left) = 1 /\ Head(batch.left) \in {"user", "queued"} /\ batch.turn = turn /\ open
             /\ turn > 0
    BY <2>2, <2>4, <1>4
  <2>5. CASE batch.turn = turn /\ open /\ turn > 0 /\ batch.left \in Seq({"work", "compact"}) /\ Seen(turn)
    BY <2>3, <2>5, <1>4
  <2>6. CASE batch.turn = turn /\ ~open /\ turn > 0 /\ Len(batch.left) = 1 /\ Head(batch.left) \in Ends
             /\ Seen(turn)
    BY <2>2, <2>6, <1>4 DEF Ends
  <2>7. CASE batch.turn = 0 /\ ~open /\ Len(batch.left) = 1 /\ Head(batch.left) = "compact"
    BY <2>2, <2>7, <1>4, <1>2
  <2> QED
    BY <2>1, <1>1, <2>4, <2>5, <2>6, <2>7 DEF Underway
<1>10. \A t : Seen(t)' <=> Seen(t)
  <2>1. \A k \in DOMAIN sent : log'[sent[k]] = log[sent[k]]
    BY <1>6 DEF Places
  <2> QED
    BY <2>1, <1>1, <1>8 DEF Seen
<1>11. Seen(turn)' <=> Seen(turn)
  <2>1. Seen(turn)' <=> (\E k \in DOMAIN sent : log'[sent[k]].turn = turn)
    BY <1>1, <1>8 DEF Seen
  <2>2. \A k \in DOMAIN sent : log'[sent[k]] = log[sent[k]]
    BY <1>6 DEF Places
  <2> QED
    BY <2>1, <2>2, <1>1 DEF Seen
<1>12. SessionTypes'
  <2>1. batch' \in [turn : Turns, left : Seq(Kinds), last : Nat, compacted : BOOLEAN,
                    snapshot : Projections]
    BY <1>2, <1>3, <1>5, <1>7
  <2> QED
    BY <2>1, <1>1, <1>6, <1>8 DEF SessionTypes
<1>13. Places'
  <2>1. ASSUME NEW p \in Appenders, at'[p].stage # "idle" PROVE at'[p].seq \in DOMAIN log'
    <3>1. CASE p = Task
      BY <3>1, <1>6, <1>7, <1>8 DEF TaskSeq
    <3>2. CASE p # Task
      BY <3>2, <2>1, TaskIn, <1>6, <1>8 DEF Places
    <3> QED
      BY <3>1, <3>2
  <2>2. ASSUME NEW p \in Others
        PROVE  /\ at'[p].stage \in {"idle", "stored", "applied"}
               /\ at'[p].stage # "idle" => log'[at'[p].seq] = [turn |-> 0, kind |-> "note"]
    BY TaskIn, <1>6, <1>8 DEF Places
  <2>3. OwnIn(log', n) /\ \A i \in DOMAIN log' : i <= n
    BY <1>6, <1>7, <1>9 DEF OwnIn
  <2>4. batch'.last = n
    BY <1>5
  <2>5. \A k \in DOMAIN sent : sent[k] \in DOMAIN log'
    BY <1>6 DEF Places
  <2> QED
    BY <2>1, <2>2, <2>3, <2>4, <2>5, <1>1, <1>8 DEF Places
<1>14. Projected'
  <2>1. Unapplied = {} /\ Unapplied' = {n}
    BY <1>1, <1>8 DEF Unapplied
  <2>2. OwnUpTo(log', n) \ {n} = OwnUpTo(log, Len(log)) \ {}
    <3>1. n \notin OwnUpTo(log, Len(log))
      BY <1>6, <1>7 DEF OwnUpTo
    <3> QED
      BY <3>1, <1>6, <1>9
  <2>3. Holds(log', state.applied, OwnUpTo(log', n) \ {n})
    BY <2>1, <2>2, <1>6 DEF Projected
  <2>4. /\ checkpoint.seq <= n
        /\ Holds(log', checkpoint.state.applied, OwnUpTo(log', checkpoint.seq))
    <3>1. checkpoint.seq \in Nat /\ checkpoint.seq <= Len(log)
      BY DEF SessionTypes, Projected
    <3> QED
      BY <3>1, <1>6 DEF Projected, n
  <2> QED
    BY <2>1, <2>3, <2>4, <1>1, <1>6, <1>8 DEF Projected
<1>15. Underway'
  <2>1. ASSUME NEW i \in DOMAIN log' PROVE log'[i].turn <= turn
    <3>1. CASE i = n
      BY <3>1, <1>2, <1>4, <1>6, <1>9
    <3>2. CASE i # n
      <4>1. i \in DOMAIN log
        BY <3>2, <1>6 DEF n
      <4> QED
        BY <4>1, <1>6 DEF Underway
    <3> QED
      BY <3>1, <3>2
  <2>2. open => turn > 0
    BY DEF Underway
  <2>3. batch'.left = Tail(batch.left) /\ batch'.turn = batch.turn
    BY <1>5
  <2>4. ~open /\ turn > 0 /\ Seen(turn) =>
           state.ends[turn] \in Ends \/ (e.turn = turn /\ e.kind \in Ends)
    BY <1>1, <1>4, <1>9 DEF Underway
  <2> QED
    BY <2>1, <2>2, <2>3, <2>4, <1>1, <1>6, <1>8, <1>9, <1>11 DEF Underway
<1>16. PhaseTells'
  BY <1>1, <1>6, <1>10 DEF PhaseTells
<1> QED
  BY <1>6, <1>12, <1>13, <1>14, <1>15, <1>16

\* Another appender's note is none of the task's own events.
LEMMA StoreNoteKeeps == ASSUME SessionIInv, NEW p \in Appenders, StoreNote(p) PROVE SessionIInv'
<1> USE DEF SessionIInv
<1> DEFINE e == [turn |-> 0, kind |-> "note"]
           n == Len(log) + 1
<1>1. /\ p \in Others /\ p # Task /\ log' = Append(log, e)
      /\ at' = [at EXCEPT ![p] = [stage |-> "stored", seq |-> n]]
      /\ UNCHANGED <<state, batch, turn, open, checkpoint, sent, waiter>>
  BY TaskIn DEF StoreNote, Stage
<1>2. /\ log \in Seq(Events) /\ turn \in Turns /\ turn \in Nat
      /\ at \in [Appenders -> [stage : TaskStages, seq : Nat]]
  BY SessionAssumption DEF SessionTypes, Turns
<1>3. e \in Events /\ e.turn = 0 /\ e.kind = "note"
  BY SessionAssumption DEF Events, Turns, Kinds
<1> HIDE DEF e
<1>4. /\ log' \in Seq(Events) /\ Len(log) \in Nat /\ Len(log') = n
      /\ DOMAIN log = 1..Len(log) /\ DOMAIN log' = 1..n
      /\ \A i \in DOMAIN log : i \in DOMAIN log' /\ log'[i] = log[i]
      /\ log'[n] = e
      /\ \A a, S : Holds(log, a, S) => Holds(log', a, S)
      /\ OwnUpTo(log', n) = OwnUpTo(log, Len(log))
      /\ \A k \in Nat : k <= Len(log) => OwnUpTo(log', k) = OwnUpTo(log, k)
      /\ Truthful' /\ Waiting' /\ Looking' /\ WaiterRight'
      /\ \A t : BeganQueued(t) => BeganQueued(t)'
  BY <1>1, <1>3, LogGrows
<1>5. n \in Nat /\ n \in 1..n /\ ~(n <= Len(log))
  BY <1>4
<1> HIDE DEF n
<1>6. /\ \A q \in Appenders : q # p => at'[q] = at[q]
      /\ at'[p] = [stage |-> "stored", seq |-> n]
      /\ TaskStage' = TaskStage /\ TaskSeq' = TaskSeq
      /\ at' \in [Appenders -> [stage : TaskStages, seq : Nat]]
  <2>1. [stage |-> "stored", seq |-> n] \in [stage : TaskStages, seq : Nat]
    BY <1>5 DEF TaskStages
  <2> QED
    BY <2>1, <1>1, <1>2, TaskIn DEF TaskStage, TaskSeq
<1>7. TaskStage # "idle" => TaskSeq \in DOMAIN log /\ log'[TaskSeq] = log[TaskSeq]
  BY TaskSeqIn, <1>4
<1>8. \A k \in DOMAIN sent : log'[sent[k]] = log[sent[k]]
  BY <1>4 DEF Places
<1>9. \A t : Seen(t)' <=> Seen(t)
  BY <1>1, <1>6, <1>7, <1>8 DEF Seen
<1>10. Seen(turn)' <=> Seen(turn)
  <2>1. Seen(turn)' <=> \/ \E k \in DOMAIN sent : log'[sent[k]].turn = turn
                        \/ TaskStage = "applied" /\ log'[TaskSeq].turn = turn
    BY <1>1, <1>6 DEF Seen
  <2> QED
    BY <2>1, <1>7, <1>8 DEF Seen
<1>11. SessionTypes'
  BY <1>1, <1>4, <1>6 DEF SessionTypes
<1>12. Places'
  <2>1. ASSUME NEW q \in Appenders, at'[q].stage # "idle" PROVE at'[q].seq \in DOMAIN log'
    BY <2>1, <1>4, <1>5, <1>6 DEF Places
  <2>2. ASSUME NEW q \in Others
        PROVE  /\ at'[q].stage \in {"idle", "stored", "applied"}
               /\ at'[q].stage # "idle" => log'[at'[q].seq] = [turn |-> 0, kind |-> "note"]
    <3>1. CASE q = p
      BY <3>1, <1>4, <1>6 DEF e
    <3>2. CASE q # p
      BY <3>2, TaskIn, <1>4, <1>6 DEF Places
    <3> QED
      BY <3>1, <3>2
  <2>3. TaskStage # "idle" =>
          OwnIn(log', TaskSeq) /\ \A i \in DOMAIN log' : OwnIn(log', i) => i <= TaskSeq
    <3>1. SUFFICES ASSUME TaskStage # "idle"
                   PROVE  OwnIn(log', TaskSeq) /\ \A i \in DOMAIN log' : OwnIn(log', i) => i <= TaskSeq
      OBVIOUS
    <3>2. OwnIn(log', TaskSeq)
      BY <3>1, <1>7 DEF Places, OwnIn
    <3>3. ASSUME NEW i \in DOMAIN log', OwnIn(log', i) PROVE i <= TaskSeq
      <4>1. i # n
        BY <3>3, <1>3, <1>4 DEF OwnIn
      <4>2. i \in DOMAIN log
        BY <4>1, <1>4 DEF n
      <4> QED
        BY <3>1, <3>3, <4>2, <1>4 DEF Places, OwnIn
    <3> QED
      BY <3>2, <3>3
  <2>4. \A k \in DOMAIN sent : sent[k] \in DOMAIN log'
    BY <1>4 DEF Places
  <2>5. /\ TaskStage \in {"stored", "applied"} => batch.last = TaskSeq
        /\ TaskStage \in {"check", "built"} => batch.left = <<>>
    BY DEF Places
  <2> QED
    BY <2>1, <2>2, <2>3, <2>4, <2>5, <1>1, <1>6 DEF Places
<1>13. Projected'
  <2>1. Unapplied' = Unapplied
    BY <1>6 DEF Unapplied
  <2>2. Holds(log', state.applied, OwnUpTo(log', n) \ Unapplied)
    BY <1>4 DEF Projected
  <2>3. /\ checkpoint.seq <= n
        /\ Holds(log', checkpoint.state.applied, OwnUpTo(log', checkpoint.seq))
    <3>1. checkpoint.seq \in Nat /\ checkpoint.seq <= Len(log)
      BY DEF SessionTypes, Projected
    <3> QED
      BY <3>1, <1>4 DEF Projected, n
  <2>4. TaskStage = "built" => Holds(log', batch.snapshot.applied, OwnUpTo(log', TaskSeq))
    <3>1. TaskStage = "built" => TaskSeq \in Nat /\ TaskSeq <= Len(log)
      BY <1>4, <1>7
    <3> QED
      BY <3>1, <1>4 DEF Projected
  <2> QED
    BY <2>1, <2>2, <2>3, <2>4, <1>1, <1>4, <1>6 DEF Projected
<1>14. Underway'
  <2>1. ASSUME NEW i \in DOMAIN log' PROVE log'[i].turn <= turn
    <3>1. CASE i = n
      BY <3>1, <1>2, <1>3, <1>4
    <3>2. CASE i # n
      <4>1. i \in DOMAIN log
        BY <3>2, <1>4 DEF n
      <4> QED
        BY <4>1, <1>4 DEF Underway
    <3> QED
      BY <3>1, <3>2
  <2>2. TaskStage = "stored" => log'[TaskSeq] = log[TaskSeq]
    BY <1>7
  <2> QED
    BY <2>1, <2>2, <1>1, <1>6, <1>10 DEF Underway
<1>15. PhaseTells'
  BY <1>1, <1>4, <1>9 DEF PhaseTells
<1> QED
  BY <1>4, <1>11, <1>12, <1>13, <1>14, <1>15

\* An appender's step that puts it at another stage.
LEMMA StageMoves ==
  ASSUME SessionTypes, NEW p \in Appenders, NEW label \in TaskStages, NEW seq \in Nat, Stage(p, label, seq)
  PROVE  /\ at' \in [Appenders -> [stage : TaskStages, seq : Nat]]
         /\ at'[p].stage = label /\ at'[p].seq = seq
         /\ \A q \in Appenders : q # p => at'[q] = at[q]
         /\ p = Task => TaskStage' = label /\ TaskSeq' = seq
         /\ p # Task => TaskStage' = TaskStage /\ TaskSeq' = TaskSeq
<1>1. at \in [Appenders -> [stage : TaskStages, seq : Nat]]
  BY DEF SessionTypes
<1>2. at' = [at EXCEPT ![p] = [stage |-> label, seq |-> seq]]
  BY DEF Stage
<1>3. [stage |-> label, seq |-> seq] \in [stage : TaskStages, seq : Nat]
  OBVIOUS
<1> QED
  BY <1>1, <1>2, <1>3, TaskIn DEF TaskStage, TaskSeq

\* Applying under the mutex: the phase and the ends move together.
LEMMA ApplyStoredKeeps == ASSUME SessionIInv, NEW p \in Appenders, ApplyStored(p) PROVE SessionIInv'
<1> USE DEF SessionIInv
<1> DEFINE i == at[p].seq
           e == log[i]
<1>1. /\ at[p].stage = "stored" /\ state' = Apply(state, i) /\ Stage(p, "applied", i)
      /\ UNCHANGED <<log, batch, turn, open, checkpoint, sent, waiter>>
  BY DEF ApplyStored
<1>2. /\ log \in Seq(Events) /\ state \in Projections /\ turn \in Turns /\ turn \in Nat
      /\ at \in [Appenders -> [stage : TaskStages, seq : Nat]]
      /\ DOMAIN log = 1..Len(log) /\ Len(log) \in Nat
  BY SessionAssumption DEF SessionTypes, Turns
<1>3. i \in DOMAIN log /\ i \in Nat
  BY <1>1, <1>2 DEF Places
<1>4. e \in Events /\ e.turn \in Turns /\ e.kind \in Kinds
  <2>1. e \in Events
    BY <1>2, <1>3
  <2> QED
    BY <2>1 DEF Events
<1>5. /\ at' \in [Appenders -> [stage : TaskStages, seq : Nat]]
      /\ at'[p].stage = "applied" /\ at'[p].seq = i
      /\ \A q \in Appenders : q # p => at'[q] = at[q]
      /\ p = Task => TaskStage' = "applied" /\ TaskSeq' = i
      /\ p # Task => TaskStage' = TaskStage /\ TaskSeq' = TaskSeq
  BY <1>1, <1>3, StageMoves DEF TaskStages
<1>6. p = Task => TaskStage = "stored" /\ TaskSeq = i /\ OwnIn(log, i) /\ e.kind # "note"
                  /\ \A j \in DOMAIN log : OwnIn(log, j) => j <= i
  BY <1>1 DEF TaskStage, TaskSeq, Places, OwnIn
<1>7. p # Task => e.turn = 0 /\ e.kind = "note" /\ ~OwnIn(log, i)
  BY <1>1, TaskIn DEF Places, OwnIn
<1>8. /\ state' \in Projections
      /\ state'.phase = PhaseAfter(state.phase, e.kind)
      /\ \A t \in Turns : state'.ends[t] =
            IF t # 0 /\ t = e.turn THEN EndAfter(state.ends[t], e.kind) ELSE state.ends[t]
  <2>1. /\ Apply(state, i) \in Projections
        /\ Apply(state, i).phase = PhaseAfter(state.phase, log[i].kind)
        /\ \A t \in Turns : Apply(state, i).ends[t] =
              IF t # 0 /\ t = log[i].turn THEN EndAfter(state.ends[t], log[i].kind) ELSE state.ends[t]
    <3> HIDE DEF i
    <3> QED
      BY <1>2, <1>3, ApplyParts
  <2>2. state' = Apply(state, i) /\ e = log[i]
    BY <1>1
  <2> HIDE DEF i, e
  <2> QED
    BY <2>1, <2>2
<1>9. TellsEnds(log, state')
  BY <1>1, <1>2, <1>3, ApplyTells DEF Truthful
<1>10. \A t \in Turns : /\ state.ends[t] \in Ends => state'.ends[t] \in Ends
                        /\ t # 0 /\ t = e.turn /\ e.kind \in Ends => state'.ends[t] \in Ends
  BY <1>8 DEF EndAfter, Ends
<1>11. /\ p = Task => \A t : Seen(t)' <=> Seen(t) \/ e.turn = t
       /\ p # Task => \A t : Seen(t)' <=> Seen(t)
  BY <1>1, <1>5, <1>6 DEF Seen
<1>12. /\ p = Task => (Seen(turn)' <=> Seen(turn) \/ e.turn = turn)
       /\ p # Task => (Seen(turn)' <=> Seen(turn))
  BY <1>1, <1>5, <1>6 DEF Seen
<1>13. SessionTypes'
  BY <1>1, <1>5, <1>8 DEF SessionTypes
<1>14. Places'
  <2>1. ASSUME NEW q \in Appenders, at'[q].stage # "idle" PROVE at'[q].seq \in DOMAIN log
    BY <2>1, <1>3, <1>5 DEF Places
  <2>2. ASSUME NEW q \in Others
        PROVE  /\ at'[q].stage \in {"idle", "stored", "applied"}
               /\ at'[q].stage # "idle" => log[at'[q].seq] = [turn |-> 0, kind |-> "note"]
    <3>1. CASE q = p
      BY <3>1, <1>1, <1>5 DEF Places
    <3>2. CASE q # p
      BY <3>2, TaskIn, <1>5 DEF Places
    <3> QED
      BY <3>1, <3>2
  <2>3. p = Task => batch.last = i
    BY <1>6 DEF Places
  <2> QED
    BY <2>1, <2>2, <2>3, <1>1, <1>5, <1>6 DEF Places
<1>15. Projected'
  <2>1. Holds(log, state'.applied, OwnUpTo(log, Len(log)) \ Unapplied')
    <3> DEFINE S == OwnUpTo(log, Len(log)) \ Unapplied
    <3>1. Holds(log, state.applied, S)
      BY DEF Projected
    <3>2. OwnIn(log, i) => \A j \in S : j < i
      <4> SUFFICES ASSUME OwnIn(log, i), NEW j \in S PROVE j < i
        OBVIOUS
      <4>1. p = Task /\ Unapplied = {i}
        BY <1>6, <1>7 DEF Unapplied
      <4>2. j \in DOMAIN log /\ OwnIn(log, j) /\ j # i
        BY <4>1, <1>2 DEF OwnUpTo
      <4> QED
        BY <4>1, <4>2, <1>2, <1>3, <1>6
    <3>3. Holds(log, Apply(state, i).applied, IF OwnIn(log, i) THEN S \cup {i} ELSE S)
      <4> HIDE DEF S, i
      <4> QED
        BY <3>1, <3>2, <1>2, <1>3, ApplyHoldsOwn
    <3>4. (IF OwnIn(log, i) THEN S \cup {i} ELSE S) = OwnUpTo(log, Len(log)) \ Unapplied'
      <4>1. CASE p = Task
        <5>1. Unapplied = {i} /\ Unapplied' = {} /\ OwnIn(log, i)
          BY <4>1, <1>5, <1>6 DEF Unapplied
        <5>2. i \in OwnUpTo(log, Len(log))
          BY <5>1, <1>2, <1>3 DEF OwnUpTo
        <5> QED
          BY <5>1, <5>2
      <4>2. CASE p # Task
        BY <4>2, <1>5, <1>7 DEF Unapplied
      <4> QED
        BY <4>1, <4>2
    <3> QED
      BY <3>3, <3>4, <1>1
  <2>2. TaskStage' = "built" => TaskStage = "built" /\ TaskSeq' = TaskSeq
    BY <1>5
  <2> QED
    BY <2>1, <2>2, <1>1 DEF Projected
<1>16. Truthful'
  BY <1>1, <1>9 DEF Truthful
<1>17. Underway'
  <2>1. Underway
    OBVIOUS
  <2>2. Seen(turn) => Seen(turn)'
    BY <1>11, <1>12
  <2>3. p = Task => /\ e.turn = 0 => e.kind = "compact" /\ ~open
                    /\ e.turn # 0 => e.turn = turn /\ IF e.kind \in {"user", "queued"} THEN open ELSE Seen(turn)
    BY <2>1, <1>6 DEF Underway
  <2>4. open => turn > 0 /\ (Seen(turn)' \/ batch.left # <<>> \/ TaskStage' = "stored")
    BY <2>1, <2>2, <2>3, <1>5, <1>6, <1>12 DEF Underway
  <2>5. TaskStage' = "stored" => p # Task /\ TaskStage = "stored" /\ TaskSeq' = TaskSeq
    BY <1>5
  <2>6. ASSUME ~open, turn > 0, Seen(turn)'
        PROVE  \/ state'.ends[turn] \in Ends
               \/ batch.left # <<>> /\ batch.turn = turn
               \/ TaskStage' = "stored" /\ log[TaskSeq'].turn = turn /\ log[TaskSeq'].kind \in Ends
    <3>1. CASE p = Task
      <4>1. Seen(turn)
        BY <3>1, <2>3, <2>6, <1>2, <1>12
      <4>2. \/ state.ends[turn] \in Ends
            \/ batch.left # <<>> /\ batch.turn = turn
            \/ e.turn = turn /\ e.kind \in Ends
        BY <3>1, <4>1, <2>1, <2>6, <1>6 DEF Underway
      <4> QED
        BY <4>2, <2>6, <1>2, <1>10
    <3>2. CASE p # Task
      BY <3>2, <2>1, <2>6, <1>2, <1>5, <1>10, <1>12 DEF Underway
    <3> QED
      BY <3>1, <3>2
  <2> QED
    BY <2>1, <2>2, <2>4, <2>5, <2>6, <1>1 DEF Underway
<1>18. PhaseTells'
  <2> SUFFICES ASSUME NEW t \in Turns, t > 0, Seen(t)', ~BeganQueued(t)
               PROVE  state'.ends[t] \in Ends \/ (t = turn /\ state'.phase \in Running)
    BY <1>1 DEF PhaseTells, BeganQueued
  <2>1. Seen(t) => state.ends[t] \in Ends \/ (t = turn /\ state.phase \in Running)
    BY DEF PhaseTells
  <2>2. CASE p # Task
    BY <2>1, <2>2, <1>7, <1>8, <1>10, <1>11 DEF PhaseAfter
  <2>3. CASE p = Task /\ e.turn = t
    <3>1. t = turn /\ t # 0 /\ (e.kind \notin {"user", "queued"} => Seen(t))
      BY <2>3, <1>2, <1>6 DEF Underway, Turns
    <3>2. e = [turn |-> t, kind |-> e.kind]
      BY <2>3, <1>4 DEF Events
    <3>3. e.kind # "queued"
      BY <3>2, <1>3 DEF BeganQueued
    <3>4. CASE e.kind \in Ends
      BY <3>1, <3>4, <2>3, <1>10
    <3>5. CASE e.kind \in {"user", "work"}
      BY <3>1, <3>5, <1>8 DEF PhaseAfter, TargetPhase, Running
    <3>6. CASE e.kind = "compact"
      BY <3>1, <3>6, <2>1, <1>8, <1>10 DEF PhaseAfter
    <3> QED
      BY <3>3, <3>4, <3>5, <3>6, <2>3, <1>4, <1>6 DEF Kinds, Ends
  <2>4. CASE p = Task /\ e.turn # t
    <3>1. Seen(t) /\ state'.ends[t] = state.ends[t]
      BY <2>4, <1>8, <1>11
    <3>2. CASE t = turn
      <4>1. e.kind = "compact"
        BY <3>2, <2>4, <1>6 DEF Underway
      <4> QED
        BY <4>1, <3>1, <2>1, <1>8 DEF PhaseAfter
    <3>3. CASE t # turn
      BY <3>1, <3>3, <2>1
    <3> QED
      BY <3>2, <3>3
  <2> QED
    BY <2>2, <2>3, <2>4
<1>19. Waiting' /\ Looking' /\ WaiterRight'
  <2>1. Waiting' /\ WaiterRight'
    BY <1>1 DEF Waiting, WaiterRight, BeganQueued
  <2>2. \A w \in Waiters : waiter[w].turn \in Turns
    BY DEF SessionTypes, WaiterRecords
  <2>3. Looking'
    BY <2>2, <1>1, <1>10 DEF Looking, BeganQueued
  <2> QED
    BY <2>1, <2>3
<1> QED
  BY <1>13, <1>14, <1>15, <1>16, <1>17, <1>18, <1>19

\* The record of an applied event is broadcast; the task may turn to the checkpoint.
LEMMA SendKeeps == ASSUME SessionIInv, NEW p \in Appenders, Send(p) PROVE SessionIInv'
<1> USE DEF SessionIInv
<1> DEFINE i == at[p].seq
<1>1. /\ at[p].stage = "applied" /\ sent' = Append(sent, i)
      /\ IF p = Task /\ batch.left = <<>> /\ batch.compacted
         THEN Stage(p, "check", batch.last) ELSE Stage(p, "idle", 0)
      /\ UNCHANGED <<log, state, batch, turn, open, checkpoint, waiter>>
  BY DEF Send
<1>2. /\ log \in Seq(Events) /\ turn \in Turns /\ turn \in Nat /\ sent \in Seq(Nat)
      /\ at \in [Appenders -> [stage : TaskStages, seq : Nat]]
  BY SessionAssumption DEF SessionTypes, Turns
<1>3. i \in DOMAIN log /\ i \in Nat
  BY <1>1, <1>2 DEF Places
<1>4. p = Task => TaskStage = "applied" /\ TaskSeq = i /\ batch.last = i
  BY <1>1 DEF TaskStage, TaskSeq, Places
<1>5. p # Task => log[i] = [turn |-> 0, kind |-> "note"]
  BY <1>1, TaskIn DEF Places
<1> HIDE DEF i
<1>6. /\ at' \in [Appenders -> [stage : TaskStages, seq : Nat]]
      /\ \A q \in Appenders : q # p => at'[q] = at[q]
      /\ at'[p].stage # "idle" => p = Task /\ batch.left = <<>> /\ at'[p].stage = "check" /\ at'[p].seq = i
      /\ p # Task => TaskStage' = TaskStage /\ TaskSeq' = TaskSeq
      /\ p = Task => TaskStage' \in {"check", "idle"} /\ (TaskStage' # "idle" => TaskSeq' = i /\ batch.left = <<>>)
  <2>1. CASE p = Task /\ batch.left = <<>> /\ batch.compacted
    BY <2>1, <1>1, <1>3, <1>4, StageMoves DEF TaskStages
  <2>2. CASE ~(p = Task /\ batch.left = <<>> /\ batch.compacted)
    BY <2>2, <1>1, StageMoves DEF TaskStages
  <2> QED
    BY <2>1, <2>2
<1>7. /\ sent' \in Seq(Nat) /\ Len(sent) \in Nat
      /\ DOMAIN sent = 1..Len(sent) /\ DOMAIN sent' = 1..(Len(sent) + 1)
      /\ \A k \in 1..Len(sent) : k \in 1..(Len(sent) + 1) /\ sent'[k] = sent[k]
      /\ sent'[Len(sent) + 1] = i
  BY <1>1, <1>2, <1>3
<1>8. \A k \in DOMAIN sent' : k \in DOMAIN sent \/ k = Len(sent) + 1
  BY <1>7
<1>9. \A t : (\E k \in DOMAIN sent' : log[sent'[k]].turn = t)
               <=> (\E k \in DOMAIN sent : log[sent[k]].turn = t) \/ log[i].turn = t
  <2>1. Len(sent) + 1 \in DOMAIN sent'
    BY <1>7
  <2> QED
    BY <2>1, <1>7, <1>8
<1>10. \A t \in Turns : t > 0 => (Seen(t)' <=> Seen(t))
  <2>1. CASE p = Task
    BY <2>1, <1>1, <1>4, <1>6, <1>9 DEF Seen
  <2>2. CASE p # Task
    <3>1. log[i].turn = 0 /\ TaskStage' = TaskStage /\ TaskSeq' = TaskSeq /\ log' = log
      BY <2>2, <1>1, <1>5, <1>6
    <3> SUFFICES ASSUME NEW t \in Turns, t > 0 PROVE Seen(t)' <=> Seen(t)
      OBVIOUS
    <3>2. log[i].turn # t
      BY <3>1
    <3>3. (\E k \in DOMAIN sent' : log[sent'[k]].turn = t) <=> (\E k \in DOMAIN sent : log[sent[k]].turn = t)
      BY <3>2, <1>9
    <3> QED
      BY <3>1, <3>3 DEF Seen
  <2> QED
    BY <2>1, <2>2
<1>11. turn > 0 => (Seen(turn)' <=> Seen(turn))
  <2>1. log' = log /\ turn' = turn
    BY <1>1
  <2>2. Seen(turn)' <=> \/ \E k \in DOMAIN sent' : log[sent'[k]].turn = turn
                        \/ TaskStage' = "applied" /\ log[TaskSeq'].turn = turn
    BY <2>1 DEF Seen
  <2>3. (\E k \in DOMAIN sent' : log[sent'[k]].turn = turn)
          <=> (\E k \in DOMAIN sent : log[sent[k]].turn = turn) \/ log[i].turn = turn
    BY <1>9
  <2>4. CASE p = Task
    BY <2>2, <2>3, <2>4, <1>4, <1>6 DEF Seen
  <2>5. CASE p # Task
    BY <2>2, <2>3, <2>5, <1>2, <1>5, <1>6 DEF Seen
  <2> QED
    BY <2>4, <2>5
<1>12. SessionTypes'
  BY <1>1, <1>6, <1>7 DEF SessionTypes
<1>13. Places'
  <2>1. ASSUME NEW q \in Appenders, at'[q].stage # "idle" PROVE at'[q].seq \in DOMAIN log
    BY <2>1, <1>3, <1>6 DEF Places
  <2>2. ASSUME NEW q \in Others
        PROVE  /\ at'[q].stage \in {"idle", "stored", "applied"}
               /\ at'[q].stage # "idle" => log[at'[q].seq] = [turn |-> 0, kind |-> "note"]
    <3>1. CASE q = p
      BY <3>1, <1>6, SessionAssumption
    <3>2. CASE q # p
      BY <3>2, TaskIn, <1>6 DEF Places
    <3> QED
      BY <3>1, <3>2
  <2>3. TaskStage' # "idle" => TaskStage # "idle" /\ TaskSeq' = TaskSeq
    BY <1>4, <1>6
  <2>4. \A k \in DOMAIN sent' : sent'[k] \in DOMAIN log
    BY <1>3, <1>7, <1>8 DEF Places
  <2>5. /\ TaskStage' \in {"stored", "applied"} => batch.last = TaskSeq'
        /\ TaskStage' \in {"check", "built"} => batch.left = <<>>
    BY <1>6 DEF Places
  <2> QED
    BY <2>1, <2>2, <2>3, <2>4, <2>5, <1>1 DEF Places
<1>14. Projected'
  <2>1. Unapplied' = Unapplied
    BY <1>4, <1>6 DEF Unapplied
  <2>2. TaskStage' = "built" => TaskStage = "built" /\ TaskSeq' = TaskSeq
    BY <1>6
  <2> QED
    BY <2>1, <2>2, <1>1 DEF Projected
<1>15. Truthful'
  BY <1>1 DEF Truthful
<1>16. Underway'
  <2>1. Underway
    OBVIOUS
  <2>2. TaskStage' = "stored" => TaskStage = "stored" /\ TaskSeq' = TaskSeq
    BY <1>6
  <2>3. p = Task => TaskStage # "stored"
    BY <1>4
  <2>4. TaskStage = "stored" => TaskStage' = "stored" /\ TaskSeq' = TaskSeq
    BY <2>3, <1>6
  <2>5. TaskStage = "stored" /\ log[TaskSeq].turn # 0 => turn > 0
    <3>1. TaskStage = "stored" => TaskSeq \in DOMAIN log
      BY TaskSeqIn
    <3>2. \A j \in DOMAIN log : log[j] \in Events
      BY <1>2
    <3> QED
      BY <3>1, <3>2, <1>2, SessionAssumption DEF Underway, Events, Turns
  <2> QED
    BY <2>1, <2>2, <2>4, <2>5, <1>1, <1>11 DEF Underway
<1>17. PhaseTells'
  BY <1>1, <1>10 DEF PhaseTells, BeganQueued
<1>18. Waiting' /\ Looking' /\ WaiterRight'
  <2>1. ASSUME NEW w \in Waiters, waiter[w].stage \notin {"off", "over"}
        PROVE  \E k \in DOMAIN sent' : log[sent'[k]].turn = waiter[w].turn
    BY <2>1, <1>9 DEF Waiting
  <2>2. WaiterRight'
    BY <1>1 DEF WaiterRight, BeganQueued
  <2>3. Looking'
    BY <1>1 DEF Looking, BeganQueued
  <2> QED
    BY <2>1, <2>2, <2>3, <1>1 DEF Waiting
<1> QED
  BY <1>12, <1>13, <1>14, <1>15, <1>16, <1>17, <1>18

\* At the checkpoint the projections hold the task's own events to the last.
LEMMA BuildCheckpointKeeps == ASSUME SessionIInv, BuildCheckpoint PROVE SessionIInv'
<1> USE DEF SessionIInv
<1>1. /\ TaskStage = "check" /\ batch' = [batch EXCEPT !.snapshot = state] /\ Stage(Task, "built", TaskSeq)
      /\ UNCHANGED <<log, state, turn, open, checkpoint, sent, waiter>>
  BY DEF BuildCheckpoint, TaskStage, TaskSeq
<1>2. /\ log \in Seq(Events) /\ state \in Projections /\ DOMAIN log = 1..Len(log) /\ Len(log) \in Nat
      /\ batch \in [turn : Turns, left : Seq(Kinds), last : Nat, compacted : BOOLEAN,
                    snapshot : Projections]
  BY DEF SessionTypes
<1>3. /\ batch' \in [turn : Turns, left : Seq(Kinds), last : Nat, compacted : BOOLEAN,
                     snapshot : Projections]
      /\ batch'.turn = batch.turn /\ batch'.left = batch.left /\ batch'.snapshot = state
  BY <1>1, <1>2
<1>4. /\ at' \in [Appenders -> [stage : TaskStages, seq : Nat]]
      /\ \A q \in Others : at'[q] = at[q]
      /\ TaskStage' = "built" /\ TaskSeq' = TaskSeq
      /\ TaskSeq \in DOMAIN log /\ TaskSeq \in Nat
  <2>1. TaskSeq \in Nat /\ TaskSeq \in DOMAIN log
    BY <1>1, TaskTyped, TaskSeqIn
  <2> QED
    BY <2>1, <1>1, TaskIn, SessionAssumption, StageMoves DEF TaskStages
<1>5. \A t : Seen(t)' <=> Seen(t)
  BY <1>1, <1>4 DEF Seen
<1>6. Seen(turn)' <=> Seen(turn)
  BY <1>1, <1>4 DEF Seen
<1>7. SessionTypes'
  BY <1>1, <1>3, <1>4 DEF SessionTypes
<1>8. Places'
  <2>1. ASSUME NEW q \in Appenders, at'[q].stage # "idle" PROVE at'[q].seq \in DOMAIN log
    <3>1. CASE q = Task
      BY <3>1, <1>4 DEF TaskSeq
    <3>2. CASE q # Task
      BY <3>2, <2>1, TaskIn, <1>4 DEF Places
    <3> QED
      BY <3>1, <3>2
  <2> QED
    BY <2>1, <1>1, <1>3, <1>4, TaskIn DEF Places
<1>9. Projected'
  <2>1. OwnUpTo(log, TaskSeq) = OwnUpTo(log, Len(log))
    <3>1. \A i \in 1..Len(log) : OwnIn(log, i) => i <= TaskSeq
      BY <1>1, <1>2 DEF Places
    <3>2. \A i \in 1..TaskSeq : i \in 1..Len(log)
      BY <1>2, <1>4
    <3>3. \A i \in 1..Len(log) : i <= TaskSeq => i \in 1..TaskSeq
      BY <1>2, <1>4
    <3> QED
      BY <3>1, <3>2, <3>3 DEF OwnUpTo
  <2>2. Unapplied = {} /\ Unapplied' = {}
    BY <1>1, <1>4 DEF Unapplied
  <2>3. Holds(log, state.applied, OwnUpTo(log, Len(log)))
    BY <2>2 DEF Projected
  <2> QED
    BY <2>1, <2>2, <2>3, <1>1, <1>3, <1>4 DEF Projected
<1>10. Truthful'
  BY <1>1, <1>3 DEF Truthful
<1>11. Underway'
  BY <1>1, <1>3, <1>4, <1>6 DEF Underway
<1>12. PhaseTells' /\ Waiting' /\ Looking' /\ WaiterRight'
  BY <1>1, <1>5 DEF PhaseTells, Waiting, Looking, WaiterRight, BeganQueued
<1> QED
  BY <1>7, <1>8, <1>9, <1>10, <1>11, <1>12

\* The checkpoint that is persisted, if it is, is right under its number.
LEMMA PersistCheckpointKeeps == ASSUME SessionIInv, PersistCheckpoint PROVE SessionIInv'
<1> USE DEF SessionIInv
<1>1. /\ TaskStage = "built" /\ batch' = NoBatch /\ Stage(Task, "idle", 0)
      /\ checkpoint' \in {[seq |-> TaskSeq, state |-> batch.snapshot], checkpoint}
      /\ UNCHANGED <<log, state, turn, open, sent, waiter>>
  BY DEF PersistCheckpoint, TaskStage, TaskSeq
<1>2. log \in Seq(Events) /\ DOMAIN log = 1..Len(log) /\ Len(log) \in Nat
      /\ checkpoint \in [seq : Nat, state : Projections] /\ batch.snapshot \in Projections
  BY DEF SessionTypes
<1>3. NoState \in Projections /\ TellsEnds(log, NoState)
  BY <1>2, NothingRight
<1>4. /\ batch' \in [turn : Turns, left : Seq(Kinds), last : Nat, compacted : BOOLEAN,
                     snapshot : Projections]
      /\ batch'.left = <<>> /\ batch'.snapshot = NoState
  <2>1. <<>> \in Seq(Kinds) /\ 0 \in Turns
    BY SessionAssumption DEF Turns
  <2> QED
    BY <2>1, <1>1, <1>3 DEF NoBatch
<1>5. /\ at' \in [Appenders -> [stage : TaskStages, seq : Nat]]
      /\ \A q \in Others : at'[q] = at[q]
      /\ TaskStage' = "idle" /\ at'[Task].stage = "idle"
  BY <1>1, TaskIn, SessionAssumption, StageMoves DEF TaskStages
<1>6. TaskSeq \in Nat /\ TaskSeq <= Len(log)
  BY <1>1, <1>2, TaskSeqIn
<1>7. /\ checkpoint'.seq \in Nat /\ checkpoint'.seq <= Len(log) /\ checkpoint'.state \in Projections
      /\ checkpoint' \in [seq : Nat, state : Projections]
      /\ Holds(log, checkpoint'.state.applied, OwnUpTo(log, checkpoint'.seq))
      /\ TellsEnds(log, checkpoint'.state)
  <2>1. CASE checkpoint' = checkpoint
    BY <2>1, <1>2 DEF Projected, Truthful
  <2>2. CASE checkpoint' = [seq |-> TaskSeq, state |-> batch.snapshot]
    BY <2>2, <1>1, <1>2, <1>6 DEF Projected, Truthful
  <2> QED
    BY <2>1, <2>2, <1>1
<1>8. \A t : Seen(t)' <=> Seen(t)
  BY <1>1, <1>5 DEF Seen
<1>9. Seen(turn)' <=> Seen(turn)
  BY <1>1, <1>5 DEF Seen
<1>10. SessionTypes'
  BY <1>1, <1>4, <1>5, <1>7 DEF SessionTypes
<1>11. Places'
  <2>1. ASSUME NEW q \in Appenders, at'[q].stage # "idle" PROVE at'[q].seq \in DOMAIN log
    BY <2>1, TaskIn, <1>5 DEF Places
  <2> QED
    BY <2>1, <1>1, <1>5, TaskIn DEF Places
<1>12. Projected'
  <2>1. Unapplied = {} /\ Unapplied' = {}
    BY <1>1, <1>5 DEF Unapplied
  <2> QED
    BY <2>1, <1>1, <1>5, <1>7 DEF Projected
<1>13. Truthful'
  BY <1>1, <1>3, <1>4, <1>7 DEF Truthful
<1>14. Underway'
  <2>1. batch.left = <<>>
    BY <1>1 DEF Places
  <2> QED
    BY <2>1, <1>1, <1>4, <1>5, <1>9 DEF Underway
<1>15. PhaseTells' /\ Waiting' /\ Looking' /\ WaiterRight'
  BY <1>1, <1>8 DEF PhaseTells, Waiting, Looking, WaiterRight, BeganQueued
<1> QED
  BY <1>10, <1>11, <1>12, <1>13, <1>14, <1>15

\* A restart rebuilds the projections from checkpoint and log; nobody waits then.
LEMMA RestartKeeps == ASSUME SessionIInv, Restart PROVE SessionIInv'
<1> USE DEF SessionIInv
<1>1. /\ log # <<>> /\ state' = Recovered /\ batch' = NoBatch /\ open' = FALSE /\ sent' = <<>>
      /\ at' = [p \in Appenders |-> [stage |-> "idle", seq |-> 0]]
      /\ waiter' = [w \in Waiters |-> Off]
      /\ UNCHANGED <<log, turn, checkpoint>>
  BY DEF Restart
<1>2. log \in Seq(Events) /\ turn \in Turns /\ checkpoint \in [seq : Nat, state : Projections]
  BY DEF SessionTypes
<1>3. /\ Recovered \in Projections
      /\ Holds(log, Recovered.applied, OwnUpTo(log, Len(log)))
      /\ TellsEnds(log, Recovered)
  BY <1>1, <1>2, RecoveredRight DEF Projected, Truthful
<1>4. NoState \in Projections /\ TellsEnds(log, NoState)
  BY <1>2, NothingRight
<1>5. 0 \in Turns /\ <<>> \in Seq(Kinds) /\ <<>> \in Seq(Nat)
  BY SessionAssumption DEF Turns
<1>6. /\ batch' \in [turn : Turns, left : Seq(Kinds), last : Nat, compacted : BOOLEAN,
                     snapshot : Projections]
      /\ batch'.left = <<>> /\ batch'.snapshot = NoState
  BY <1>1, <1>4, <1>5 DEF NoBatch
<1>7. /\ at' \in [Appenders -> [stage : TaskStages, seq : Nat]]
      /\ \A q \in Appenders : at'[q].stage = "idle"
      /\ TaskStage' = "idle"
  BY <1>1, TaskIn DEF TaskStages, TaskStage
<1>8. DOMAIN sent' = {}
  BY <1>1
<1>9. \A t : ~Seen(t)'
  BY <1>7, <1>8 DEF Seen
<1>10. ~Seen(turn)'
  BY <1>7, <1>8 DEF Seen
<1>11. SessionTypes'
  <2>1. waiter' \in [Waiters -> WaiterRecords]
    BY <1>1, <1>5 DEF Off, WaiterRecords, WaiterStages, Outcomes, Phases
  <2>2. sent' \in Seq(Nat) /\ open' \in BOOLEAN /\ turn' \in Turns /\ log' \in Seq(Events)
        /\ checkpoint' \in [seq : Nat, state : Projections] /\ state' \in Projections
    BY <1>1, <1>2, <1>3, <1>5
  <2> QED
    BY <2>1, <2>2, <1>6, <1>7 DEF SessionTypes
<1>12. Places'
  BY <1>7, <1>8, TaskIn DEF Places
<1>13. Projected'
  <2>1. Unapplied' = {}
    BY <1>7 DEF Unapplied
  <2> QED
    BY <2>1, <1>1, <1>3, <1>7 DEF Projected
<1>14. Truthful'
  BY <1>1, <1>3, <1>4, <1>6 DEF Truthful
<1>15. Underway'
  BY <1>1, <1>6, <1>7, <1>10 DEF Underway
<1>16. PhaseTells'
  BY <1>9 DEF PhaseTells
<1>17. Waiting' /\ Looking' /\ WaiterRight'
  BY <1>1 DEF Waiting, Looking, WaiterRight, Off, Ends
<1> QED
  BY <1>11, <1>12, <1>13, <1>14, <1>15, <1>16, <1>17

-----------------------------------------------------------------------------
\* An end found among the events of a turn is in the log.
LEMMA FoundRight ==
  ASSUME log \in Seq(Events), NEW t \in Turns, NEW S \in SUBSET (DOMAIN log)
  PROVE  /\ Found(t, S) \in Outcomes
         /\ Found(t, S) \in Ends => \E i \in DOMAIN log : log[i] = [turn |-> t, kind |-> Found(t, S)]
<1> DEFINE over == {i \in EventsOf(t, S) : log[i].kind \in Ends}
<1>1. over \in SUBSET (1..Len(log)) /\ Len(log) \in Nat /\ \A i \in over : log[i] \in Events
  BY DEF EventsOf
<1>2. CASE over = {}
  BY <1>2 DEF Found, Outcomes, Ends
<1>3. CASE over # {}
  <2> DEFINE last == CHOOSE i \in EventsOf(t, S) :
                       /\ log[i].kind \in Ends
                       /\ \A j \in EventsOf(t, S) : log[j].kind \in Ends => j <= i
  <2>1. \E i \in over : \A j \in over : j <= i
    <3> HIDE DEF over
    <3> QED
      BY <1>1, <1>3, Greatest
  <2>2. last \in EventsOf(t, S) /\ log[last].kind \in Ends
    BY <2>1
  <2>3. Found(t, S) = log[last].kind
    BY <1>3 DEF Found
  <2>4. last \in over
    BY <2>2
  <2> HIDE DEF last
  <2>5. last \in DOMAIN log /\ log[last] \in Events /\ log[last].turn = t
    BY <2>2, <2>4, <1>1 DEF EventsOf
  <2>6. log[last] = [turn |-> t, kind |-> log[last].kind]
    BY <2>5 DEF Events
  <2> QED
    BY <2>2, <2>3, <2>5, <2>6 DEF Outcomes
<1> QED
  BY <1>2, <1>3

\* A verdict on a turn is what the log says, if a turn found "interrupted" has ended.
LEMMA VerdictRight ==
  ASSUME SessionTypes, Truthful, NEW t \in Turns, t > 0, NEW found \in Outcomes, NEW phase,
         found \in Ends => \E i \in DOMAIN log : log[i] = [turn |-> t, kind |-> found],
         phase = "interrupted" /\ ~BeganQueued(t) => state.ends[t] \in Ends
  PROVE  /\ Verdict(t, found, phase) \in {"none"} \cup Ends
         /\ Verdict(t, found, phase) # "none" /\ ~BeganQueued(t) =>
               \E i \in DOMAIN log : log[i] = [turn |-> t, kind |-> Verdict(t, found, phase)]
<1> DEFINE end == IF state.ends[t] # "absent" THEN state.ends[t] ELSE found
<1>1. Verdict(t, found, phase) = IF end \in Ends THEN end
                                 ELSE IF found # "absent" /\ phase = "interrupted" THEN "cancelled" ELSE "none"
  BY DEF Verdict
<1>2. end \in Ends => \E i \in DOMAIN log : log[i] = [turn |-> t, kind |-> end]
  BY DEF Truthful, TellsEnds
<1>3. ~BeganQueued(t) /\ end \notin Ends => phase # "interrupted"
  BY DEF Ends
<1> HIDE DEF end
<1> QED
  BY <1>1, <1>2, <1>3 DEF Ends

\* A waiter's step changes nothing but what that waiter knows.
LEMMA WaiterMoves ==
  ASSUME SessionIInv, NEW w \in Waiters, NEW r \in WaiterRecords, waiter' = [waiter EXCEPT ![w] = r],
         UNCHANGED <<log, state, at, batch, turn, open, checkpoint, sent>>,
         r.stage # "off" => r.turn > 0,
         r.stage \notin {"off", "over"} => \E k \in DOMAIN sent : log[sent[k]].turn = r.turn,
         r.found \in Ends => \E i \in DOMAIN log : log[i] = [turn |-> r.turn, kind |-> r.found],
         r.stage \in {"phase", "projection"} => r.then \in {"replaying", "receiving"},
         r.stage = "projection" /\ r.phase = "interrupted" /\ ~BeganQueued(r.turn) =>
            state.ends[r.turn] \in Ends,
         r.stage = "over" /\ ~BeganQueued(r.turn) =>
            \E i \in DOMAIN log : log[i] = [turn |-> r.turn, kind |-> r.verdict]
  PROVE  SessionIInv'
<1> USE DEF SessionIInv
<1>1. waiter \in [Waiters -> WaiterRecords]
  BY DEF SessionTypes
<1>2. waiter' \in [Waiters -> WaiterRecords] /\ \A v \in Waiters : waiter'[v] = IF v = w THEN r ELSE waiter[v]
  BY <1>1
<1>3. SessionTypes'
  BY <1>2 DEF SessionTypes
<1>4. Waiting'
  BY <1>2 DEF Waiting
<1>5. WaiterRight'
  BY <1>2 DEF WaiterRight, BeganQueued
<1>6. TaskStage' = TaskStage /\ TaskSeq' = TaskSeq
  BY DEF TaskStage, TaskSeq
<1>7. Places' /\ Projected' /\ Truthful'
  BY <1>6 DEF Places, Projected, Truthful, Unapplied
<1>8. \A t : Seen(t)' <=> Seen(t)
  BY <1>6 DEF Seen
<1>9. Seen(turn)' <=> Seen(turn)
  BY <1>6 DEF Seen
<1>10. Underway' /\ PhaseTells'
  BY <1>6, <1>8, <1>9 DEF Underway, PhaseTells, BeganQueued
<1>11. Looking'
  BY <1>2 DEF Looking, BeganQueued
<1> QED
  BY <1>3, <1>4, <1>5, <1>7, <1>10, <1>11

\* What is true of a waiter at work.
LEMMA AtWork ==
  ASSUME SessionIInv, NEW w \in Waiters, waiter[w].stage \notin {"off", "over"}
  PROVE  /\ waiter \in [Waiters -> WaiterRecords] /\ waiter[w] \in WaiterRecords
         /\ waiter[w].turn \in Turns /\ waiter[w].turn > 0 /\ waiter[w].next \in Nat
         /\ \E k \in DOMAIN sent : log[sent[k]].turn = waiter[w].turn
         /\ waiter[w].found \in Ends =>
               \E i \in DOMAIN log : log[i] = [turn |-> waiter[w].turn, kind |-> waiter[w].found]
  BY DEF SessionIInv, SessionTypes, Waiting, WaiterRecords

\* A waiter subscribes after a record of its turn has been sent.
LEMMA SubscribeKeeps ==
  ASSUME SessionIInv, NEW w \in Waiters, NEW t \in 1..turn, Subscribe(w, t)
  PROVE  SessionIInv'
<1> DEFINE n == Len(sent) + 1
           r == [Off EXCEPT !.stage = "checking", !.turn = t, !.next = n]
<1>1. /\ waiter' = [waiter EXCEPT ![w] = r] /\ EventsOf(t, ToSet(sent)) # {}
      /\ UNCHANGED <<log, state, at, batch, turn, open, checkpoint, sent>>
  BY DEF Subscribe
<1>2. t \in Turns /\ t > 0 /\ n \in Nat
  BY SessionAssumption DEF SessionIInv, SessionTypes, Turns
<1> HIDE DEF n
<1>3. r = [stage |-> "checking", turn |-> t, next |-> n, verdict |-> "none",
           found |-> "absent", phase |-> "idle", then |-> "off"]
  <2> DEFINE r1 == [Off EXCEPT !.stage = "checking"]
             r2 == [r1 EXCEPT !.turn = t]
  <2>1. r1 = [stage |-> "checking", turn |-> 0, next |-> 1, verdict |-> "none",
              found |-> "absent", phase |-> "idle", then |-> "off"]
    BY DEF Off
  <2> HIDE DEF r1
  <2>2. r2 = [stage |-> "checking", turn |-> t, next |-> 1, verdict |-> "none",
              found |-> "absent", phase |-> "idle", then |-> "off"]
    BY <2>1
  <2>3. r = [r2 EXCEPT !.next = n]
    BY DEF r1
  <2> HIDE DEF r, r2
  <2> QED
    BY <2>2, <2>3
<1> HIDE DEF r
<1>4. r \in WaiterRecords /\ r.stage = "checking" /\ r.turn = t /\ r.found = "absent"
  BY <1>2, <1>3 DEF WaiterRecords, WaiterStages, Outcomes, Phases
<1>5. \E k \in DOMAIN sent : log[sent[k]].turn = t
  BY <1>1 DEF EventsOf, ToSet
<1> QED
  BY <1>1, <1>2, <1>4, <1>5, WaiterMoves DEF Ends

\* The events a look begins with are in the log.
LEMMA LookKeeps ==
  ASSUME SessionIInv, NEW w \in Waiters, waiter[w].stage \notin {"off", "over"},
         NEW S \in SUBSET (DOMAIN log), NEW n \in Nat, NEW then \in {"replaying", "receiving"},
         waiter' = [waiter EXCEPT ![w].stage = "phase", ![w].next = n,
                                  ![w].found = Found(waiter[w].turn, S), ![w].then = then],
         UNCHANGED <<log, state, at, batch, turn, open, checkpoint, sent>>
  PROVE  SessionIInv'
<1> DEFINE found == Found(waiter[w].turn, S)
           r == [waiter[w] EXCEPT !.stage = "phase", !.next = n, !.found = found, !.then = then]
<1>1. /\ waiter \in [Waiters -> WaiterRecords] /\ waiter[w] \in WaiterRecords
      /\ waiter[w].turn \in Turns /\ waiter[w].turn > 0
      /\ \E k \in DOMAIN sent : log[sent[k]].turn = waiter[w].turn
  BY AtWork
<1>2. /\ found \in Outcomes
      /\ found \in Ends => \E i \in DOMAIN log : log[i] = [turn |-> waiter[w].turn, kind |-> found]
  <2>1. log \in Seq(Events)
    BY DEF SessionIInv, SessionTypes
  <2> QED
    BY <2>1, <1>1, FoundRight
<1> HIDE DEF found
<1>3. waiter' = [waiter EXCEPT ![w] = r]
  BY <1>1 DEF found
<1>4. /\ r \in WaiterRecords /\ r.stage = "phase" /\ r.turn = waiter[w].turn
      /\ r.found = found /\ r.then = then
  BY <1>1, <1>2 DEF WaiterRecords, WaiterStages
<1> HIDE DEF r
<1>5. /\ r.stage # "off" => r.turn > 0
      /\ r.stage \notin {"off", "over"} => \E k \in DOMAIN sent : log[sent[k]].turn = r.turn
      /\ r.stage \in {"phase", "projection"} => r.then \in {"replaying", "receiving"}
      /\ r.stage # "projection" /\ r.stage # "over"
  BY <1>1, <1>4
<1>6. r.found \in Ends => \E i \in DOMAIN log : log[i] = [turn |-> r.turn, kind |-> r.found]
  BY <1>2, <1>4
<1> QED
  BY <1>3, <1>4, <1>5, <1>6, WaiterMoves

\* It looks at the recent events, or at what it replays.
LEMMA LooksKeep ==
  ASSUME SessionIInv, NEW w \in Waiters, ReadRecent(w) \/ Replay(w)
  PROVE  SessionIInv'
<1>1. /\ waiter[w].stage \notin {"off", "over"}
      /\ UNCHANGED <<log, state, at, batch, turn, open, checkpoint, sent>>
  BY DEF ReadRecent, Replay
<1>2. waiter \in [Waiters -> WaiterRecords] /\ waiter[w] \in WaiterRecords /\ waiter[w].next \in Nat
  BY <1>1, AtWork
<1>3. state.recent \in SUBSET (DOMAIN log)
  BY DEF SessionIInv, Truthful, TellsEnds
<1>4. CASE ReadRecent(w)
  <2>1. waiter' = [waiter EXCEPT ![w].stage = "phase", ![w].next = waiter[w].next,
                                 ![w].found = Found(waiter[w].turn, state.recent), ![w].then = "replaying"]
    BY <1>2, <1>4 DEF ReadRecent, Look, WaiterRecords
  <2> QED
    BY <1>1, <1>2, <1>3, <2>1, LookKeeps
<1>5. CASE Replay(w)
  <2>1. waiter' = [waiter EXCEPT ![w].stage = "phase", ![w].next = waiter[w].next,
                                 ![w].found = Found(waiter[w].turn, DOMAIN log), ![w].then = "receiving"]
    BY <1>2, <1>5 DEF Replay, Look, WaiterRecords
  <2> QED
    BY <1>1, <1>2, <2>1, LookKeeps
<1> QED
  BY <1>4, <1>5

\* It looks at each record of its turn, or begins again when it lags.
LEMMA ReceiveKeeps ==
  ASSUME SessionIInv, NEW w \in Waiters, Receive(w)
  PROVE  SessionIInv'
<1> DEFINE t == waiter[w].turn
<1>1. waiter[w].stage = "receiving" /\ UNCHANGED <<log, state, at, batch, turn, open, checkpoint, sent>>
  BY DEF Receive
<1>2. /\ waiter \in [Waiters -> WaiterRecords] /\ waiter[w] \in WaiterRecords
      /\ t \in Turns /\ t > 0 /\ waiter[w].next \in Nat
      /\ \E k \in DOMAIN sent : log[sent[k]].turn = t
      /\ waiter[w].found \in Ends => \E i \in DOMAIN log : log[i] = [turn |-> t, kind |-> waiter[w].found]
  BY <1>1, AtWork
<1>3. CASE Lags(w)
  <2> DEFINE r == [waiter[w] EXCEPT !.stage = "checking", !.next = Len(sent) - Capacity + 1]
  <2>1. waiter' = [waiter EXCEPT ![w] = r]
    BY <1>2, <1>3 DEF Receive
  <2>2. Len(sent) - Capacity + 1 \in Nat
    <3>1. Len(sent) \in Nat
      BY DEF SessionIInv, SessionTypes
    <3> QED
      BY <3>1, <1>2, <1>3, SessionAssumption DEF Lags
  <2>3. r \in WaiterRecords /\ r.turn = t /\ r.stage = "checking" /\ r.found = waiter[w].found
    BY <1>2, <2>2 DEF WaiterRecords, WaiterStages
  <2> HIDE DEF r
  <2> QED
    BY <1>1, <1>2, <2>1, <2>3, WaiterMoves
<1>4. CASE ~Lags(w) /\ log[sent[waiter[w].next]].turn = t
  <2> DEFINE n == waiter[w].next + 1
  <2>1. state.recent \in SUBSET (DOMAIN log) /\ n \in Nat
    BY <1>2 DEF SessionIInv, Truthful, TellsEnds
  <2>2. waiter' = [waiter EXCEPT ![w].stage = "phase", ![w].next = n,
                                 ![w].found = Found(t, state.recent), ![w].then = "receiving"]
    BY <1>2, <1>4 DEF Receive, WaiterRecords
  <2> HIDE DEF n
  <2> QED
    BY <1>1, <2>1, <2>2, LookKeeps
<1>5. CASE ~Lags(w) /\ log[sent[waiter[w].next]].turn # t
  <2> DEFINE r == [waiter[w] EXCEPT !.next = @ + 1]
  <2>1. waiter' = [waiter EXCEPT ![w] = r]
    BY <1>2, <1>5 DEF Receive
  <2>2. r \in WaiterRecords /\ r.turn = t /\ r.stage = "receiving" /\ r.found = waiter[w].found
    BY <1>1, <1>2 DEF WaiterRecords
  <2> HIDE DEF r
  <2> QED
    BY <1>1, <1>2, <2>1, <2>2, WaiterMoves
<1> QED
  BY <1>3, <1>4, <1>5

\* A session that is "interrupted" has no running turn this process has seen.
LEMMA ReadPhaseKeeps ==
  ASSUME SessionIInv, NEW w \in Waiters, ReadPhase(w)
  PROVE  SessionIInv'
<1> DEFINE t == waiter[w].turn
           r == [waiter[w] EXCEPT !.stage = "projection", !.phase = state.phase]
<1>1. /\ waiter[w].stage = "phase"
      /\ waiter' = [waiter EXCEPT ![w].stage = "projection", ![w].phase = state.phase]
      /\ UNCHANGED <<log, state, at, batch, turn, open, checkpoint, sent>>
  BY DEF ReadPhase
<1>2. /\ waiter \in [Waiters -> WaiterRecords] /\ waiter[w] \in WaiterRecords
      /\ t \in Turns /\ t > 0
      /\ \E k \in DOMAIN sent : log[sent[k]].turn = t
      /\ waiter[w].found \in Ends => \E i \in DOMAIN log : log[i] = [turn |-> t, kind |-> waiter[w].found]
  BY <1>1, AtWork
<1>3. waiter' = [waiter EXCEPT ![w] = r]
  BY <1>1, <1>2
<1>4. state.phase \in Phases
  BY DEF SessionIInv, SessionTypes, Projections
<1>5. /\ r \in WaiterRecords /\ r.turn = t /\ r.stage = "projection" /\ r.found = waiter[w].found
      /\ r.phase = state.phase /\ r.then = waiter[w].then
  BY <1>2, <1>4 DEF WaiterRecords, WaiterStages
<1>6. state.phase = "interrupted" /\ ~BeganQueued(t) => state.ends[t] \in Ends
  <2>1. Seen(t)
    BY <1>2 DEF Seen
  <2> QED
    BY <2>1, <1>2 DEF SessionIInv, PhaseTells, Running
<1>7. waiter[w].then \in {"replaying", "receiving"}
  BY <1>1 DEF SessionIInv, Looking
<1> HIDE DEF r
<1>8. /\ r.stage # "off" => r.turn > 0
      /\ r.stage \notin {"off", "over"} => \E k \in DOMAIN sent : log[sent[k]].turn = r.turn
      /\ r.stage \in {"phase", "projection"} => r.then \in {"replaying", "receiving"}
      /\ r.stage # "over"
  BY <1>2, <1>5, <1>7
<1>9. r.found \in Ends => \E i \in DOMAIN log : log[i] = [turn |-> r.turn, kind |-> r.found]
  BY <1>2, <1>5
<1>10. r.stage = "projection" /\ r.phase = "interrupted" /\ ~BeganQueued(r.turn) =>
          state.ends[r.turn] \in Ends
  BY <1>5, <1>6
<1> QED
  BY <1>1, <1>3, <1>5, <1>8, <1>9, <1>10, WaiterMoves

\* A look ends; when the turn has ended, the waiter tells how.
LEMMA ReadProjectionKeeps ==
  ASSUME SessionIInv, NEW w \in Waiters, ReadProjection(w)
  PROVE  SessionIInv'
<1> DEFINE t == waiter[w].turn
           verdict == Verdict(t, waiter[w].found, waiter[w].phase)
           n == IF verdict = "none" THEN waiter[w].next ELSE 1
           place == IF verdict = "none" THEN waiter[w].then ELSE "over"
           r == [Off EXCEPT !.turn = t, !.verdict = verdict, !.next = n, !.stage = place]
<1>1. /\ waiter[w].stage = "projection" /\ waiter' = [waiter EXCEPT ![w] = r]
      /\ UNCHANGED <<log, state, at, batch, turn, open, checkpoint, sent>>
  BY DEF ReadProjection
<1>2. /\ waiter[w] \in WaiterRecords /\ t \in Turns /\ t > 0 /\ waiter[w].next \in Nat
      /\ \E k \in DOMAIN sent : log[sent[k]].turn = t
      /\ waiter[w].found \in Ends => \E i \in DOMAIN log : log[i] = [turn |-> t, kind |-> waiter[w].found]
  BY <1>1, AtWork
<1>3. /\ waiter[w].then \in {"replaying", "receiving"}
      /\ waiter[w].phase = "interrupted" /\ ~BeganQueued(t) => state.ends[t] \in Ends
  BY <1>1 DEF SessionIInv, Looking
<1>4. /\ verdict \in {"none"} \cup Ends
      /\ verdict # "none" /\ ~BeganQueued(t) => \E i \in DOMAIN log : log[i] = [turn |-> t, kind |-> verdict]
  <2> DEFINE found == waiter[w].found
             phase == waiter[w].phase
  <2>1. SessionTypes /\ Truthful /\ found \in Outcomes
    BY <1>2 DEF SessionIInv, WaiterRecords
  <2>2. found \in Ends => \E i \in DOMAIN log : log[i] = [turn |-> t, kind |-> found]
    BY <1>2
  <2>3. phase = "interrupted" /\ ~BeganQueued(t) => state.ends[t] \in Ends
    BY <1>3
  <2> HIDE DEF t, found, phase
  <2> QED
    BY <2>1, <2>2, <2>3, <1>2, VerdictRight DEF t, found, phase
<1> HIDE DEF verdict, t
<1>5. n \in Nat /\ place \in WaiterStages /\ place \in {"replaying", "receiving", "over"}
      /\ (place = "over" => verdict # "none")
  BY <1>2, <1>3 DEF WaiterStages
<1> HIDE DEF n, place
<1>6. r = [stage |-> place, turn |-> t, next |-> n, verdict |-> verdict,
           found |-> "absent", phase |-> "idle", then |-> "off"]
  <2> DEFINE r1 == [Off EXCEPT !.turn = t]
             r2 == [r1 EXCEPT !.verdict = verdict]
             r3 == [r2 EXCEPT !.next = n]
  <2>1. r1 = [stage |-> "off", turn |-> t, next |-> 1, verdict |-> "none",
              found |-> "absent", phase |-> "idle", then |-> "off"]
    BY DEF Off
  <2> HIDE DEF r1
  <2>2. r2 = [stage |-> "off", turn |-> t, next |-> 1, verdict |-> verdict,
              found |-> "absent", phase |-> "idle", then |-> "off"]
    BY <2>1
  <2>3. r = [r3 EXCEPT !.stage = place]
    BY DEF r1
  <2> HIDE DEF r, r2
  <2>4. r3 = [stage |-> "off", turn |-> t, next |-> n, verdict |-> verdict,
              found |-> "absent", phase |-> "idle", then |-> "off"]
    BY <2>2
  <2> HIDE DEF r3
  <2> QED
    BY <2>3, <2>4
<1> HIDE DEF r
<1>7. /\ r \in WaiterRecords /\ r.stage = place /\ r.turn = t /\ r.verdict = verdict
      /\ r.found = "absent"
  BY <1>2, <1>4, <1>5, <1>6 DEF WaiterRecords, WaiterStages, Outcomes, Phases
<1> QED
  BY <1>1, <1>2, <1>4, <1>5, <1>7, WaiterMoves DEF t, Ends

\* Steps of nobody keep the invariant.
LEMMA SessionStays == ASSUME SessionIInv, UNCHANGED vars PROVE SessionIInv'
<1>1. UNCHANGED <<log, state, at, batch, turn, open, checkpoint, sent, waiter>>
  BY DEF vars
<1>2. TaskStage' = TaskStage /\ TaskSeq' = TaskSeq /\ Unapplied' = Unapplied
  BY <1>1 DEF TaskStage, TaskSeq, Unapplied
<1>3. SessionTypes' /\ Places' /\ Projected' /\ Truthful'
  BY <1>1, <1>2 DEF SessionIInv, SessionTypes, Places, Projected, Truthful
<1>4. \A t : Seen(t)' <=> Seen(t)
  BY <1>1, <1>2 DEF Seen
<1>5. Seen(turn)' <=> Seen(turn)
  BY <1>1, <1>2 DEF Seen
<1>6. Underway' /\ PhaseTells' /\ Waiting' /\ Looking' /\ WaiterRight'
  BY <1>1, <1>2, <1>4, <1>5
  DEF SessionIInv, Underway, PhaseTells, Waiting, Looking, WaiterRight, BeganQueued
<1> QED
  BY <1>3, <1>6 DEF SessionIInv

\* The inductive invariant of a loaded session, for any numbers of appenders,
\* waiters, turns, events and restarts, and any batches.
THEOREM SessionIsSound == Spec => []SessionIInv
<1>1. ASSUME SessionIInv, [Next]_vars PROVE SessionIInv'
  <2> USE <1>1
  <2>1. ASSUME NEW o \in Prompts, StartTurn(o) PROVE SessionIInv'
    BY <2>1, StartTurnKeeps
  <2>2. ASSUME NEW b \in Batches, ContinueTurn(b) PROVE SessionIInv'
    BY <2>2, ContinueTurnKeeps
  <2>3. ASSUME NEW e \in Ends, EndTurn(e) PROVE SessionIInv'
    BY <2>3, EndTurnKeeps
  <2>4. CASE CompactBetween
    BY <2>4, CompactBetweenKeeps
  <2>5. CASE StoreNext
    BY <2>5, StoreNextKeeps
  <2>6. ASSUME NEW p \in Appenders, StoreNote(p) \/ ApplyStored(p) \/ Send(p) PROVE SessionIInv'
    BY <2>6, StoreNoteKeeps, ApplyStoredKeeps, SendKeeps
  <2>7. CASE BuildCheckpoint \/ PersistCheckpoint \/ Restart
    BY <2>7, BuildCheckpointKeeps, PersistCheckpointKeeps, RestartKeeps
  <2>8. ASSUME NEW w \in Waiters, NEW t \in 1..turn, Subscribe(w, t) PROVE SessionIInv'
    BY <2>8, SubscribeKeeps
  <2>9. ASSUME NEW w \in Waiters, Waits(w)
        PROVE  SessionIInv'
    BY <2>9, LooksKeep, ReceiveKeeps, ReadPhaseKeeps, ReadProjectionKeeps DEF Waits
  <2>10. CASE UNCHANGED vars
    BY <2>10, SessionStays
  <2> QED
    BY <2>1, <2>2, <2>3, <2>4, <2>5, <2>6, <2>7, <2>8, <2>9, <2>10 DEF Next
<1> QED
  BY <1>1, InitSessionIInv, PTL DEF Spec

\* Whatever events, restarts and lags come between, a waiter that returns tells
\* an end that the log holds, but of turns that a queued input began.
THEOREM WaiterRightHolds == Spec => []WaiterRight
<1>1. SessionIInv => WaiterRight
  BY DEF SessionIInv
<1> QED
  BY <1>1, SessionIsSound, PTL

\* Whenever the process ends, the checkpoint and the events after it give the
\* task's own events, each once and in order.
THEOREM OwnRecoveredHolds == Spec => []OwnRecovered
<1>1. ASSUME SessionIInv PROVE OwnRecovered
  <2>1. log \in Seq(Events) /\ checkpoint \in [seq : Nat, state : Projections]
    BY <1>1 DEF SessionIInv, SessionTypes
  <2>2. Holds(log, Recovered.applied, OwnUpTo(log, Len(log)))
    BY <1>1, <2>1, RecoveredRight DEF SessionIInv, Projected, Truthful
  <2>3. DOMAIN log = 1..Len(log)
    BY <2>1
  <2> QED
    BY <2>2, <2>3 DEF OwnRecovered, Holds, OwnPlaces, OwnUpTo, OwnIn, Own
<1> QED
  BY <1>1, SessionIsSound, PTL

-----------------------------------------------------------------------------
StreamTypes ==
    /\ records \in Seq({"block", "delta"})
    /\ base \in Nat /\ cursor \in Nat /\ next \in Nat \ {0} /\ mark \in Nat /\ replayed \in Nat
    /\ base <= Len(records) /\ cursor <= Len(records) /\ replayed <= Len(records)
    /\ mark <= Len(broadcasts)
    /\ storing \in [Writers -> Nat] /\ \A p \in Writers : storing[p] <= Len(records)
    /\ broadcasts \in Seq(Nat) /\ \A k \in 1..Len(broadcasts) : broadcasts[k] \in 1..Len(records)
    /\ shown \in Seq(Nat) /\ history \in Seq(Nat)
    /\ blocks \subseteq Nat

\* A record is broadcast once, by the writer that stored it.
Once ==
    /\ \A j, k \in 1..Len(broadcasts) : broadcasts[j] = broadcasts[k] => j = k
    /\ \A p \in Writers : \A k \in 1..Len(broadcasts) : broadcasts[k] # storing[p]
    /\ \A p, q \in Writers : storing[p] = storing[q] /\ storing[p] # 0 => p = q

\* The cursor names the last record shown.
AtCursor ==
    /\ shown = <<>> => cursor = 0
    /\ shown # <<>> => cursor = shown[Len(shown)]

\* What has been replayed is after the cursor, in order; and the cursor is among
\* what was replayed, or a broadcast that the receiver has got.
Ahead ==
    stage \in {"replayed", "open"} =>
        /\ \A k \in 1..Len(history) : cursor < history[k] /\ history[k] <= replayed
        /\ \A j, k \in 1..Len(history) : j < k => history[j] < history[k]
        /\ \A k \in 1..mark : broadcasts[k] <= replayed
        /\ stage = "replayed" => cursor <= replayed
        /\ stage = "open" =>
              /\ mark < next /\ next <= Len(broadcasts) + 1
              /\ cursor <= replayed \/ \E k \in (mark + 1)..(next - 1) : broadcasts[k] = cursor

Explained == ToSet(shown) \cup missed \cup Overtaken

\* Nothing in the file before the cursor, in the replay or before the receiver is
\* unaccounted for; and nothing that the projector would pass over.
Accounted ==
    /\ \A i \in (base + 1)..cursor : i \in Explained
    /\ \A i \in blocks : i > base => i \in Explained
    /\ stage \in {"replayed", "open"} =>
          \A i \in (base + 1)..replayed : i \in Explained \cup ToSet(history)
    /\ stage = "open" =>
          \A j \in (mark + 1)..(next - 1) :
              broadcasts[j] > base => broadcasts[j] \in Explained \cup ToSet(history)

StreamIInv == StreamTypes /\ Once /\ AtCursor /\ Ahead /\ Accounted

\* A sequence with one element more ...
LEMMA OneMore ==
  ASSUME NEW s \in Seq(Nat), NEW i \in Nat
  PROVE  /\ Append(s, i) \in Seq(Nat) /\ Append(s, i) # <<>>
         /\ Len(Append(s, i)) = Len(s) + 1
         /\ \A k \in 1..Len(s) : Append(s, i)[k] = s[k]
         /\ Append(s, i)[Len(s) + 1] = i
         /\ ToSet(Append(s, i)) = ToSet(s) \cup {i}
<1>1. /\ Append(s, i) \in Seq(Nat) /\ Append(s, i) # <<>>
      /\ Len(Append(s, i)) = Len(s) + 1
      /\ \A k \in 1..Len(s) : Append(s, i)[k] = s[k]
      /\ Append(s, i)[Len(s) + 1] = i
  <2>1. Append(s, i) \in Seq(Nat) /\ Len(Append(s, i)) = Len(s) + 1 /\ Len(s) \in Nat
    OBVIOUS
  <2>2. (\A k \in 1..Len(s) : Append(s, i)[k] = s[k]) /\ Append(s, i)[Len(s) + 1] = i
    OBVIOUS
  <2>3. Append(s, i) # <<>>
    BY <2>1
  <2> QED
    BY <2>1, <2>2, <2>3
<1>2. DOMAIN s = 1..Len(s) /\ DOMAIN Append(s, i) = 1..(Len(s) + 1) /\ Len(s) \in Nat
  OBVIOUS
<1>3. ToSet(Append(s, i)) = ToSet(s) \cup {i}
  BY <1>1, <1>2 DEF ToSet
<1> QED
  BY <1>1, <1>3

\* ... and with one less.
LEMMA Rest ==
  ASSUME NEW s \in Seq(Nat), s # <<>>
  PROVE  /\ Tail(s) \in Seq(Nat) /\ Len(Tail(s)) = Len(s) - 1 /\ Len(s) \in Nat \ {0}
         /\ Head(s) = s[1] /\ s[1] \in Nat
         /\ \A k \in 1..(Len(s) - 1) : Tail(s)[k] = s[k + 1]
         /\ ToSet(s) = {s[1]} \cup ToSet(Tail(s))
<1>1. /\ Tail(s) \in Seq(Nat) /\ Len(Tail(s)) = Len(s) - 1 /\ Len(s) \in Nat \ {0}
      /\ Head(s) = s[1] /\ s[1] \in Nat
      /\ \A k \in 1..(Len(s) - 1) : Tail(s)[k] = s[k + 1]
  OBVIOUS
<1>2. DOMAIN s = 1..Len(s) /\ DOMAIN Tail(s) = 1..(Len(s) - 1)
  BY <1>1
<1>3. ASSUME NEW x \in ToSet(s) PROVE x = s[1] \/ x \in ToSet(Tail(s))
  <2>1. PICK k \in 1..Len(s) : x = s[k]
    BY <1>2 DEF ToSet
  <2>2. CASE k = 1
    BY <2>1, <2>2
  <2>3. CASE k # 1
    <3>1. k - 1 \in 1..(Len(s) - 1) /\ Tail(s)[k - 1] = s[k]
      BY <1>1, <2>3
    <3> QED
      BY <3>1, <2>1, <1>2 DEF ToSet
  <2> QED
    BY <2>2, <2>3
<1>4. ASSUME NEW x \in ToSet(Tail(s)) PROVE x \in ToSet(s)
  <2>1. PICK k \in 1..(Len(s) - 1) : x = Tail(s)[k]
    BY <1>2 DEF ToSet
  <2>2. k + 1 \in 1..Len(s) /\ x = s[k + 1]
    BY <2>1, <1>1
  <2> QED
    BY <2>2, <1>2 DEF ToSet
<1>5. s[1] \in ToSet(s)
  BY <1>1, <1>2 DEF ToSet
<1> QED
  BY <1>1, <1>3, <1>4, <1>5

\* The records after the first n.
LEMMA AfterIs ==
  ASSUME records \in Seq({"block", "delta"}), NEW n \in Nat, n <= Len(records)
  PROVE  /\ RecordsAfter(n) \in Seq(Nat) /\ Len(RecordsAfter(n)) = Len(records) - n
         /\ \A k \in 1..(Len(records) - n) : RecordsAfter(n)[k] = n + k
         /\ ToSet(RecordsAfter(n)) = (n + 1)..Len(records)
         /\ Len(records) \in Nat
<1>1. Len(records) \in Nat
  OBVIOUS
<1>2. Len(records) - n \in Nat
  BY <1>1
<1>3. \A k \in 1..(Len(records) - n) : n + k \in Nat
  BY <1>1
<1>4. RecordsAfter(n) \in [1..(Len(records) - n) -> Nat]
  BY <1>3 DEF RecordsAfter
<1>5. /\ RecordsAfter(n) \in Seq(Nat) /\ Len(RecordsAfter(n)) = Len(records) - n
      /\ DOMAIN RecordsAfter(n) = 1..(Len(records) - n)
  BY <1>2, <1>4
<1>6. \A k \in 1..(Len(records) - n) : RecordsAfter(n)[k] = n + k
  BY DEF RecordsAfter
<1>7. ASSUME NEW x \in (n + 1)..Len(records) PROVE x \in ToSet(RecordsAfter(n))
  <2>1. x - n \in 1..(Len(records) - n) /\ n + (x - n) = x
    BY <1>1
  <2> QED
    BY <2>1, <1>5, <1>6 DEF ToSet
<1>8. ASSUME NEW x \in ToSet(RecordsAfter(n)) PROVE x \in (n + 1)..Len(records)
  <2>1. PICK k \in 1..(Len(records) - n) : x = n + k
    BY <1>5, <1>6 DEF ToSet
  <2> QED
    BY <2>1, <1>1
<1> QED
  BY <1>1, <1>5, <1>6, <1>7, <1>8

\* What has been overtaken stays so.
LEMMA OvertakenGrows ==
  ASSUME StreamTypes, Len(records) \in Nat, Len(records') \in Nat, Len(records) <= Len(records'),
         Len(broadcasts) \in Nat, Len(broadcasts') \in Nat, Len(broadcasts) <= Len(broadcasts'),
         DOMAIN broadcasts = 1..Len(broadcasts), DOMAIN broadcasts' = 1..Len(broadcasts'),
         \A k \in 1..Len(broadcasts) : broadcasts'[k] = broadcasts[k]
  PROVE  Overtaken \subseteq Overtaken'
<1> SUFFICES ASSUME NEW i \in Overtaken PROVE i \in Overtaken'
  OBVIOUS
<1>1. PICK k \in 1..Len(broadcasts) : i < broadcasts[k] /\ \A j \in 1..(k - 1) : broadcasts[j] # i
  BY DEF Overtaken
<1>2. k \in 1..Len(broadcasts') /\ i < broadcasts'[k]
  BY <1>1
<1>3. \A j \in 1..(k - 1) : broadcasts'[j] # i
  BY <1>1
<1>4. i \in 1..Len(records')
  BY DEF Overtaken
<1> QED
  BY <1>2, <1>3, <1>4 DEF Overtaken

\* Overtaken speaks of records and broadcasts only.
LEMMA OvertakenStays ==
  ASSUME UNCHANGED <<records, broadcasts>>
  PROVE  Overtaken' = Overtaken
BY DEF Overtaken

\* Facts about numbers that every step needs.
LEMMA StreamNumbers ==
  ASSUME StreamTypes
  PROVE  /\ base \in Nat /\ cursor \in Nat /\ next \in Nat \ {0} /\ mark \in Nat /\ replayed \in Nat
         /\ Len(records) \in Nat /\ Len(broadcasts) \in Nat /\ Len(shown) \in Nat /\ Len(history) \in Nat
         /\ DOMAIN broadcasts = 1..Len(broadcasts) /\ DOMAIN history = 1..Len(history)
         /\ DOMAIN shown = 1..Len(shown)
         /\ \A k \in 1..Len(broadcasts) : broadcasts[k] \in Nat /\ broadcasts[k] # 0 /\ broadcasts[k] <= Len(records)
         /\ \A k \in 1..Len(history) : history[k] \in Nat
BY DEF StreamTypes

\* The invariant holds before the client has hydrated.
LEMMA StreamInitIInv ==
  ASSUME StreamInit
  PROVE  StreamIInv
<1> USE DEF StreamInit
<1>1. Len(records) = 0 /\ Len(broadcasts) = 0 /\ Len(shown) = 0 /\ Len(history) = 0
  OBVIOUS
<1>2. StreamTypes
  BY <1>1 DEF StreamTypes
<1>3. Once /\ AtCursor /\ Ahead
  BY <1>1 DEF Once, AtCursor, Ahead
<1>4. Accounted
  BY <1>1 DEF Accounted
<1> QED
  BY <1>2, <1>3, <1>4 DEF StreamIInv

\* The records of the file between its base and a place only become fewer.
LEMMA RangeShrinks ==
  ASSUME NEW a \in Nat, NEW b \in Nat, NEW c \in Nat, a <= b
  PROVE  (b + 1)..c \subseteq (a + 1)..c
OBVIOUS

\* What has been explained stays so while the client looks elsewhere.
LEMMA AccountedStays ==
  ASSUME StreamTypes, Accounted, Overtaken \subseteq Overtaken',
         base' \in Nat, base <= base',
         \A k \in 1..Len(broadcasts) : broadcasts'[k] = broadcasts[k],
         stage = "open" => next <= Len(broadcasts) + 1,
         UNCHANGED <<stage, shown, cursor, blocks, history, next, mark, replayed, missed>>
  PROVE  Accounted'
<1>0. /\ base \in Nat /\ cursor \in Nat /\ next \in Nat /\ mark \in Nat /\ replayed \in Nat
      /\ Len(broadcasts) \in Nat /\ blocks \subseteq Nat
  BY StreamNumbers DEF StreamTypes
<1>1. Explained \subseteq Explained'
  BY DEF Explained
<1>2. \A i \in (base' + 1)..cursor : i \in Explained'
  <2>1. (base' + 1)..cursor \subseteq (base + 1)..cursor
    BY <1>0, RangeShrinks
  <2> QED
    BY <2>1, <1>1 DEF Accounted
<1>3. \A i \in blocks' : i > base' => i \in Explained'
  BY <1>0, <1>1 DEF Accounted
<1>4. ASSUME stage \in {"replayed", "open"}, NEW i \in (base' + 1)..replayed
      PROVE  i \in Explained' \cup ToSet(history)
  <2>1. (base' + 1)..replayed \subseteq (base + 1)..replayed
    BY <1>0, RangeShrinks
  <2> QED
    BY <2>1, <1>1, <1>4 DEF Accounted
<1>5. ASSUME stage' = "open", NEW j \in (mark' + 1)..(next' - 1), broadcasts'[j] > base'
      PROVE  broadcasts'[j] \in Explained' \cup ToSet(history')
  <2>1. j \in 1..Len(broadcasts) /\ broadcasts'[j] = broadcasts[j]
    BY <1>0, <1>5
  <2>2. broadcasts[j] > base
    BY <2>1, <1>0, <1>5, StreamNumbers
  <2> QED
    BY <2>1, <2>2, <1>1, <1>5 DEF Accounted
<1> QED
  BY <1>2, <1>3, <1>4, <1>5 DEF Accounted

\* A record that has been stored is not broadcast yet.
LEMMA StoreKeeps ==
  ASSUME StreamIInv, NEW p \in Writers, NEW k \in {"block", "delta"}, Store(p, k)
  PROVE  StreamIInv'
<1> USE DEF StreamIInv
<1>1. /\ storing[p] = 0 /\ records' = Append(records, k)
      /\ storing' = [storing EXCEPT ![p] = Len(records) + 1]
      /\ UNCHANGED <<base, broadcasts, stage, shown, cursor, seeded, blocks, history, next, mark, replayed, missed>>
  BY DEF Store, client, reading
<1>2. Len(records) \in Nat /\ records' \in Seq({"block", "delta"}) /\ Len(records') = Len(records) + 1
  BY <1>1 DEF StreamTypes
<1>3. /\ storing' \in [Writers -> Nat] /\ storing'[p] = Len(records) + 1
      /\ \A q \in Writers : q # p => storing'[q] = storing[q]
  BY <1>1, <1>2 DEF StreamTypes
<1>4. StreamTypes'
  <2>1. ASSUME NEW q \in Writers PROVE storing'[q] <= Len(records')
    <3>1. storing[q] <= Len(records) /\ storing[q] \in Nat
      BY DEF StreamTypes
    <3> QED
      BY <3>1, <1>2, <1>3
  <2>2. \A j \in 1..Len(broadcasts') : broadcasts'[j] \in 1..Len(records')
    BY <1>1, <1>2 DEF StreamTypes
  <2>3. base' <= Len(records') /\ cursor' <= Len(records') /\ replayed' <= Len(records')
    BY <1>1, <1>2, StreamNumbers DEF StreamTypes
  <2> QED
    BY <2>1, <2>2, <2>3, <1>1, <1>2, <1>3 DEF StreamTypes
<1>5. Once'
  <2>1. \A q \in Writers : storing[q] <= Len(records) /\ storing[q] \in Nat
    BY DEF StreamTypes
  <2>2. \A q \in Writers : \A j \in 1..Len(broadcasts') : broadcasts'[j] # storing'[q]
    BY <1>1, <1>2, <1>3, StreamNumbers DEF Once
  <2>3. \A q, r \in Writers : storing'[q] = storing'[r] /\ storing'[q] # 0 => q = r
    BY <1>2, <1>3, <2>1 DEF Once
  <2> QED
    BY <2>2, <2>3, <1>1 DEF Once
<1>6. AtCursor' /\ Ahead'
  BY <1>1 DEF AtCursor, Ahead
<1>7. Overtaken \subseteq Overtaken'
  BY <1>1, <1>2, StreamNumbers, OvertakenGrows
<1>8. Accounted'
  BY <1>1, <1>7, StreamNumbers, AccountedStays DEF Ahead
<1> QED
  BY <1>4, <1>5, <1>6, <1>8

\* A writer broadcasts the record it has stored, whatever others have sent.
LEMMA BroadcastKeeps ==
  ASSUME StreamIInv, NEW p \in Writers, Broadcast(p)
  PROVE  StreamIInv'
<1> DEFINE n == Len(broadcasts)
<1> USE DEF StreamIInv
<1>1. /\ storing[p] # 0 /\ broadcasts' = Append(broadcasts, storing[p])
      /\ storing' = [storing EXCEPT ![p] = 0]
      /\ UNCHANGED <<records, base, stage, shown, cursor, seeded, blocks, history, next, mark, replayed, missed>>
  BY DEF Broadcast, client, reading
<1>2. storing[p] \in Nat /\ storing[p] \in 1..Len(records)
  BY <1>1, StreamNumbers DEF StreamTypes
<1>3. /\ broadcasts' \in Seq(Nat) /\ Len(broadcasts') = n + 1 /\ n \in Nat
      /\ \A j \in 1..n : broadcasts'[j] = broadcasts[j]
      /\ broadcasts'[n + 1] = storing[p]
      /\ DOMAIN broadcasts' = 1..Len(broadcasts')
  BY <1>1, <1>2, OneMore DEF StreamTypes
<1>4. /\ storing' \in [Writers -> Nat] /\ storing'[p] = 0
      /\ \A q \in Writers : q # p => storing'[q] = storing[q]
  BY <1>1 DEF StreamTypes
<1>5. \A j \in 1..(n + 1) : j \in 1..n \/ j = n + 1
  BY <1>3
<1> HIDE DEF n
<1>6. n = Len(broadcasts)
  BY DEF n
<1>7. StreamTypes'
  <2>1. \A j \in 1..(n + 1) : broadcasts'[j] \in 1..Len(records)
    BY <1>2, <1>3, <1>5, <1>6 DEF StreamTypes
  <2>2. ASSUME NEW q \in Writers PROVE storing'[q] <= Len(records)
    <3>1. storing[q] <= Len(records) /\ Len(records) \in Nat /\ 0 <= Len(records)
      BY StreamNumbers DEF StreamTypes
    <3> QED
      BY <3>1, <1>4
  <2>3. mark <= n + 1
    BY <1>3, <1>6, StreamNumbers DEF StreamTypes
  <2> QED
    BY <2>1, <2>2, <2>3, <1>1, <1>3, <1>4 DEF StreamTypes
<1>8. Once'
  <2>1. \A j, k \in 1..(n + 1) : broadcasts'[j] = broadcasts'[k] => j = k
    BY <1>3, <1>5, <1>6 DEF Once
  <2>2. \A q \in Writers : \A j \in 1..(n + 1) : broadcasts'[j] # storing'[q]
    <3> SUFFICES ASSUME NEW q \in Writers, NEW j \in 1..(n + 1) PROVE broadcasts'[j] # storing'[q]
      OBVIOUS
    <3>1. broadcasts'[j] # 0
      <4>1. CASE j \in 1..n
        BY <4>1, <1>3, <1>6, StreamNumbers
      <4>2. CASE j = n + 1
        BY <4>2, <1>1, <1>3
      <4> QED
        BY <4>1, <4>2, <1>5
    <3>2. CASE q = p
      BY <3>1, <3>2, <1>4
    <3>3. CASE q # p /\ j \in 1..n
      BY <3>3, <1>3, <1>4, <1>6 DEF Once
    <3>4. CASE q # p /\ j = n + 1
      BY <3>4, <1>1, <1>3, <1>4 DEF Once
    <3> QED
      BY <3>2, <3>3, <3>4, <1>5
  <2>3. \A q, r \in Writers : storing'[q] = storing'[r] /\ storing'[q] # 0 => q = r
    BY <1>4 DEF Once
  <2> QED
    BY <2>1, <2>2, <2>3, <1>3 DEF Once
<1>9. AtCursor'
  BY <1>1 DEF AtCursor
<1>10. Ahead'
  <2>1. \A k \in 1..mark : broadcasts'[k] = broadcasts[k]
    BY <1>3, <1>6, StreamNumbers DEF StreamTypes
  <2>2. ASSUME stage = "open", NEW k \in (mark + 1)..(next - 1) PROVE broadcasts'[k] = broadcasts[k]
    <3>1. next <= n + 1 /\ next \in Nat /\ mark \in Nat /\ n \in Nat
      BY <2>2, <1>6, StreamNumbers DEF Ahead
    <3>2. k \in 1..n
      BY <3>1
    <3> QED
      BY <3>2, <1>3
  <2>3. ASSUME stage = "open" PROVE next <= Len(broadcasts') + 1
    BY <2>3, <1>3, <1>6, StreamNumbers DEF Ahead
  <2> QED
    BY <2>1, <2>2, <2>3, <1>1 DEF Ahead
<1>11. Overtaken \subseteq Overtaken'
  BY <1>1, <1>3, <1>6, StreamNumbers, OvertakenGrows
<1>12. Accounted'
  BY <1>1, <1>3, <1>6, <1>11, StreamNumbers, AccountedStays DEF Ahead
<1> QED
  BY <1>7, <1>8, <1>9, <1>10, <1>12

\* A checkpoint takes records out of the file; fewer are to be accounted for.
LEMMA TruncateKeeps ==
  ASSUME StreamIInv, Truncate
  PROVE  StreamIInv'
<1> USE DEF StreamIInv
<1>1. PICK i \in ToSet(broadcasts) : i > base /\ base' = i
  BY DEF Truncate
<1>2. PICK k \in 1..Len(broadcasts) : i = broadcasts[k]
  BY StreamNumbers DEF ToSet
<1>3. base' \in Nat /\ base' <= Len(records) /\ base <= base'
  BY <1>1, <1>2, StreamNumbers
<1>4. UNCHANGED <<records, storing, broadcasts, stage, shown, cursor, seeded, blocks, history, next, mark, replayed, missed>>
  BY DEF Truncate, client, reading
<1>5. StreamTypes' /\ Once' /\ AtCursor' /\ Ahead'
  BY <1>3, <1>4 DEF StreamTypes, Once, AtCursor, Ahead
<1>6. Accounted'
  BY <1>3, <1>4, OvertakenStays, AccountedStays DEF Ahead
<1> QED
  BY <1>5, <1>6

\* A snapshot shows what the file holds and sets the cursor behind it.
LEMMA HydrateKeeps ==
  ASSUME StreamIInv, Hydrate
  PROVE  StreamIInv'
<1> USE DEF StreamIInv
<1>1. /\ stage' = "hydrated" /\ shown' = RecordsAfter(base) /\ blocks' = {}
      /\ cursor' = IF InFile = {} THEN 0 ELSE Len(records)
      /\ UNCHANGED <<records, base, storing, broadcasts, history, next, mark, replayed>>
  BY DEF Hydrate, session, reading
<1>2. /\ shown' \in Seq(Nat) /\ Len(shown') = Len(records) - base /\ Len(records) \in Nat
      /\ \A k \in 1..(Len(records) - base) : shown'[k] = base + k
      /\ ToSet(shown') = (base + 1)..Len(records)
      /\ base \in Nat /\ base <= Len(records)
  BY <1>1, AfterIs DEF StreamTypes
<1>3. InFile = {} <=> base = Len(records)
  <2>1. base < Len(records) => base + 1 \in InFile
    BY <1>2 DEF InFile
  <2>2. base = Len(records) => InFile = {}
    BY <1>2 DEF InFile
  <2> QED
    BY <2>1, <2>2, <1>2
<1>4. shown' = <<>> <=> base = Len(records)
  BY <1>2
<1>5. StreamTypes'
  BY <1>1, <1>2 DEF StreamTypes
<1>6. Once' /\ Ahead'
  BY <1>1 DEF Once, Ahead
<1>7. AtCursor'
  BY <1>1, <1>2, <1>3, <1>4 DEF AtCursor
<1>8. Accounted'
  BY <1>1, <1>2 DEF Accounted, Explained
<1> QED
  BY <1>5, <1>6, <1>7, <1>8

\* Steps that only move the client between its stages.
LEMMA StageKeeps ==
  ASSUME StreamIInv, CheckCursor \/ Lagged \/ Break
  PROVE  StreamIInv'
<1> USE DEF StreamIInv
<1>1. /\ stage' \notin {"replayed", "open"} /\ blocks' \subseteq blocks /\ history' \in {history, <<>>}
      /\ UNCHANGED <<records, base, storing, broadcasts, shown, cursor, next, mark, replayed, missed>>
  BY DEF CheckCursor, Lagged, Break, session, reading
<1>2. StreamTypes'
  <2>1. history' \in Seq(Nat)
    <3>1. <<>> \in Seq(Nat)
      OBVIOUS
    <3> QED
      BY <3>1, <1>1 DEF StreamTypes
  <2> QED
    BY <2>1, <1>1 DEF StreamTypes
<1>3. Once' /\ AtCursor' /\ Ahead'
  BY <1>1 DEF Once, AtCursor, Ahead
<1>4. Accounted'
  BY <1>1, OvertakenStays DEF Accounted, Explained
<1> QED
  BY <1>2, <1>3, <1>4

\* What is replayed begins where cursor or file ends, and misses nothing.
LEMMA StreamReplayKeeps ==
  ASSUME StreamIInv, ReplayFile
  PROVE  StreamIInv'
<1> DEFINE after == IF cursor \in InFile THEN cursor ELSE base
<1> USE DEF StreamIInv
<1>1. /\ history' = RecordsAfter(after) /\ stage' = "replayed"
      /\ mark' = Len(broadcasts) /\ replayed' = Len(records)
      /\ blocks' = IF seeded THEN blocks ELSE (base + 1)..after
      /\ UNCHANGED <<records, base, storing, broadcasts, shown, cursor, next, missed>>
  BY DEF ReplayFile, session
<1>2. after \in Nat /\ after <= Len(records) /\ cursor <= after /\ base <= after
      /\ (after = cursor \/ after = base)
  BY DEF StreamTypes, InFile
<1>3. \A i \in (base + 1)..after : i \in Explained
  BY <1>2, StreamNumbers DEF Accounted
<1> HIDE DEF after
<1>4. /\ history' \in Seq(Nat) /\ Len(history') = Len(records) - after /\ Len(records) \in Nat
      /\ \A k \in 1..(Len(records) - after) : history'[k] = after + k
      /\ ToSet(history') = (after + 1)..Len(records)
  BY <1>1, <1>2, AfterIs DEF StreamTypes
<1>5. StreamTypes'
  <2>1. mark' \in Nat /\ replayed' \in Nat /\ replayed' <= Len(records') /\ mark' <= Len(broadcasts')
    BY <1>1, StreamNumbers
  <2>2. blocks' \subseteq Nat
    BY <1>1, <1>2, StreamNumbers DEF StreamTypes
  <2> QED
    BY <2>1, <2>2, <1>1, <1>4 DEF StreamTypes
<1>6. Once' /\ AtCursor'
  BY <1>1 DEF Once, AtCursor
<1>7. Ahead'
  <2>1. ASSUME NEW k \in 1..Len(history') PROVE cursor' < history'[k] /\ history'[k] <= replayed'
    <3>1. /\ history'[k] = after + k /\ k \in Nat /\ 0 < k /\ after + k <= Len(records)
          /\ cursor \in Nat /\ cursor <= after
      BY <1>2, <1>4, StreamNumbers
    <3> QED
      BY <3>1, <1>1, <1>2
  <2>2. \A j, k \in 1..Len(history') : j < k => history'[j] < history'[k]
    BY <1>2, <1>4
  <2>3. \A k \in 1..mark' : broadcasts'[k] <= replayed'
    BY <1>1, StreamNumbers
  <2>4. cursor' <= replayed'
    BY <1>1 DEF StreamTypes
  <2> QED
    BY <2>1, <2>2, <2>3, <2>4, <1>1 DEF Ahead
<1>8. Explained' = Explained
  BY <1>1, OvertakenStays DEF Explained
<1>9. Accounted'
  <2>1. \A i \in (base' + 1)..cursor' : i \in Explained'
    BY <1>1, <1>8 DEF Accounted
  <2>2. \A i \in blocks' : i > base' => i \in Explained'
    BY <1>1, <1>3, <1>8 DEF Accounted
  <2>3. ASSUME NEW i \in (base' + 1)..replayed' PROVE i \in Explained' \cup ToSet(history')
    <3>1. i \in (base + 1)..after \/ i \in (after + 1)..Len(records)
      BY <1>1, <1>2, StreamNumbers
    <3> QED
      BY <3>1, <1>3, <1>4, <1>8
  <2> QED
    BY <2>1, <2>2, <2>3, <1>1 DEF Accounted
<1> QED
  BY <1>5, <1>6, <1>7, <1>9

\* What was broadcast between replay and subscription is missed, or replayed.
LEMMA OpenKeeps ==
  ASSUME StreamIInv, OpenReceiver
  PROVE  StreamIInv'
<1> USE DEF StreamIInv
<1>1. /\ stage = "replayed" /\ stage' = "open" /\ next' = Len(broadcasts) + 1
      /\ missed' = missed \cup ({broadcasts[k] : k \in (mark + 1)..Len(broadcasts)} \ ToSet(history))
      /\ UNCHANGED <<records, base, storing, broadcasts, shown, cursor, blocks, history, mark, replayed>>
  BY DEF OpenReceiver, session, reading
<1>2. StreamTypes' /\ Once' /\ AtCursor'
  BY <1>1, StreamNumbers DEF StreamTypes, Once, AtCursor
<1>3. Ahead'
  <2>1. mark < next' /\ next' <= Len(broadcasts) + 1
    BY <1>1, StreamNumbers DEF StreamTypes
  <2> QED
    BY <2>1, <1>1 DEF Ahead
<1>4. Explained \subseteq Explained'
  BY <1>1, OvertakenStays DEF Explained
<1>5. Accounted'
  <2>1. ASSUME NEW j \in (mark + 1)..(next' - 1) PROVE broadcasts[j] \in Explained' \cup ToSet(history)
    <3>1. j \in (mark + 1)..Len(broadcasts)
      BY <1>1, StreamNumbers
    <3> QED
      BY <3>1, <1>1 DEF Explained
  <2> QED
    BY <2>1, <1>1, <1>4 DEF Accounted
<1> QED
  BY <1>2, <1>3, <1>5

\* What one record of the client's does, whoever delivers it.
LEMMA ProjectKeeps ==
  ASSUME StreamTypes, AtCursor, Accounted,
         NEW i \in Nat, i # 0, i <= Len(records), Project(i),
         \A j \in (base + 1)..(i - 1) : j \in Explained,
         UNCHANGED <<records, base, broadcasts, missed>>
  PROVE  /\ shown' \in Seq(Nat) /\ cursor' \in {cursor, i} /\ blocks' \subseteq Nat
         /\ AtCursor'
         /\ Explained \subseteq Explained'
         /\ i > base => i \in Explained'
         /\ \A j \in (base + 1)..cursor' : j \in Explained'
         /\ \A j \in blocks' : j > base => j \in Explained'
<1> USE DEF StreamTypes
<1>0. Len(records) \in Nat /\ base \in Nat /\ cursor \in Nat
  BY StreamNumbers
<1>1. CASE records[i] = "block" /\ i \in blocks
  <2>1. UNCHANGED <<shown, cursor, blocks>>
    BY <1>1 DEF Project
  <2>2. Explained' = Explained
    BY <2>1, OvertakenStays DEF Explained
  <2> QED
    BY <2>1, <2>2, <1>1 DEF AtCursor, Accounted
<1>2. CASE ~(records[i] = "block" /\ i \in blocks)
  <2>1. shown' = Append(shown, i) /\ cursor' = i /\ blocks' = blocks \cup {i}
    BY <1>2 DEF Project
  <2>2. /\ shown' \in Seq(Nat) /\ shown' # <<>> /\ Len(shown') = Len(shown) + 1
        /\ shown'[Len(shown) + 1] = i /\ ToSet(shown') = ToSet(shown) \cup {i}
    BY <2>1, OneMore
  <2>3. AtCursor'
    BY <2>1, <2>2 DEF AtCursor
  <2>4. Explained \subseteq Explained' /\ i \in Explained'
    BY <2>2, OvertakenStays DEF Explained
  <2>5. \A j \in (base + 1)..cursor' : j \in Explained'
    <3> SUFFICES ASSUME NEW j \in (base + 1)..i PROVE j \in Explained'
      BY <2>1
    <3>1. CASE j = i
      BY <3>1, <2>4
    <3>2. CASE j # i
      <4>1. j \in (base + 1)..(i - 1)
        BY <3>2, <1>0
      <4> QED
        BY <4>1, <2>4
    <3> QED
      BY <3>1, <3>2
  <2>6. \A j \in blocks' : j > base => j \in Explained'
    BY <2>1, <2>4 DEF Accounted
  <2> QED
    BY <2>1, <2>2, <2>3, <2>4, <2>5, <2>6
<1> QED
  BY <1>1, <1>2

\* The next replayed record is behind the cursor and before the others.
LEMMA DeliverKeeps ==
  ASSUME StreamIInv, Deliver
  PROVE  StreamIInv'
<1> DEFINE i == history[1]
<1> USE DEF StreamIInv
<1>1. /\ stage = "open" /\ stage' = "open" /\ history # <<>> /\ Project(Head(history)) /\ history' = Tail(history)
      /\ UNCHANGED <<records, base, storing, broadcasts, next, mark, replayed, missed>>
  BY DEF Deliver, session, reading
<1>2. /\ history' \in Seq(Nat) /\ Len(history') = Len(history) - 1 /\ Len(history) \in Nat \ {0}
      /\ Head(history) = i /\ i \in Nat
      /\ \A k \in 1..(Len(history) - 1) : history'[k] = history[k + 1]
      /\ ToSet(history) = {i} \cup ToSet(history')
  BY <1>1, Rest DEF StreamTypes
<1>3. cursor < i /\ i <= replayed /\ i <= Len(records) /\ i # 0
  <2>1. 1 \in 1..Len(history)
    BY <1>2
  <2>2. cursor < i /\ i <= replayed
    BY <2>1, <1>1 DEF Ahead
  <2> QED
    BY <2>2, <1>2, StreamNumbers DEF StreamTypes
<1>4. \A k \in 1..Len(history) : i <= history[k]
  <2> SUFFICES ASSUME NEW k \in 1..Len(history) PROVE i <= history[k]
    OBVIOUS
  <2>1. 1 \in 1..Len(history) /\ (k = 1 \/ 1 < k)
    BY <1>2
  <2>2. 1 < k => i < history[k]
    BY <2>1, <1>1 DEF Ahead
  <2> QED
    BY <2>1, <2>2, <1>2, StreamNumbers
<1>5. \A j \in 1..(i - 1) : j \notin ToSet(history)
  BY <1>2, <1>4, StreamNumbers DEF ToSet
<1>6. \A j \in (base + 1)..(i - 1) : j \in Explained
  <2> SUFFICES ASSUME NEW j \in (base + 1)..(i - 1) PROVE j \in Explained
    OBVIOUS
  <2>1. j \in (base + 1)..replayed /\ j \in 1..(i - 1)
    BY <1>2, <1>3, StreamNumbers
  <2> QED
    BY <2>1, <1>1, <1>5 DEF Accounted
<1> HIDE DEF i
<1>7. /\ shown' \in Seq(Nat) /\ cursor' \in {cursor, i} /\ blocks' \subseteq Nat
      /\ AtCursor'
      /\ Explained \subseteq Explained'
      /\ i > base => i \in Explained'
      /\ \A j \in (base + 1)..cursor' : j \in Explained'
      /\ \A j \in blocks' : j > base => j \in Explained'
  BY <1>1, <1>2, <1>3, <1>6, ProjectKeeps
<1>8. StreamTypes' /\ Once'
  <2>1. cursor' \in Nat /\ cursor' <= Len(records)
    BY <1>2, <1>3, <1>7 DEF StreamTypes
  <2> QED
    BY <2>1, <1>1, <1>2, <1>7 DEF StreamTypes, Once
<1>9. Ahead'
  <2>1. ASSUME NEW k \in 1..Len(history') PROVE cursor' < history'[k] /\ history'[k] <= replayed
    <3>1. k + 1 \in 1..Len(history) /\ 1 \in 1..Len(history) /\ 1 < k + 1 /\ history'[k] = history[k + 1]
      BY <1>2
    <3>2. history[1] < history[k + 1] /\ cursor < history[k + 1] /\ history[k + 1] <= replayed
      BY <3>1, <1>1 DEF Ahead
    <3> QED
      BY <3>1, <3>2, <1>7 DEF i
  <2>2. ASSUME NEW j \in 1..Len(history'), NEW k \in 1..Len(history'), j < k PROVE history'[j] < history'[k]
    <3>1. k + 1 \in 1..Len(history) /\ j + 1 \in 1..Len(history) /\ j + 1 < k + 1
          /\ history'[k] = history[k + 1] /\ history'[j] = history[j + 1]
      BY <1>2, <2>2
    <3> QED
      BY <3>1, <1>1 DEF Ahead
  <2>3. cursor' <= replayed \/ cursor' = cursor
    BY <1>3, <1>7
  <2> QED
    BY <2>1, <2>2, <2>3, <1>1 DEF Ahead
<1>10. Accounted'
  <2>1. ASSUME NEW j \in Explained \cup ToSet(history), j > base PROVE j \in Explained' \cup ToSet(history')
    BY <2>1, <1>2, <1>7
  <2>2. \A j \in (base + 1)..replayed : j \in Explained' \cup ToSet(history')
    <3> SUFFICES ASSUME NEW j \in (base + 1)..replayed PROVE j \in Explained' \cup ToSet(history')
      OBVIOUS
    <3>1. j \in Explained \cup ToSet(history) /\ j > base
      BY <1>1, StreamNumbers DEF Accounted
    <3> QED
      BY <3>1, <2>1
  <2>3. \A j \in (mark + 1)..(next - 1) : broadcasts[j] > base => broadcasts[j] \in Explained' \cup ToSet(history')
    BY <2>1, <1>1 DEF Accounted
  <2> QED
    BY <2>2, <2>3, <1>1, <1>7 DEF Accounted
<1> QED
  BY <1>7, <1>8, <1>9, <1>10

\* A record before the one received, and not received itself, is overtaken by it.
LEMMA OvertakenOrGot ==
  ASSUME StreamIInv, stage = "open", history = <<>>, next <= Len(broadcasts),
         NEW j \in (base + 1)..(broadcasts[next] - 1)
  PROVE  j \in Explained
<1> USE DEF StreamIInv
<1>1. next \in 1..Len(broadcasts) /\ j \in Nat /\ j \in 1..Len(records) /\ j < broadcasts[next]
  BY StreamNumbers
<1>2. CASE \A k \in 1..(next - 1) : broadcasts[k] # j
  <2>1. j \in Overtaken
    BY <1>1, <1>2, StreamNumbers DEF Overtaken
  <2> QED
    BY <2>1 DEF Explained
<1>3. ASSUME NEW k \in 1..(next - 1), broadcasts[k] = j PROVE j \in Explained
  <2>1. ToSet(history) = {}
    BY DEF ToSet
  <2>2. CASE k \in 1..mark
    <3>1. j \in (base + 1)..replayed
      BY <2>2, <1>1, <1>3, StreamNumbers DEF Ahead
    <3> QED
      BY <3>1, <2>1 DEF Accounted
  <2>3. CASE k \in (mark + 1)..(next - 1)
    <3>1. broadcasts[k] > base
      BY <1>1, <1>3, StreamNumbers
    <3> QED
      BY <3>1, <2>1, <2>3, <1>3 DEF Accounted
  <2> QED
    BY <2>2, <2>3, StreamNumbers
<1> QED
  BY <1>2, <1>3

\* What is received before the cursor was overtaken, unless its broadcast was
\* still to come when the log was replayed.
LEMMA BackIsOvertaken ==
  ASSUME StreamIInv, stage = "open", next <= Len(broadcasts), broadcasts[next] < cursor
  PROVE  broadcasts[next] \in Overtaken \cup Due
<1> DEFINE r == broadcasts[next]
<1> USE DEF StreamIInv
<1>1. next \in 1..Len(broadcasts) /\ r \in Nat /\ r \in 1..Len(records) /\ mark < next /\ next <= Len(broadcasts)
  BY StreamNumbers DEF Ahead
<1>2. CASE r <= replayed
  <2>1. \A k \in 1..mark : broadcasts[k] # r
    BY <1>1, StreamNumbers DEF Once, StreamTypes
  <2>2. r \in 1..replayed
    BY <1>1, <1>2, StreamNumbers
  <2> QED
    BY <2>1, <2>2 DEF Due
<1>3. CASE ~(r <= replayed)
  <2>1. ~(cursor <= replayed)
    BY <1>1, <1>3, StreamNumbers
  <2>2. PICK k \in (mark + 1)..(next - 1) : broadcasts[k] = cursor
    BY <2>1 DEF Ahead
  <2>3. k \in 1..Len(broadcasts) /\ k - 1 < next
    BY <2>2, <1>1, StreamNumbers
  <2>4. \A j \in 1..(k - 1) : broadcasts[j] # r
    BY <1>1, <2>2, <2>3, StreamNumbers DEF Once
  <2> QED
    BY <1>1, <2>2, <2>3, <2>4, StreamNumbers DEF Overtaken
<1> QED
  BY <1>2, <1>3

\* The next received record, and those that it has overtaken, are accounted for.
LEMMA StreamReceiveKeeps ==
  ASSUME StreamIInv, ReceiveNext
  PROVE  StreamIInv'
<1> DEFINE r == broadcasts[next]
<1> USE DEF StreamIInv
<1>1. /\ stage = "open" /\ stage' = "open" /\ history = <<>> /\ next <= Len(broadcasts)
      /\ Project(r) /\ next' = next + 1
      /\ UNCHANGED <<records, base, storing, broadcasts, history, mark, replayed, missed>>
  BY DEF ReceiveNext, session, reading
<1>2. next \in 1..Len(broadcasts) /\ r \in Nat /\ r # 0 /\ r <= Len(records)
  BY <1>1, StreamNumbers
<1>3. \A j \in (base + 1)..(r - 1) : j \in Explained
  BY <1>1, OvertakenOrGot
<1> HIDE DEF r
<1>4. /\ shown' \in Seq(Nat) /\ cursor' \in {cursor, r} /\ blocks' \subseteq Nat
      /\ AtCursor'
      /\ Explained \subseteq Explained'
      /\ r > base => r \in Explained'
      /\ \A j \in (base + 1)..cursor' : j \in Explained'
      /\ \A j \in blocks' : j > base => j \in Explained'
  BY <1>1, <1>2, <1>3, ProjectKeeps
<1>5. StreamTypes' /\ Once'
  <2>1. cursor' \in Nat /\ cursor' <= Len(records) /\ next' \in Nat \ {0}
    BY <1>1, <1>2, <1>4, StreamNumbers DEF StreamTypes
  <2> QED
    BY <2>1, <1>1, <1>4 DEF StreamTypes, Once
<1>6. Ahead'
  <2>1. mark < next' /\ next' <= Len(broadcasts) + 1
    BY <1>1, StreamNumbers DEF Ahead
  <2>2. cursor' <= replayed \/ \E k \in (mark + 1)..(next' - 1) : broadcasts[k] = cursor'
    <3>1. CASE cursor' = r
      <4>1. next \in (mark + 1)..(next' - 1) /\ broadcasts[next] = r
        BY <1>1, StreamNumbers DEF Ahead, r
      <4> QED
        BY <4>1, <3>1
    <3>2. CASE cursor' = cursor
      <4>1. \A k \in (mark + 1)..(next - 1) : k \in (mark + 1)..(next' - 1)
        BY <1>1, StreamNumbers
      <4> QED
        BY <4>1, <3>2, <1>1 DEF Ahead
    <3> QED
      BY <3>1, <3>2, <1>4
  <2>3. Len(history') = 0
    BY <1>1
  <2>4. \A k \in 1..mark : broadcasts[k] <= replayed
    BY <1>1 DEF Ahead
  <2> QED
    BY <2>1, <2>2, <2>3, <2>4, <1>1 DEF Ahead
<1>7. Accounted'
  <2>1. \A j \in (base + 1)..replayed : j \in Explained' \cup ToSet(history')
    BY <1>1, <1>4 DEF Accounted
  <2>2. ASSUME NEW j \in (mark + 1)..(next' - 1), broadcasts[j] > base
        PROVE  broadcasts[j] \in Explained' \cup ToSet(history')
    <3>1. CASE j = next
      BY <3>1, <2>2, <1>4 DEF r
    <3>2. CASE j # next
      <4>1. j \in (mark + 1)..(next - 1)
        BY <3>2, <1>1, StreamNumbers
      <4> QED
        BY <4>1, <2>2, <1>1, <1>4 DEF Accounted
    <3> QED
      BY <3>1, <3>2
  <2> QED
    BY <2>1, <2>2, <1>1, <1>4 DEF Accounted
<1> QED
  BY <1>4, <1>5, <1>6, <1>7

\* The inductive invariant of a stream, however many appenders its session has
\* and in whatever order they broadcast what they have stored.
THEOREM StreamIsSound == StreamSpec => []StreamIInv
<1>1. StreamInit => StreamIInv
  BY StreamInitIInv
<1>2. StreamIInv /\ [StreamNext]_streamVars => StreamIInv'
  <2> SUFFICES ASSUME StreamIInv, [StreamNext]_streamVars PROVE StreamIInv'
    OBVIOUS
  <2>1. CASE UNCHANGED streamVars
    <3>1. UNCHANGED <<records, base, storing, broadcasts, stage, shown, cursor, seeded, blocks, history, next,
                      mark, replayed, missed>>
      BY <2>1 DEF streamVars, session, client, reading
    <3>2. Explained' = Explained
      BY <3>1, OvertakenStays DEF Explained
    <3> QED
      BY <3>1, <3>2 DEF StreamIInv, StreamTypes, Once, AtCursor, Ahead, Accounted
  <2>2. ASSUME NEW p \in Writers, Broadcast(p) PROVE StreamIInv'
    BY <2>2, BroadcastKeeps
  <2>3. ASSUME NEW p \in Writers, NEW k \in {"block", "delta"}, Store(p, k) PROVE StreamIInv'
    BY <2>3, StoreKeeps
  <2>4. CASE Truncate
    BY <2>4, TruncateKeeps
  <2>5. CASE Hydrate
    BY <2>5, HydrateKeeps
  <2>6. CASE CheckCursor \/ Lagged \/ Break
    BY <2>6, StageKeeps
  <2>7. CASE ReplayFile
    BY <2>7, StreamReplayKeeps
  <2>8. CASE OpenReceiver
    BY <2>8, OpenKeeps
  <2>9. CASE Deliver
    BY <2>9, DeliverKeeps
  <2>10. CASE ReceiveNext
    BY <2>10, StreamReceiveKeeps
  <2> QED
    BY <2>1, <2>2, <2>3, <2>4, <2>5, <2>6, <2>7, <2>8, <2>9, <2>10 DEF StreamNext
<1> QED
  BY <1>1, <1>2, PTL DEF StreamSpec

\* The step of the client's that OrderedDelivery forbids.
Back(i) == shown' = Append(shown, i) /\ shown # <<>> /\ i < Last(shown)

\* A step that shows a record before the last one shown receives it.
LEMMA BackIsReceived ==
  ASSUME StreamIInv, [StreamNext]_streamVars, NEW i \in 1..Len(records), Back(i)
  PROVE  i \in Overtaken \cup Due
<1> USE DEF StreamIInv, StreamTypes
<1>1. /\ shown \in Seq(Nat) /\ shown # <<>> /\ Len(shown) \in Nat \ {0}
      /\ shown' = Append(shown, i) /\ i \in Nat
      /\ Last(shown) = shown[Len(shown)] /\ cursor = shown[Len(shown)] /\ i < cursor
  BY DEF Back, Last, AtCursor
<1>2. /\ Len(shown') = Len(shown) + 1 /\ shown'[Len(shown) + 1] = i
      /\ shown'[Len(shown)] = shown[Len(shown)]
  BY <1>1, OneMore
<1>3. shown' # shown
  BY <1>1, <1>2
<1>4. CASE Hydrate
  <2>1. /\ shown' = RecordsAfter(base) /\ base \in Nat /\ base <= Len(records)
        /\ Len(shown') = Len(records) - base
        /\ \A k \in 1..(Len(records) - base) : shown'[k] = base + k
    BY <1>4, AfterIs DEF Hydrate
  <2>2. /\ Len(shown) \in 1..(Len(records) - base)
        /\ Len(shown) + 1 \in 1..(Len(records) - base)
    BY <2>1, <1>1, <1>2, StreamNumbers
  <2>3. shown'[Len(shown)] = base + Len(shown) /\ shown'[Len(shown) + 1] = base + (Len(shown) + 1)
    BY <2>1, <2>2
  <2> QED
    BY <2>1, <2>3, <1>1, <1>2
<1>5. ASSUME NEW j \in Nat, Project(j) PROVE i = j
  <2>1. shown' = Append(shown, j)
    BY <1>5, <1>3 DEF Project
  <2>2. shown'[Len(shown) + 1] = j
    BY <2>1, <1>1, OneMore
  <2> QED
    BY <2>2, <1>2
<1>6. CASE Deliver
  <2>1. /\ Project(Head(history)) /\ Head(history) = history[1] /\ history[1] \in Nat
        /\ stage = "open" /\ 1 \in 1..Len(history)
    BY <1>6, Rest DEF Deliver
  <2>2. cursor < history[1] /\ i = history[1]
    BY <2>1, <1>5 DEF Ahead
  <2> QED
    BY <2>1, <2>2, <1>1, StreamNumbers
<1>7. CASE ReceiveNext
  <2>1. /\ stage = "open" /\ next <= Len(broadcasts) /\ Project(broadcasts[next])
        /\ broadcasts[next] \in Nat
    BY <1>7, StreamNumbers DEF ReceiveNext
  <2>2. i = broadcasts[next]
    BY <2>1, <1>5
  <2> QED
    BY <2>1, <2>2, <1>1, BackIsOvertaken
<1>8. CASE Hydrate \/ Deliver \/ ReceiveNext
  BY <1>4, <1>6, <1>7, <1>8
<1>9. CASE ~(Hydrate \/ Deliver \/ ReceiveNext)
  <2>1. shown' = shown
    BY <1>9 DEF StreamNext, streamVars, session, client, Store, Broadcast, Truncate, CheckCursor, ReplayFile,
                OpenReceiver, Lagged, Break
  <2> QED
    BY <2>1, <1>3
<1> QED
  BY <1>8, <1>9

\* For any number of concurrent appenders, records, reconnections, lags, replays
\* and checkpoints: a frame goes back only to a record that was overtaken on its
\* way to the broadcaster, or that was replayed before its broadcast.
THEOREM OrderedDeliveryHolds == StreamSpec => OrderedDelivery
<1>1. ASSUME StreamIInv, [StreamNext]_streamVars
      PROVE  [\A i \in 1..Len(records) :
                 shown' = Append(shown, i) /\ shown # <<>> /\ i < Last(shown) => i \in Overtaken \cup Due
             ]_streamVars
  BY <1>1, BackIsReceived DEF Back
<1> QED
  BY <1>1, StreamIsSound, PTL DEF StreamSpec, OrderedDelivery

\* A record before the cursor that the client was not shown was broadcast between
\* a replay and its subscription, was overtaken, or has left the file.
THEOREM GapsExplainedHolds == StreamSpec => []GapsExplained
<1>1. StreamIInv => GapsExplained
  BY DEF StreamIInv, Accounted, Explained, GapsExplained
<1> QED
  BY <1>1, StreamIsSound, PTL
=============================================================================
