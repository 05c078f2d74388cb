---------------------------- MODULE SessionBranch ----------------------------
(***************************************************************************)
(* crates/host-session/src/{branch,fork}.rs beside the turns of the source *)
(* session.  A prompt that finds the session busy is answered in a branch: *)
(* the events before the turn that holds the session.  A fork takes a      *)
(* prefix that ends with a turn.  Either reads the log's file once, keeps  *)
(* what it needs and appends it to a new session while the source goes on. *)
(*                                                                         *)
(* The new session is known by the events it was made from.  Events that   *)
(* come after the terminal event of their turn are what the task of an     *)
(* interrupted turn still writes, the SubRunFinished of a sub-agent, and   *)
(* the reports of others: of children and of wake-ups.                     *)
(***************************************************************************)
EXTENDS TurnMutation, FiniteSetsExt

CONSTANTS Copies,          \* calls of resolve_submit_target and fork_session
          MaxBranchDepth,  \* max_concurrent_branch_depth
          MaxCheckpoints   \* bound on the checkpoints that rewrite the log

ASSUME BranchBoundAssumption == MaxBranchDepth \in Nat \ {0} /\ MaxCheckpoints \in Nat

VARIABLES
    payload,      \* the turn that active-turn.json names
    base,         \* events a checkpoint has removed from the log's file
    checkpoints,
    copy          \* each call: where it stands, the turn it was told, its branches so far;
                  \* was that turn the holder, and which turns were over then

branchVars == <<payload, base, checkpoints, copy>>
allVars == <<vars, branchVars>>

\* The events a replay of the session reads.
Stored == SubSeq(log, base + 1, Len(log))

Fresh == [stage |-> "idle", kind |-> "none", named |-> NoTurn, depth |-> 0,
          current |-> FALSE, over |-> {}]

BranchTypeOK ==
    /\ TypeOK
    /\ payload \in Turns \cup {NoTurn}
    /\ base \in 0..Len(log)
    /\ checkpoints \in 0..MaxCheckpoints
    /\ copy \in [Copies -> [stage : {"idle", "busy", "named", "copying"},
                            kind : {"none", "branch", "fork"},
                            named : Turns \cup {NoTurn},
                            depth : 0..MaxBranchDepth,
                            current : BOOLEAN,
                            over : SUBSET Turns]]

BranchInit ==
    /\ Init
    /\ payload = NoTurn
    /\ base = 0
    /\ checkpoints = 0
    /\ copy = [c \in Copies |-> Fresh]

Set(c, record) == copy' = [copy EXCEPT ![c] = record]

-----------------------------------------------------------------------------
\* The session's own turns.  The payload names a turn from the moment it is
\* granted; until then the file may still be its predecessor's.
Turn ==
    /\ Next
    /\ payload' = IF \E t \in Turns : pc[t] = "calling" /\ pc'[t] = "accepted"
                  THEN owner ELSE payload
    /\ UNCHANGED <<base, checkpoints, copy>>

\* A compaction within a turn has made the session write a checkpoint.
Checkpoint ==
    /\ \E t \in Turns : pc[t] = "running"
    /\ checkpoints < MaxCheckpoints
    /\ checkpoints' = checkpoints + 1
    /\ base' = Len(log)
    /\ UNCHANGED <<vars, payload, copy>>

-----------------------------------------------------------------------------
\* resolve_submit_target: try_acquire_turn finds the lock held and reads the
\* payload ...
FindBusy(c) ==
    /\ copy[c].stage = "idle"
    /\ owner # NoTurn /\ payload # NoTurn
    /\ Set(c, [copy[c] EXCEPT !.stage = "busy", !.kind = "branch", !.named = payload,
                              !.current = payload = owner,
                              !.over = {t \in Turns \ {owner} : pc[t] \in Ended}])
    /\ UNCHANGED <<vars, payload, base, checkpoints>>

\* ... and the lock still held, perhaps by another: Busy.  If it is free by now,
\* the prompt takes it like any other.
Confirm(c) ==
    /\ copy[c].stage = "busy"
    /\ Set(c, IF owner = NoTurn THEN Fresh ELSE [copy[c] EXCEPT !.stage = "named"])
    /\ UNCHANGED <<vars, payload, base, checkpoints>>

\* Bug: the turn is looked for from the end of the log.
StableBeforeLast(events, t) ==
    LET own == {i \in DOMAIN events : events[i].turn = t} IN
    IF own = {} THEN events ELSE SubSeq(events, 1, Max(own) - 1)

\* stable_events_before_active_turn
StableBefore(events, t) ==
    LET own == {i \in DOMAIN events : events[i].turn = t} IN
    IF own = {} THEN events ELSE SubSeq(events, 1, Min(own) - 1)

\* What the branch keeps of what is read now.
Kept(c) == StableBefore(Stored, copy[c].named)

\* branch_session_from_busy_turn replays the source.
ReplaySource(c) ==
    /\ copy[c].stage = "named"
    /\ Set(c, [Fresh EXCEPT !.stage = "copying", !.kind = "branch", !.depth = 1])
    /\ UNCHANGED <<vars, payload, base, checkpoints>>

-----------------------------------------------------------------------------
\* latest_stable_storage_seq, as a position in the file: 0 is SessionStart, -1
\* that there is none.
LatestPoint(events) ==
    LET ends == {i \in DOMAIN events : events[i].kind \in Terminal} IN
    IF ends # {} THEN Max(ends) ELSE IF base = 0 THEN 0 ELSE -1

\* resolve_turn_end_storage_seq: the first TurnDone of the turn.
TurnEndPoint(events, t) ==
    LET ends == {i \in DOMAIN events : events[i].turn = t /\ events[i].kind \in Terminal} IN
    IF ends # {} THEN Min(ends) ELSE -1

\* is_stable_prefix: the turn that some event has begun, and that its terminal
\* event has not ended, is none.
OpenTurn(events) ==
    LET open[n \in 0..Len(events)] ==
            IF n = 0 THEN NoTurn ELSE
            LET before == open[n - 1]
                e == events[n] IN
            IF e.kind \notin Terminal /\ before = NoTurn THEN e.turn
            ELSE IF e.kind \in Terminal /\ before = e.turn THEN NoTurn ELSE before
    IN open[Len(events)]

\* Bug: any prefix will do.
AnyPrefix(events) == TRUE

IsStablePrefix(events) == OpenTurn(events) = NoTurn

\* The points a fork can name: the latest, the end of a turn, or a position.
Points(events) ==
    {LatestPoint(events)} \cup {TurnEndPoint(events, t) : t \in Turns} \cup DOMAIN events

\* stable_events_up_to_storage_seq
UpTo(events, point) == SubSeq(events, 1, point)
Accepts(events, point) == point >= 0 /\ IsStablePrefix(UpTo(events, point))

\* fork_session reads the source and resolves its point, or answers with an error.
Fork(c) ==
    /\ copy[c].stage = "idle"
    /\ \E point \in Points(Stored) : Accepts(Stored, point)
    /\ Set(c, [Fresh EXCEPT !.stage = "copying", !.kind = "fork"])
    /\ UNCHANGED <<vars, payload, base, checkpoints>>

-----------------------------------------------------------------------------
\* fork_events_up_to appends SessionStart and the events one by one, or fails on
\* the way: an error, and a session with what was copied by then.
CopyFails(c) ==
    /\ copy[c].stage \in {"named", "copying"}
    /\ MayFail
    /\ Set(c, Fresh)
    /\ UNCHANGED <<leaseVars, pc, active, pending, work, log, running, call, request>>
    /\ UNCHANGED <<payload, base, checkpoints>>

\* The session is announced; a fork returns, a prompt begins its turn in it ...
Copied(c) ==
    /\ copy[c].stage = "copying"
    /\ Set(c, Fresh)
    /\ UNCHANGED <<vars, payload, base, checkpoints>>

\* ... unless another prompt was there first: then it branches from the branch,
\* which holds the same events before that turn, as often as the limit allows.
BranchBusy(c) ==
    /\ copy[c].stage = "copying" /\ copy[c].kind = "branch"
    /\ Set(c, IF copy[c].depth < MaxBranchDepth THEN [copy[c] EXCEPT !.depth = @ + 1] ELSE Fresh)
    /\ UNCHANGED <<vars, payload, base, checkpoints>>

-----------------------------------------------------------------------------
Copying(c) ==
    \/ FindBusy(c) \/ Confirm(c) \/ ReplaySource(c) \/ Fork(c)
    \/ CopyFails(c) \/ Copied(c) \/ BranchBusy(c)

BranchNext == Turn \/ Checkpoint \/ \E c \in Copies : Copying(c)

BranchSpec == BranchInit /\ [][BranchNext]_allVars

-----------------------------------------------------------------------------
In(t, events) == \E i \in DOMAIN events : events[i].turn = t
OwnIn(t, events) == \E i \in DOMAIN events : events[i].turn = t /\ events[i].kind # "report"
EndsIn(t, events) == \E i \in DOMAIN events : events[i].turn = t /\ events[i].kind \in Terminal

\* Turn t has one terminal event, its last.
ClosedIn(t, events) ==
    LET ends == {i \in DOMAIN events : events[i].turn = t /\ events[i].kind \in Terminal} IN
    /\ ends # {}
    /\ \A i \in DOMAIN events, j \in ends : events[i].turn = t => i <= j

\* Not too much: a branch holds nothing of the turn that has the session when the
\* source is read, be it another than the one the prompt was told of.  The exceptions: the
\* turn it was told of has nothing of its own in the file, or was interrupted
\* before it wrote.
BranchSparesRunning ==
    \A c \in Copies :
        copy[c].stage = "named" /\ owner # NoTurn /\ In(owner, Kept(c))
            => ~ OwnIn(copy[c].named, Stored) \/ Interrupted(copy[c].named)

\* Not too little: it keeps every event of their own of the turns that were over when the prompt
\* came, as far as a checkpoint has left them in the file, provided that the payload
\* named the holder then (a new holder's file may still name the last one).
BranchKeepsEnded ==
    \A c \in Copies :
        copy[c].stage = "named" /\ copy[c].current
            => \A i \in DOMAIN Stored :
                  Stored[i].kind # "report" /\ Stored[i].turn \in copy[c].over
                      /\ ~ Interrupted(Stored[i].turn) => i \in DOMAIN Kept(c)

\* The branch of a busy session is cut where the turn that keeps it busy begins,
\* whichever turns end, begin or are interrupted between the look at the lock and
\* the read of the log (branch.rs:82-101).
BranchExact == BranchSparesRunning /\ BranchKeepsEnded

\* Not too much: what a fork accepts is whole turns (openspec/specs/session-fork/spec.md:13).
\* Only beside an interrupted turn, whose task may end it once more within the
\* next one, can a part of a turn be taken for stable.
ForkWhole ==
    \A point \in Points(Stored) : Accepts(Stored, point) =>
        LET prefix == UpTo(Stored, point) IN
        \A t \in Turns :
            OwnIn(t, prefix) /\ ~ EndsIn(t, prefix) => \E u \in Turns : In(u, prefix) /\ Interrupted(u)

\* Not too little: a fork from the latest point succeeds, and has every event but those of the
\* turn that runs (session-fork/spec.md:26-34), if the turns before it are done
\* with writing, each with one terminal event and nothing after it, and none of
\* them wrote within the turn that runs.
ForkLatest ==
    LET point == LatestPoint(Stored)
        before == {t \in Turns \ {owner} : In(t, Stored)} IN
    /\ point >= 0
    /\ \A t \in before : pc[t] \in Ended \cup {"completed"} /\ ClosedIn(t, Stored)
    /\ \A i, j \in DOMAIN Stored : i < j /\ Stored[i].turn = owner => Stored[j].turn = owner
    => /\ Accepts(Stored, point)
       /\ \A i \in DOMAIN Stored : i > point => Stored[i].turn = owner

\* A fork is a stable prefix of a log that goes on growing (fork.rs:155-210).
ForkExact == ForkWhole /\ ForkLatest
=============================================================================
