--------------------------- MODULE ContextWindow ---------------------------
(***************************************************************************)
(* The passes that make a request out of the messages of a turn            *)
(* (context-window/src): the budget of the tool results that have just     *)
(* come back, the micro compaction after an idle gap, the prune pass, and  *)
(* the pieces of the compaction by the model.  Each is a function of the   *)
(* messages; RuntimeLoop takes them in the order of the code.              *)
(*                                                                         *)
(* Bytes and tokens are one weight per message.                            *)
(***************************************************************************)
EXTENDS HistoryProjection, Selection

CONSTANTS
    Budget,      \* aggregate_result_bytes_budget
    ResultMax,   \* tool_result_max_bytes
    Threshold,   \* threshold_tokens of a prompt snapshot
    Window,      \* effective window of a compact request
    KeepTurns,   \* compact_keep_recent_turns
    KeepUsers,   \* compact_keep_recent_user_messages
    KeepResults  \* micro_compact_keep_recent_results

ASSUME ContextSettings ==
    /\ {Budget, Threshold, Window, KeepTurns} \subseteq Nat
    /\ {ResultMax, KeepUsers, KeepResults} \subseteq Nat \ {0}

Weight == [small |-> 1, big |-> 3, truncated |-> 2, cleared |-> 1,
           micro |-> 1, persisted |-> 1]
MessageWeight(m) == IF IsTool(m) THEN Weight[m.form] ELSE 1
TotalWeight(ms) == FoldLeft(LAMBDA sum, m : sum + MessageWeight(m), 0, ms)
ShouldCompact(ms) == TotalWeight(ms) >= Threshold

Clearable(call) == call.tool = "read"
AtLeast1(n) == IF n = 0 THEN 1 ELSE n

-----------------------------------------------------------------------------
(* The budget of the trailing batch of tool results.                       *)
TrailingBatch(ms) == {i \in DOMAIN ms : \A j \in i..Len(ms) : IsTool(ms[j])}

Reapplied(ms, replaced) ==
    [i \in DOMAIN ms |-> IF i \in TrailingBatch(ms) /\ ms[i].call \in replaced
                         THEN [ms[i] EXCEPT !.form = "persisted"] ELSE ms[i]]

FreshResults(ms, replaced, frozen) ==
    {i \in TrailingBatch(ms) : /\ ms[i].call \notin replaced \cup frozen
                               /\ ms[i].form # "persisted"}
BatchWeight(ms) == TotalWeight(SelectSeq(ms, IsTool)) - TotalWeight(
    SelectSeq(SubSeq(ms, 1, Len(ms) - Cardinality(TrailingBatch(ms))), IsTool))

Larger(ms, i, j) ==
    \/ MessageWeight(ms[i]) > MessageWeight(ms[j])
    \/ MessageWeight(ms[i]) = MessageWeight(ms[j]) /\ i <= j
LargestFirst(ms, S) ==
    [k \in 1..Cardinality(S) |->
        CHOOSE i \in S : Cardinality({j \in S : Larger(ms, j, i)}) = k]

(* The calls whose results are written to files now, largest first until   *)
(* the batch fits.                                                         *)
PersistedNow(ms, replaced, frozen) ==
    LET order == LargestFirst(ms, FreshResults(ms, replaced, frozen))
        left[k \in 0..Len(order)] ==
            IF k = 0 THEN BatchWeight(ms)
            ELSE left[k - 1] - Weight[ms[order[k]].form] + Weight["persisted"]
        moved == {k \in DOMAIN order : left[k - 1] > Budget}
    IN  [k \in 1..Cardinality(moved) |-> ms[order[k]].call]

Frozen(ms, replaced, frozen, now) ==
    IF BatchWeight(ms) <= Budget THEN frozen
    ELSE frozen \cup ({ms[i].call : i \in FreshResults(ms, replaced, frozen)} \ Range(now))

-----------------------------------------------------------------------------
(* MicroCompactState: [tracked, activity], tracked the calls with results, *)
(* oldest first, each with whether its record is older than the gap.       *)
SeedMicro(ms, gap) ==
    [tracked |-> [k \in 1..Len(SelectSeq(ms, IsTool)) |->
                     [call |-> SelectSeq(ms, IsTool)[k].call, old |-> TRUE]],
     activity |-> IF \E i \in DOMAIN ms : ms[i].kind # "user"
                  THEN (IF gap THEN "stale" ELSE "recent") ELSE "none"]

RecordResult(micro, call) ==
    [tracked |-> Append(SelectSeq(micro.tracked, LAMBDA e : e.call # call),
                        [call |-> call, old |-> FALSE]),
     activity |-> "recent"]

RetainLive(micro, ms) ==
    [micro EXCEPT !.tracked = SelectSeq(@, LAMBDA e :
        \E i \in DOMAIN ms : IsTool(ms[i]) /\ ms[i].call = e.call)]

ApplyIfIdle(micro, ms) ==
    LET tracked == RetainLive(micro, ms).tracked
        stale == {tracked[k].call : k \in {j \in 1..(Len(tracked) - KeepResults) :
                     /\ tracked[j].old
                     /\ tracked[j].call \in CallsNamed(ms)
                     /\ Clearable(tracked[j].call)}}
    IN  IF micro.activity # "stale" THEN ms
        ELSE [i \in DOMAIN ms |-> IF IsTool(ms[i]) /\ ms[i].call \in stale
                                  THEN [ms[i] EXCEPT !.form = "micro"] ELSE ms[i]]

-----------------------------------------------------------------------------
(* apply_prune_pass: results that are too large are cut, those of          *)
(* clearable tools before the recent turns are cleared.                    *)
Pruned(m, old, named) ==
    IF ~IsTool(m) THEN m
    ELSE IF old /\ m.call \in named /\ Clearable(m.call) THEN [m EXCEPT !.form = "cleared"]
    ELSE IF Weight[m.form] > ResultMax THEN [m EXCEPT !.form = "truncated"]
    ELSE m

ApplyPrune(ms) ==
    [i \in DOMAIN ms |->
        Pruned(ms[i], i < RecentTurnStart(ms, AtLeast1(KeepTurns)), CallsNamed(ms))]

-----------------------------------------------------------------------------
(* The compaction by the model.  Positions count from 1, so keep_start is  *)
(* one less than KeepStart, and KeepStart = 0 says that nothing is split.  *)
PreservedTurns == AtLeast1(IF KeepTurns > KeepUsers THEN KeepTurns ELSE KeepUsers)

UnitStarts(ms) == RealUsers(ms) \cup {i \in DOMAIN ms : ms[i].kind = "assistant"}

FallbackKeepStart(ms) ==
    LET steps == {i \in DOMAIN ms : i > 1 /\ ms[i].kind = "assistant"}
    IN  IF steps = {} THEN 0 ELSE NthFromEnd(steps, 1)

KeepStart(ms) ==
    LET users == RealUsers(ms)
        primary == IF Cardinality(users) < PreservedTurns THEN 0
                   ELSE NthFromEnd(users, PreservedTurns)
    IN  IF primary > 1 THEN primary ELSE FallbackKeepStart(ms)

RecentUsers(ms) ==
    LET users == RealUsers(ms)
        last == {i \in users : Cardinality({j \in users : j >= i}) <= KeepUsers}
    IN  [k \in 1..Cardinality(last) |->
            LET i == NthFromEnd(last, Cardinality(last) + 1 - k)
            IN  [index |-> i, n |-> ms[i].n]]

CompactInput(ms) ==
    SelectSeq(ms, LAMBDA m : m.kind # "user" \/ m.origin = "User")

Fits(ms) == TotalWeight(CompactInput(ms)) <= Window

(* mutant: cuts at the first boundary instead of the second *)
DropOldestUnit_AtFirst(prefix) ==
    LET starts == UnitStarts(prefix)
    IN  IF Cardinality(starts) < 2 THEN <<>>
        ELSE SubSeq(prefix, NthFromEnd(starts, Cardinality(starts)), Len(prefix))

(* Empty where drop_oldest_compaction_unit returns false.                  *)
DropOldestUnit(prefix) ==
    LET starts == UnitStarts(prefix)
    IN  IF Cardinality(starts) < 2 THEN <<>>
        ELSE SubSeq(prefix, NthFromEnd(starts, Cardinality(starts) - 1), Len(prefix))

(* mutant: the prompts put in front are not taken out of the suffix *)
CompactedMessages_Twice(users, keepStart, suffix, digest) ==
    <<Summary>>
    \o (IF digest THEN <<UserMsg("RecentUserContextDigest", 0)>> ELSE <<>>)
    \o [k \in DOMAIN users |-> UserMsg("RecentUserContext", users[k].n)]
    \o suffix

CompactedMessages(users, keepStart, suffix, digest) ==
    LET again == {o \in DOMAIN suffix :
                     /\ IsRealUser(suffix[o])
                     /\ \E k \in DOMAIN users : users[k].index = keepStart + o - 1}
    IN  <<Summary>>
        \o (IF digest THEN <<UserMsg("RecentUserContextDigest", 0)>> ELSE <<>>)
        \o [k \in DOMAIN users |-> UserMsg("RecentUserContext", users[k].n)]
        \o Selected(suffix, DOMAIN suffix \ again)
=============================================================================
