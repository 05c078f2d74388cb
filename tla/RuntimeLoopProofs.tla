-------------------------- MODULE RuntimeLoopProofs --------------------------
(***************************************************************************)
(* The event sink of the runtime loop has every event once, and the log    *)
(* has the events of a tool call in their order: for every bound, every    *)
(* setting of the context window and every answer of hooks, model and      *)
(* tools                                                                   *)
(* (agent-runtime/src/loop.rs); what the projector rebuilds from the log   *)
(* of a turn without compaction forgets nothing of the turn; the prompt of *)
(* a turn is in its requests once, compacted or not; and a result that has *)
(* been moved to a file is not sent in full again.                         *)
(***************************************************************************)
EXTENDS RuntimeLoop, FiniteSetTheorems, SequenceTheorems, WellFoundedInduction, TLAPS

\* The actions by the part of the loop they belong to.
Hooks == (\E n \in 0..1 : HookGoesOn(n)) \/ HookCancels \/ HookBlocks
Requests == CheckProvider \/ Assemble \/ ProviderHookContinues \/ ProviderHookStops
Compaction ==
    \/ BeforeCompact \/ CompactHookCancels \/ CompactHookSummarises \/ CompactHookFails
    \/ Trim \/ Summarised \/ SummaryViolatesContract \/ SummaryTooLong \/ SummaryFails
Reply == ReplyText \/ ReplyTools \/ ReplyTooLong \/ ReplyFails
ToolCalls ==
    \/ CallAllowed \/ CallBlocked \/ CallStops
    \/ ToolSends \/ (\E form \in Forms \cup {"error"} : ReturnsAs(form))
    \/ DeltaReceived \/ AllReturned
    \/ ResultRecorded \/ ResultHookStops \/ ToolCycleCompleted

GhostFields == {"calls", "prompts", "loose", "inexact", "compacted"}
Shape == ghost = [f \in GhostFields |-> ghost[f]]

\* Changes of the ghost leave its fields alone.
LEMMA Reshaped ==
    ASSUME Shape, NEW f \in GhostFields, NEW v, ghost' = [ghost EXCEPT ![f] = v]
    PROVE  Shape'
  BY DEF Shape, GhostFields

LEMMA GroupsCover ==
    Step \/ Upset => Hooks \/ Requests \/ Compaction \/ Reply \/ ToolCalls
  <1>1. HookContinues \/ HookAugments => Hooks
    BY DEF HookContinues, HookAugments, Hooks
  <1>2. ToolReturns \/ ToolFails => ToolCalls
    BY DEF ToolReturns, ToolFails, ToolCalls
  <1> QED
    BY <1>1, <1>2 DEF Step, Upset, Hooks, Requests, Compaction, Reply, ToolCalls

\* What the fields of the ghost are, whatever the step.
LEMMA ShapeKept == ASSUME Shape, Next PROVE Shape'
  <1>1. CASE NewTurn
    BY <1>1 DEF NewTurn, Shape, GhostFields
  <1>2. CASE Hooks
    <2>1. PICK n \in 0..1 : HookPrompts(n)
      BY <1>2 DEF Hooks, HookGoesOn, HookCancels, HookBlocks
    <2> QED
      BY <2>1 DEF HookPrompts, Shape, GhostFields
  <1>3. CASE Requests
    BY <1>3 DEF Requests, CheckProvider, Assemble, ProviderHookContinues, ProviderHookStops, Shape
  <1>4. CASE Compaction
    <2>1. CASE CompactHookSummarises
      BY <2>1 DEF CompactHookSummarises, Compacted, Shape, GhostFields
    <2>2. CASE Summarised
      BY <2>2 DEF Summarised, Compacted, Shape, GhostFields
    <2>3. CASE ~ CompactHookSummarises /\ ~ Summarised
      BY <1>4, <2>3 DEF Compaction, BeforeCompact, CompactHookCancels, CompactHookFails, Trim,
                        SummaryViolatesContract, SummaryTooLong, SummaryFails, Shape
    <2> QED
      BY <2>1, <2>2, <2>3
  <1>5. CASE Reply
    <2>1. CASE \E n : Replied(n)
      BY <2>1 DEF Replied, Shape, GhostFields
    <2>2. CASE ReplyTooLong \/ ReplyFails
      BY <2>2 DEF ReplyTooLong, ReplyFails, Shape
    <2> QED
      BY <1>5, <2>1, <2>2 DEF Reply, ReplyText, ReplyTools
  <1>6. CASE ToolCalls
    <2>1. CASE CallAllowed \/ CallBlocked \/ ResultRecorded
      <3>1. \E loose : ghost' = [ghost EXCEPT !["loose"] = loose]
        BY <2>1 DEF CallAllowed, CallBlocked, ResultRecorded
      <3> QED
        BY <3>1, Reshaped DEF GhostFields
    <2>2. CASE ~ (CallAllowed \/ CallBlocked \/ ResultRecorded)
      BY <1>6, <2>2 DEF ToolCalls, CallStops, ToolSends, ReturnsAs, DeltaReceived, AllReturned,
                        ResultHookStops, ToolCycleCompleted, Shape
    <2> QED
      BY <2>1, <2>2
  <1>7. CASE Rest
    BY <1>7 DEF Rest, vars, Shape
  <1> QED
    BY <1>1, <1>2, <1>3, <1>4, <1>5, <1>6, <1>7, GroupsCover DEF Next

-----------------------------------------------------------------------------
\* Places and ranks: what Selected takes from a list.

\* The places that are kept, counted from the first.
LEMMA Ranks ==
    ASSUME NEW n \in Nat, NEW K \in SUBSET (1..n)
    PROVE  /\ Cardinality(K) \in Nat
           /\ \A k \in K : Rank(K, k) \in 1..Cardinality(K)
           /\ \A j, k \in K : Rank(K, j) = Rank(K, k) => j = k
           /\ \A i \in 1..Cardinality(K) : \E k \in K : Rank(K, k) = i
  <1> DEFINE Upto(k) == {j \in K : j <= k}
  <1>0. IsFiniteSet(1..n)
    BY FS_Interval
  <1>1. IsFiniteSet(K) /\ Cardinality(K) \in Nat
    BY <1>0, FS_Subset, FS_CardinalityType
  <1>2. \A k \in K : IsFiniteSet(Upto(k)) /\ Cardinality(Upto(k)) \in Nat
                     /\ Cardinality(Upto(k)) <= Cardinality(K)
    <2> SUFFICES ASSUME NEW k \in K PROVE IsFiniteSet(Upto(k)) /\ Cardinality(Upto(k)) \in Nat
                     /\ Cardinality(Upto(k)) <= Cardinality(K)
      OBVIOUS
    <2>1. Upto(k) \in SUBSET K
      OBVIOUS
    <2> HIDE DEF Upto
    <2> QED
      BY <1>1, <2>1, FS_Subset, FS_CardinalityType
  <1>3. \A k \in K : Cardinality(Upto(k)) # 0
    <2> TAKE k \in K
    <2>1. k \in Upto(k)
      OBVIOUS
    <2> HIDE DEF Upto
    <2> QED
      BY <1>2, <2>1, FS_EmptySet
  <1>4. \A j, k \in K : j < k => Cardinality(Upto(j)) # Cardinality(Upto(k))
    <2> SUFFICES ASSUME NEW j \in K, NEW k \in K, j < k, Cardinality(Upto(j)) = Cardinality(Upto(k))
                 PROVE FALSE
      OBVIOUS
    <2>1. \A i \in K : i \in Int
      OBVIOUS
    <2>2. Upto(j) \subseteq Upto(k)
      <3> SUFFICES ASSUME NEW i \in K, i <= j PROVE i <= k
        OBVIOUS
      <3> QED
        BY <2>1
    <2>3. k \in Upto(k) /\ k \notin Upto(j)
      BY <2>1
    <2> HIDE DEF Upto
    <2>4. Upto(k) = Upto(j)
      BY <1>2, <2>2, FS_Subset
    <2> QED
      BY <2>3, <2>4
  <1>5. \A j, k \in K : Cardinality(Upto(j)) = Cardinality(Upto(k)) => j = k
    BY <1>4
  <1>6. \A k \in K : Rank(K, k) = Cardinality(Upto(k))
    BY DEF Rank
  <1> HIDE DEF Upto
  <1> DEFINE f == [k \in K |-> Rank(K, k)]
  <1>7. \A k \in K : Rank(K, k) \in 1..Cardinality(K)
    BY <1>1, <1>2, <1>3, <1>6
  <1>8. \A j, k \in K : Rank(K, j) = Rank(K, k) => j = k
    BY <1>5, <1>6
  <1>9. f \in Injection(K, 1..Cardinality(K))
    BY <1>7, <1>8 DEF Injection, IsInjective
  <1>10. IsFiniteSet(1..Cardinality(K)) /\ Cardinality(1..Cardinality(K)) = Cardinality(K)
    BY <1>1, FS_Interval
  <1>11. f \in Surjection(K, 1..Cardinality(K))
    BY <1>9, <1>10, FS_Injection
  <1>12. \A i \in 1..Cardinality(K) : \E k \in K : f[k] = i
    BY <1>11 DEF Surjection
  <1> QED
    BY <1>1, <1>7, <1>8, <1>12


\* The n-th place from the end is one of them, and has n that are not before it.
LEMMA FromEnd ==
    ASSUME NEW N \in Nat, NEW S \in SUBSET (1..N), NEW n \in 1..Cardinality(S)
    PROVE  /\ NthFromEnd(S, n) \in S
           /\ Cardinality({j \in S : j >= NthFromEnd(S, n)}) = n
  <1>1. /\ Cardinality(S) \in Nat
        /\ \A i \in 1..Cardinality(S) : \E k \in S : Rank(S, k) = i
    BY Ranks
  <1> DEFINE c == Cardinality(S)
  <1>2. c \in Nat /\ n \in 1..c /\ c - n + 1 \in 1..c
    BY <1>1
  <1>3. PICK i \in S : Rank(S, i) = c - n + 1
    BY <1>1, <1>2
  <1> DEFINE upto == {j \in S : j <= i}
             from == {j \in S : j >= i}
  <1>4. IsFiniteSet(S) /\ IsFiniteSet(upto) /\ IsFiniteSet(from)
    <2>1. IsFiniteSet(1..N)
      BY FS_Interval
    <2>2. upto \in SUBSET S /\ from \in SUBSET S
      OBVIOUS
    <2> HIDE DEF upto, from
    <2> QED BY <2>1, <2>2, FS_Subset
  <1>5. upto \cup from = S /\ upto \cap from = {i}
    <2>1. \A j \in S : j \in Int /\ i \in Int
      OBVIOUS
    <2>2. \A j \in S : (j <= i \/ j >= i) /\ (j <= i /\ j >= i <=> j = i)
      BY <2>1
    <2> QED BY <2>2
  <1>6. Cardinality(upto \cup from) = Cardinality(upto) + Cardinality(from) - Cardinality(upto \cap from)
    <2> HIDE DEF upto, from
    <2> QED BY <1>4, FS_Union
  <1>7. Cardinality({i}) = 1 /\ Cardinality(upto) = c - n + 1 /\ Cardinality(from) \in Nat
    <2>1. Cardinality({i}) = 1
      BY FS_Singleton
    <2>2. Cardinality(upto) = c - n + 1
      BY <1>3 DEF Rank
    <2> HIDE DEF from
    <2> QED BY <1>4, <2>1, <2>2, FS_CardinalityType
  <1>8. Cardinality(from) = n
    <2> HIDE DEF upto, from
    <2> DEFINE a == Cardinality(upto)
               b == Cardinality(from)
               d == Cardinality({i})
    <2>1. c = a + b - d
      BY <1>5, <1>6
    <2>2. d = 1 /\ a = c - n + 1 /\ b \in Nat
      BY <1>7
    <2> HIDE DEF a, b, c, d
    <2>3. b = n
      BY <1>2, <2>1, <2>2
    <2> QED BY <2>3 DEF b
  <1>9. \E k \in S : Cardinality({j \in S : j >= k}) = n
    BY <1>8
  <1> QED BY <1>9 DEF NthFromEnd

-----------------------------------------------------------------------------
\* Lists: sequences whose elements need not be of one set.

\* A sequence, whatever it is a sequence of.
IsList(q) == \E n \in Nat : q = [k \in 1..n |-> q[k]]

\* What a list is for the facts of the library about sequences.
LEMMA ListIs ==
    ASSUME NEW q, IsList(q)
    PROVE  /\ Len(q) \in Nat /\ DOMAIN q = 1..Len(q) /\ q \in Seq({q[k] : k \in DOMAIN q})
           /\ IsFiniteSet(DOMAIN q)
  <1>1. PICK n \in Nat : q = [k \in 1..n |-> q[k]]
    BY DEF IsList
  <1> DEFINE S == {q[k] : k \in DOMAIN q}
  <1>2. DOMAIN q = 1..n
    BY <1>1
  <1>3. q \in [1..n -> S]
    BY <1>1, <1>2
  <1> HIDE DEF S
  <1>4. q \in Seq(S)
    BY <1>3, SeqDef
  <1>5. Len(q) \in Nat /\ DOMAIN q = 1..Len(q)
    BY <1>4, LenProperties
  <1>6. IsFiniteSet(DOMAIN q)
    BY <1>5, FS_Interval
  <1> QED BY <1>4, <1>5, <1>6 DEF S

\* A function on 1..n is a list.
LEMMA ListMade == ASSUME NEW n \in Nat, NEW q, q = [k \in 1..n |-> q[k]] PROVE IsList(q)
  BY DEF IsList

\* A sequence is a list.
LEMMA SeqIsList == ASSUME NEW S, NEW q \in Seq(S) PROVE IsList(q)
  BY SeqDef DEF IsList

\* Two lists in a row.
LEMMA Joined ==
    ASSUME NEW a, NEW b, IsList(a), IsList(b)
    PROVE  /\ IsList(a \o b) /\ Len(a \o b) = Len(a) + Len(b) /\ DOMAIN (a \o b) = 1..(Len(a) + Len(b))
           /\ \A k \in 1..Len(a) : (a \o b)[k] = a[k]
           /\ \A k \in 1..Len(b) : (a \o b)[Len(a) + k] = b[k]
           /\ \A k \in 1..(Len(a) + Len(b)) : k \in 1..Len(a) \/ \E j \in 1..Len(b) : k = Len(a) + j
           /\ Len(a) \in Nat /\ Len(b) \in Nat
  <1> DEFINE S == {a[k] : k \in DOMAIN a} \cup {b[k] : k \in DOMAIN b}
  <1>1. /\ Len(a) \in Nat /\ DOMAIN a = 1..Len(a) /\ Len(b) \in Nat /\ DOMAIN b = 1..Len(b)
    BY ListIs
  <1>2. a \in Seq(S) /\ b \in Seq(S)
    <2>1. PICK n \in Nat : a = [k \in 1..n |-> a[k]]
      BY DEF IsList
    <2>2. PICK m \in Nat : b = [k \in 1..m |-> b[k]]
      BY DEF IsList
    <2>3. a \in [1..n -> S]
      BY <2>1
    <2>4. b \in [1..m -> S]
      BY <2>2
    <2> HIDE DEF S
    <2> QED BY <2>3, <2>4, SeqDef
  <1> HIDE DEF S
  <1>3. a \o b \in Seq(S) /\ Len(a \o b) = Len(a) + Len(b) /\ DOMAIN (a \o b) = 1..(Len(a) + Len(b))
    BY <1>2
  <1>4. \A k \in 1..Len(a) : (a \o b)[k] = a[k]
    BY <1>1, <1>2
  <1>5. \A k \in 1..Len(b) : (a \o b)[Len(a) + k] = b[k]
    BY <1>1, <1>2
  <1>6. ASSUME NEW k \in 1..(Len(a) + Len(b)), k \notin 1..Len(a) PROVE \E j \in 1..Len(b) : k = Len(a) + j
    <2>1. k - Len(a) \in 1..Len(b) /\ k = Len(a) + (k - Len(a))
      BY <1>1, <1>6
    <2> QED BY <2>1
  <1> QED BY <1>1, <1>3, <1>4, <1>5, <1>6, SeqIsList

\* A list and one element.
LEMMA Appended ==
    ASSUME NEW a, IsList(a), NEW x
    PROVE  /\ Append(a, x) = a \o <<x>> /\ IsList(Append(a, x)) /\ IsList(<<x>>)
  <1> DEFINE S == {a[k] : k \in DOMAIN a} \cup {x}
  <1>1. a \in Seq(S)
    <2>1. PICK n \in Nat : a = [k \in 1..n |-> a[k]]
      BY DEF IsList
    <2>2. a \in [1..n -> S]
      BY <2>1
    <2> HIDE DEF S
    <2> QED BY <2>2, SeqDef
  <1>2. x \in S
    OBVIOUS
  <1> HIDE DEF S
  <1>3. Append(a, x) = a \o <<x>> /\ Append(a, x) \in Seq(S) /\ <<x>> \in Seq(S)
    BY <1>1, <1>2
  <1> QED BY <1>3, SeqIsList

\* One element, and none.
LEMMA Single == ASSUME NEW x PROVE IsList(<<x>>) /\ IsList(<< >>) /\ Len(<<x>>) = 1 /\ Len(<< >>) = 0
                                   /\ DOMAIN <<x>> = {1} /\ DOMAIN << >> = {} /\ <<x>>[1] = x
  <1>1. <<x>> \in Seq({x}) /\ << >> \in Seq({x})
    OBVIOUS
  <1>2. IsList(<<x>>) /\ IsList(<< >>)
    BY <1>1, SeqIsList
  <1>3. Len(<<x>>) = 1 /\ Len(<< >>) = 0 /\ DOMAIN <<x>> = {1} /\ DOMAIN << >> = {} /\ <<x>>[1] = x
    OBVIOUS
  <1> QED BY <1>2, <1>3

\* How many elements of a list are in a set.
Count(P, q) == Cardinality({k \in DOMAIN q : q[k] \in P})

\* A count is a number.
LEMMA CountIsNat == ASSUME NEW P, NEW q, IsList(q) PROVE Count(P, q) \in Nat /\ Count(P, q) <= Len(q)
  <1> DEFINE K == {k \in DOMAIN q : q[k] \in P}
  <1>1. IsFiniteSet(1..Len(q)) /\ Cardinality(1..Len(q)) = Len(q) /\ Len(q) \in Nat
    <2>1. Len(q) \in Nat
      BY ListIs
    <2>2. Cardinality(1..Len(q)) = Len(q) - 1 + 1 \/ Len(q) = 0
      BY <2>1, FS_Interval
    <2>3. Cardinality({}) = 0
      BY FS_EmptySet
    <2>4. Len(q) = 0 => 1..Len(q) = {}
      BY <2>1
    <2>5. IsFiniteSet(1..Len(q))
      BY <2>1, FS_Interval
    <2> QED BY <2>1, <2>2, <2>3, <2>4, <2>5
  <1>2. K \in SUBSET (1..Len(q))
    BY ListIs
  <1> HIDE DEF K
  <1>3. Cardinality(K) \in Nat /\ Cardinality(K) <= Len(q)
    BY <1>1, <1>2, FS_Subset, FS_CardinalityType
  <1> QED BY <1>3 DEF K, Count

\* The counts of two lists add up.
LEMMA CountJoined ==
    ASSUME NEW P, NEW a, NEW b, IsList(a), IsList(b)
    PROVE  Count(P, a \o b) = Count(P, a) + Count(P, b)
  <1> DEFINE n == Len(a)
             A == {k \in DOMAIN a : a[k] \in P}
             B == {k \in DOMAIN b : b[k] \in P}
             M == {n + k : k \in B}
             C == {k \in DOMAIN (a \o b) : (a \o b)[k] \in P}
  <1>1. /\ n \in Nat /\ Len(b) \in Nat /\ DOMAIN a = 1..n /\ DOMAIN b = 1..Len(b)
        /\ DOMAIN (a \o b) = 1..(n + Len(b))
        /\ \A k \in 1..n : (a \o b)[k] = a[k]
        /\ \A k \in 1..Len(b) : (a \o b)[n + k] = b[k]
        /\ \A k \in 1..(n + Len(b)) : k \in 1..n \/ \E j \in 1..Len(b) : k = n + j
        /\ IsFiniteSet(DOMAIN a) /\ IsFiniteSet(DOMAIN b)
    <2>1. /\ n \in Nat /\ Len(b) \in Nat
          /\ DOMAIN (a \o b) = 1..(n + Len(b))
          /\ \A k \in 1..n : (a \o b)[k] = a[k]
          /\ \A k \in 1..Len(b) : (a \o b)[n + k] = b[k]
          /\ \A k \in 1..(n + Len(b)) : k \in 1..n \/ \E j \in 1..Len(b) : k = n + j
      BY Joined
    <2>2. DOMAIN a = 1..n /\ DOMAIN b = 1..Len(b) /\ IsFiniteSet(DOMAIN a) /\ IsFiniteSet(DOMAIN b)
      BY ListIs
    <2> QED BY <2>1, <2>2
  <1> HIDE DEF n
  <1>2. C = A \cup M
    <2>1. ASSUME NEW k \in C PROVE k \in A \cup M
      BY <1>1, <2>1
    <2>2. ASSUME NEW k \in A PROVE k \in C
      <3>1. k \in 1..(n + Len(b))
        BY <1>1, <2>2
      <3> QED BY <1>1, <2>2, <3>1
    <2>3. ASSUME NEW k \in B PROVE n + k \in C
      <3>1. n + k \in 1..(n + Len(b))
        BY <1>1, <2>3
      <3> QED BY <1>1, <2>3, <3>1
    <2> QED BY <2>1, <2>2, <2>3
  <1>3. A \cap M = {}
    BY <1>1
  <1>4. IsFiniteSet(A) /\ IsFiniteSet(B)
    <2>1. A \in SUBSET DOMAIN a /\ B \in SUBSET DOMAIN b
      OBVIOUS
    <2> HIDE DEF A, B
    <2> QED BY <1>1, <2>1, FS_Subset
  <1>5. IsFiniteSet(M) /\ Cardinality(M) = Cardinality(B)
    <2> DEFINE f == [k \in B |-> n + k]
    <2>1. f \in Bijection(B, M)
      <3>1. f \in [B -> M]
        OBVIOUS
      <3>2. \A j, k \in B : f[j] = f[k] => j = k
        BY <1>1
      <3>3. \A m \in M : \E k \in B : f[k] = m
        OBVIOUS
      <3> QED BY <3>1, <3>2, <3>3 DEF Bijection, Injection, Surjection, IsInjective
    <2>2. ExistsBijection(B, M)
      BY <2>1 DEF ExistsBijection
    <2> HIDE DEF B, M
    <2> QED BY <1>4, <2>2, FS_Bijection
  <1>6. Cardinality(A \cup M) = Cardinality(A) + Cardinality(M) - Cardinality(A \cap M)
    <2> HIDE DEF A, M
    <2> QED BY <1>4, <1>5, FS_Union
  <1>7. Cardinality(A \cap M) = 0 /\ Cardinality(A) \in Nat /\ Cardinality(M) \in Nat
    <2>1. Cardinality({}) = 0
      BY FS_EmptySet
    <2> HIDE DEF A, M
    <2> QED BY <1>3, <1>4, <1>5, <2>1, FS_CardinalityType
  <1>8. Cardinality(C) = Cardinality(A) + Cardinality(B)
    <2> HIDE DEF A, M, B, C
    <2> QED BY <1>2, <1>5, <1>6, <1>7
  <1> QED BY <1>8 DEF Count

\* The same among the places K.
CountAt(P, q, K) == Cardinality({k \in K : q[k] \in P})

\* What is selected is counted at its places.
LEMMA CountSelected ==
    ASSUME NEW P, NEW q, IsList(q), NEW K \in SUBSET DOMAIN q
    PROVE  /\ IsList(Selected(q, K)) /\ Len(Selected(q, K)) = Cardinality(K)
           /\ Count(P, Selected(q, K)) = CountAt(P, q, K)
           /\ \A i \in DOMAIN Selected(q, K) : \E k \in K : Selected(q, K)[i] = q[k]
  <1> DEFINE s == Selected(q, K)
             A == {k \in K : q[k] \in P}
             B == {i \in DOMAIN s : s[i] \in P}
  <1>1. DOMAIN q = 1..Len(q) /\ Len(q) \in Nat
    BY ListIs
  <1>2. /\ Cardinality(K) \in Nat
        /\ \A k \in K : Rank(K, k) \in 1..Cardinality(K)
        /\ \A j, k \in K : Rank(K, j) = Rank(K, k) => j = k
        /\ \A i \in 1..Cardinality(K) : \E k \in K : Rank(K, k) = i
    BY <1>1, Ranks
  <1>3. DOMAIN s = 1..Cardinality(K) /\ IsList(s)
    <2>1. s = [i \in 1..Cardinality(K) |-> s[i]]
      BY DEF Selected
    <2>2. DOMAIN s = 1..Cardinality(K)
      BY DEF Selected
    <2> HIDE DEF s
    <2> QED BY <1>2, <2>1, <2>2, ListMade
  <1>4. \A k \in K : s[Rank(K, k)] = q[k]
    <2> TAKE k \in K
    <2>1. s[Rank(K, k)] = q[CHOOSE j \in K : Rank(K, j) = Rank(K, k)]
      BY <1>2 DEF Selected
    <2>2. (CHOOSE j \in K : Rank(K, j) = Rank(K, k)) = k
      BY <1>2
    <2> QED BY <2>1, <2>2
  <1> HIDE DEF s
  <1>5. Len(s) = Cardinality(K)
    <2>1. Len(s) \in Nat /\ 1..Len(s) = 1..Cardinality(K)
      BY <1>3, ListIs
    <2> DEFINE m == Len(s)
               n == Cardinality(K)
    <2>2. m \in Nat /\ n \in Nat /\ 1..m = 1..n
      BY <1>2, <2>1
    <2> HIDE DEF m, n
    <2>3. m = n
      BY <2>2
    <2> QED BY <2>3 DEF m, n
  <1>6. Cardinality(B) = Cardinality(A)
    <2> DEFINE f == [k \in A |-> Rank(K, k)]
    <2>1. f \in Bijection(A, B)
      <3>1. f \in [A -> B]
        BY <1>2, <1>3, <1>4
      <3>2. \A j, k \in A : f[j] = f[k] => j = k
        BY <1>2
      <3>3. \A i \in B : \E k \in A : f[k] = i
        BY <1>2, <1>3, <1>4
      <3> QED BY <3>1, <3>2, <3>3 DEF Bijection, Injection, Surjection, IsInjective
    <2>2. ExistsBijection(A, B)
      BY <2>1 DEF ExistsBijection
    <2>3. IsFiniteSet(A)
      <3>1. IsFiniteSet(DOMAIN q) /\ A \in SUBSET DOMAIN q
        BY ListIs
      <3> HIDE DEF A
      <3> QED BY <3>1, FS_Subset
    <2> HIDE DEF A, B
    <2> QED BY <2>2, <2>3, FS_Bijection
  <1>7. \A i \in DOMAIN s : \E k \in K : s[i] = q[k]
    BY <1>2, <1>3, <1>4
  <1>8. Count(P, s) = CountAt(P, q, K)
    BY <1>6 DEF Count, CountAt
  <1> QED BY <1>3, <1>5, <1>7, <1>8 DEF s

-----------------------------------------------------------------------------
\* The projector stays a record with two lists, whatever it is given.

\* What the projector holds.
ProjSound(p) ==
  /\ p = [messages |-> p.messages, content |-> p.content, calls |-> p.calls]
  /\ IsList(p.messages) /\ IsList(p.calls)

\* The numbers of turns that a compaction keeps.
Proper(e) == e.type = "CompactApplied" => e.preserved \in Nat

\* The places of the messages of users.
LEMMA RealUsersIn ==
    ASSUME NEW ms, IsList(ms)
    PROVE  /\ RealUsers(ms) \in SUBSET (1..Len(ms)) /\ DOMAIN ms = 1..Len(ms) /\ Len(ms) \in Nat
           /\ Cardinality(RealUsers(ms)) \in Nat
           /\ RealUsers(ms) # {} => Cardinality(RealUsers(ms)) # 0
  <1>1. DOMAIN ms = 1..Len(ms) /\ Len(ms) \in Nat /\ IsFiniteSet(DOMAIN ms)
    BY ListIs
  <1>2. RealUsers(ms) \in SUBSET (1..Len(ms))
    BY <1>1 DEF RealUsers
  <1>3. IsFiniteSet(RealUsers(ms))
    BY <1>1, <1>2, FS_Subset
  <1> QED BY <1>1, <1>2, <1>3, FS_CardinalityType, FS_EmptySet

\* The end of a list, with a message before it.
LEMMA TailList ==
    ASSUME NEW ms, IsList(ms), NEW i \in 1..(Len(ms) + 1)
    PROVE  IsList(SubSeq(ms, i, Len(ms)))
  <1> DEFINE S == {ms[k] : k \in DOMAIN ms}
             n == Len(ms)
  <1>1. ms \in Seq(S) /\ n \in Nat /\ DOMAIN ms = 1..n
    BY ListIs
  <1>2. i \in Int /\ n \in Int /\ i >= 1
    BY <1>1
  <1>3. \A k \in i..n : ms[k] \in S
    <2>1. ASSUME NEW k \in i..n PROVE k \in 1..n
      BY <1>1, <1>2, <2>1
    <2> QED BY <1>1, <2>1
  <1> HIDE DEF S, n
  <1>4. SubSeq(ms, i, n) \in Seq(S)
    BY <1>2, <1>3, SubSeqProperties
  <1> QED BY <1>4, SeqIsList DEF n

\* A compaction cuts inside the history or at its end.
LEMMA RecentTurnStartIn ==
    ASSUME NEW ms, IsList(ms), NEW preserved \in Nat
    PROVE  RecentTurnStart(ms, preserved) \in 1..(Len(ms) + 1)
  <1> DEFINE users == RealUsers(ms)
             wanted == IF preserved = 0 THEN 1 ELSE preserved
             c == Cardinality(users)
             n == IF wanted > c THEN c ELSE wanted
  <1>1. users \in SUBSET (1..Len(ms)) /\ Len(ms) \in Nat /\ c \in Nat /\ (users # {} => c # 0)
    BY RealUsersIn
  <1>2. RecentTurnStart(ms, preserved) = IF users = {} THEN Len(ms) + 1 ELSE NthFromEnd(users, n)
    BY DEF RecentTurnStart
  <1>3. CASE users = {}
    BY <1>1, <1>2, <1>3
  <1>4. CASE users # {}
    <2>1. n \in 1..c
      <3>1. wanted \in Nat /\ wanted >= 1
        OBVIOUS
      <3> HIDE DEF users, c, wanted
      <3> QED BY <1>1, <1>4, <3>1
    <2> HIDE DEF users, n
    <2>2. NthFromEnd(users, n) \in users
      BY <1>1, <2>1, FromEnd
    <2>3. NthFromEnd(users, n) \in 1..(Len(ms) + 1)
      <3>1. \A i \in users : i \in 1..(Len(ms) + 1)
        BY <1>1
      <3> QED BY <2>2, <3>1
    <2> QED BY <1>2, <1>4, <2>3
  <1> QED BY <1>3, <1>4

\* What a compaction leaves is a list.
LEMMA CompactionList ==
    ASSUME NEW ms, IsList(ms), NEW preserved \in Nat, NEW removed
    PROVE  IsList(ApplyCompaction(ms, preserved, removed))
  <1> DEFINE start == RecentTurnStart(ms, preserved)
             gone == IF removed \in 1..Len(ms) THEN removed ELSE start - 1
  <1>1. start \in 1..(Len(ms) + 1) /\ Len(ms) \in Nat
    BY RecentTurnStartIn, ListIs
  <1> HIDE DEF start
  <1>2. gone + 1 \in 1..(Len(ms) + 1)
    BY <1>1
  <1>3. ApplyCompaction(ms, preserved, removed)
           = IF gone = 0 THEN ms ELSE <<Summary>> \o SubSeq(ms, gone + 1, Len(ms))
    BY DEF ApplyCompaction, start
  <1> HIDE DEF gone
  <1>4. IsList(SubSeq(ms, gone + 1, Len(ms)))
    BY <1>2, TailList
  <1>5. IsList(<<Summary>> \o SubSeq(ms, gone + 1, Len(ms)))
    BY <1>4, Single, Joined
  <1> QED BY <1>3, <1>5

\* Changes within a list.
LEMMA SameDomain ==
    ASSUME NEW a, NEW b, IsList(a), DOMAIN b = DOMAIN a, b = [k \in DOMAIN b |-> b[k]]
    PROVE  IsList(b)
  <1>1. DOMAIN a = 1..Len(a) /\ Len(a) \in Nat
    BY ListIs
  <1> QED BY <1>1, ListMade

\* A reference to a file changes one message of a list.
LEMMA ReferencedList == ASSUME NEW ms, IsList(ms), NEW call PROVE IsList(Referenced(ms, call))
  <1>1. DOMAIN Referenced(ms, call) = DOMAIN ms
        /\ Referenced(ms, call) = [k \in DOMAIN Referenced(ms, call) |-> Referenced(ms, call)[k]]
    <2> DEFINE at == {i \in DOMAIN ms : IsTool(ms[i]) /\ ms[i].call = call}
    <2>1. ms = [k \in DOMAIN ms |-> ms[k]]
      BY DEF IsList
    <2>2. CASE at = {}
      BY <2>1, <2>2 DEF Referenced
    <2>3. CASE at # {}
      <3>1. \E j, m : Referenced(ms, call) = [ms EXCEPT ![j] = m]
        BY <2>3 DEF Referenced
      <3> QED BY <3>1
    <2> QED BY <2>2, <2>3
  <1> QED BY <1>1, SameDomain

\* flush_pending keeps the projector.
LEMMA FlushSound == ASSUME NEW p, ProjSound(p) PROVE ProjSound(FlushPending(p))
  <1> DEFINE text == IF p.content = <<>> THEN 0 ELSE p.content[1]
             ms == Append(p.messages, AssistantMsg(text, p.calls))
  <1>1. IsList(ms) /\ IsList(<<>>)
    BY Appended, Single DEF ProjSound
  <1>2. FlushPending(p) = p \/ FlushPending(p) = [messages |-> ms, content |-> <<>>, calls |-> <<>>]
    BY DEF FlushPending
  <1> HIDE DEF ms
  <1> QED BY <1>1, <1>2 DEF ProjSound

\* An event keeps the projector.
LEMMA ApplySound ==
    ASSUME NEW p, ProjSound(p), NEW e, Proper(e)
    PROVE  ProjSound(ApplyEvent(p, e))
  <1> DEFINE f == FlushPending(p)
  <1>1. ProjSound(f)
    BY FlushSound
  <1> HIDE DEF f
  <1>2. ASSUME NEW q, ProjSound(q), NEW m
        PROVE  /\ ProjSound(AddMessage(q, m)) /\ ProjSound([q EXCEPT !.content = m])
               /\ ProjSound([q EXCEPT !.calls = Append(@, m)])
               /\ IsList(m) => ProjSound([q EXCEPT !.messages = m])
    <2>1. PICK x, y, z : q = [messages |-> x, content |-> y, calls |-> z]
      BY <1>2 DEF ProjSound
    <2>2. q.messages = x /\ q.calls = z
      BY <2>1
    <2>3. IsList(x) /\ IsList(z) /\ IsList(Append(x, m)) /\ IsList(Append(z, m))
      BY <1>2, <2>2, Appended DEF ProjSound
    <2>4. ASSUME NEW v
          PROVE  /\ [q EXCEPT !.messages = v] = [messages |-> v, content |-> y, calls |-> z]
                 /\ [q EXCEPT !.content = v] = [messages |-> x, content |-> v, calls |-> z]
                 /\ [q EXCEPT !.calls = v] = [messages |-> x, content |-> y, calls |-> v]
      BY <2>1
    <2>5. \A u, v, w : IsList(u) /\ IsList(w) => ProjSound([messages |-> u, content |-> v, calls |-> w])
      BY DEF ProjSound
    <2>6. /\ ProjSound([q EXCEPT !.messages = Append(q.messages, m)])
          /\ ProjSound([q EXCEPT !.content = m])
          /\ ProjSound([q EXCEPT !.calls = Append(q.calls, m)])
          /\ IsList(m) => ProjSound([q EXCEPT !.messages = m])
      <3>1. ASSUME NEW v, IsList(v) PROVE ProjSound([q EXCEPT !.messages = v])
        <4>1. [q EXCEPT !.messages = v] = [messages |-> v, content |-> y, calls |-> z]
          BY <2>4
        <4>2. ProjSound([messages |-> v, content |-> y, calls |-> z])
          BY <3>1, <2>3, <2>5
        <4> QED BY <4>1, <4>2
      <3>2. ASSUME NEW v PROVE ProjSound([q EXCEPT !.content = v])
        <4>1. [q EXCEPT !.content = v] = [messages |-> x, content |-> v, calls |-> z]
          BY <2>4
        <4>2. ProjSound([messages |-> x, content |-> v, calls |-> z])
          BY <2>3, <2>5
        <4> QED BY <4>1, <4>2
      <3>3. ASSUME NEW v, IsList(v) PROVE ProjSound([q EXCEPT !.calls = v])
        <4>1. [q EXCEPT !.calls = v] = [messages |-> x, content |-> y, calls |-> v]
          BY <2>4
        <4>2. ProjSound([messages |-> x, content |-> y, calls |-> v])
          BY <3>3, <2>3, <2>5
        <4> QED BY <4>1, <4>2
      <3>4. IsList(Append(q.messages, m)) /\ IsList(Append(q.calls, m))
        BY <2>2, <2>3
      <3> QED BY <3>1, <3>2, <3>3, <3>4
    <2> QED BY <2>6 DEF AddMessage
  <1>3. \/ ApplyEvent(p, e) \in {p, f}
        \/ \E m : ApplyEvent(p, e) = AddMessage(f, m)
        \/ ApplyEvent(p, e) = [f EXCEPT !.content = <<e.text>>]
        \/ ApplyEvent(p, e) = [p EXCEPT !.calls = Append(@, e.call)]
        \/ ApplyEvent(p, e) = [p EXCEPT !.messages = Referenced(@, e.call)]
        \/ /\ e.type = "CompactApplied"
           /\ ApplyEvent(p, e) = [f EXCEPT !.messages = ApplyCompaction(@, e.preserved, e.removed)]
    BY DEF ApplyEvent, f
  <1>4. IsList(Referenced(p.messages, e.call))
    BY ReferencedList DEF ProjSound
  <1>5. e.type = "CompactApplied" => IsList(ApplyCompaction(f.messages, e.preserved, e.removed))
    BY <1>1, CompactionList DEF ProjSound, Proper
  <1>6. ProjSound([p EXCEPT !.messages = Referenced(p.messages, e.call)])
    BY <1>2, <1>4
  <1>7. e.type = "CompactApplied"
          => ProjSound([f EXCEPT !.messages = ApplyCompaction(f.messages, e.preserved, e.removed)])
    BY <1>1, <1>2, <1>5
  <1>8. \A m : ProjSound(AddMessage(f, m)) /\ ProjSound([f EXCEPT !.content = m])
               /\ ProjSound([p EXCEPT !.calls = Append(@, m)])
    BY <1>1, <1>2
  <1> QED BY <1>1, <1>3, <1>6, <1>7, <1>8

-----------------------------------------------------------------------------
\* The projection of any number of events.

\* A set of numbers has a least one.
LEMMA Least == ASSUME NEW S \in SUBSET Nat, S # {} PROVE \E n \in S : \A m \in S : n <= m
  <1> DEFINE R == OpToRel(<, Nat)
  <1>1. \A x, y \in Nat : x < y => <<x, y>> \in R
    BY DEF OpToRel
  <1> HIDE DEF R
  <1>2. IsWellFoundedOn(R, Nat)
    BY NatLessThanWellFounded DEF R
  <1>3. PICK n \in S : \A m \in S : <<m, n>> \notin R
    BY <1>2, WFMin
  <1>4. \A m \in S : ~(m < n)
    BY <1>1, <1>3
  <1> QED BY <1>4

\* h has what the projector is after each of the first n events.
Runs(h, p, events, n) ==
  h = [k \in 0..n |-> IF k = 0 THEN p ELSE ApplyEvent(h[k - 1], events[k])]

\* Any events can be projected, by induction on their number.
LEMMA RunExists == ASSUME NEW p, NEW events, NEW n \in Nat PROVE \E h : Runs(h, p, events, n)
  <1> DEFINE Bad == {m \in Nat : ~ \E h : Runs(h, p, events, m)}
  <1> SUFFICES ASSUME Bad # {} PROVE FALSE
    OBVIOUS
  <1>1. PICK m \in Bad : \A k \in Bad : m <= k
    <2>1. Bad \in SUBSET Nat
      OBVIOUS
    <2> HIDE DEF Bad
    <2> QED BY <2>1, Least
  <1>2. CASE m = 0
    <2> DEFINE h == [k \in 0..0 |-> p]
    <2>1. h = [k \in 0..0 |-> IF k = 0 THEN p ELSE ApplyEvent(h[k - 1], events[k])]
      OBVIOUS
    <2>2. Runs(h, p, events, 0)
      BY <2>1 DEF Runs
    <2> QED BY <1>1, <1>2, <2>2
  <1>3. CASE m # 0
    <2>1. m \in Nat /\ m - 1 \in Nat /\ ~(m <= m - 1)
      BY <1>1, <1>3
    <2>2. PICK g : Runs(g, p, events, m - 1)
      BY <1>1, <2>1
    <2> DEFINE last == ApplyEvent(g[m - 1], events[m])
               h == [k \in 0..m |-> IF k = m THEN last ELSE g[k]]
    <2>3. /\ DOMAIN g = 0..(m - 1) /\ g[0] = p
          /\ \A k \in 1..(m - 1) : g[k] = ApplyEvent(g[k - 1], events[k])
      BY <2>1, <2>2 DEF Runs
    <2>4. h[0] = p /\ h[m] = last /\ h[m - 1] = g[m - 1]
      BY <2>1, <2>3, <1>3
    <2>5. \A k \in 1..(m - 1) : h[k] = g[k] /\ h[k - 1] = g[k - 1]
      BY <2>1
    <2>6. \A k \in 0..m : h[k] = IF k = 0 THEN p ELSE ApplyEvent(h[k - 1], events[k])
      <3> HIDE DEF h
      <3> SUFFICES ASSUME NEW k \in 0..m
                   PROVE  h[k] = IF k = 0 THEN p ELSE ApplyEvent(h[k - 1], events[k])
        OBVIOUS
      <3>1. k = 0 \/ k = m \/ k \in 1..(m - 1)
        BY <2>1
      <3> QED BY <1>3, <2>3, <2>4, <2>5, <3>1
    <2>7. Runs(h, p, events, m)
      <3>1. h = [k \in 0..m |-> h[k]]
        OBVIOUS
      <3> HIDE DEF h
      <3>2. [k \in 0..m |-> h[k]]
              = [k \in 0..m |-> IF k = 0 THEN p ELSE ApplyEvent(h[k - 1], events[k])]
        BY <2>6
      <3> QED BY <3>1, <3>2 DEF Runs
    <2> QED BY <1>1, <2>7
  <1> QED BY <1>2, <1>3

\* Stored events as the projector takes them.
ProperList(events) == IsList(events) /\ \A k \in DOMAIN events : Proper(events[k])

\* Events keep the projector.
LEMMA ProjectSound ==
    ASSUME NEW p, ProjSound(p), NEW events, ProperList(events)
    PROVE  ProjSound(Project(p, events))
  <1> DEFINE n == Len(events)
  <1>1. n \in Nat /\ DOMAIN events = 1..n
    BY ListIs DEF ProperList
  <1> DEFINE h == CHOOSE g : Runs(g, p, events, n)
  <1>2. Runs(h, p, events, n)
    <2>1. \E g : Runs(g, p, events, n)
      BY <1>1, RunExists
    <2> HIDE DEF n
    <2> QED BY <2>1
  <1>3. Project(p, events) = h[n]
    BY SMT DEF Project, Runs
  <1> HIDE DEF h
  <1> HIDE DEF n
  <1> DEFINE Bad == {m \in 0..n : ~ProjSound(h[m])}
  <1>4. Bad = {}
    <2> SUFFICES ASSUME Bad # {} PROVE FALSE
      OBVIOUS
    <2>1. PICK m \in Bad : \A k \in Bad : m <= k
      <3>1. Bad \in SUBSET Nat
        BY <1>1
      <3> HIDE DEF Bad
      <3> QED BY <3>1, Least
    <2>2. h[0] = p /\ \A k \in 1..n : h[k] = ApplyEvent(h[k - 1], events[k])
      BY <1>1, <1>2 DEF Runs
    <2>3. m # 0
      BY <2>1, <2>2
    <2>4. m \in 1..n /\ m - 1 \in 0..n /\ ~(m <= m - 1)
      BY <1>1, <2>1, <2>3
    <2>5. ProjSound(h[m - 1])
      BY <2>1, <2>4
    <2>6. Proper(events[m])
      BY <1>1, <2>4 DEF ProperList
    <2>7. ProjSound(ApplyEvent(h[m - 1], events[m]))
      BY <2>5, <2>6, ApplySound
    <2> QED BY <2>1, <2>2, <2>4, <2>7
  <1>5. ProjSound(h[n])
    BY <1>1, <1>4
  <1> QED BY <1>3, <1>5

-----------------------------------------------------------------------------
\* The event sink: push_event, push_immediate_event, flush_pending_events.

\* Events that wait for the flush, and events that do not.
Plain(events) == ProperList(events) /\ \A k \in DOMAIN events : ~Immediate(events[k])
Urgent(events) == IsList(events) /\ \A k \in DOMAIN events : Immediate(events[k])

\* Those of P that do not wait.
Urgents(P) == {e \in P : Immediate(e)}

\* What the sink has had is what the turn will return and what of the pending
\* events does not wait, whatever one counts.
Balanced ==
  \A P : Count(P, emitted) = Count(P, output) + Count(Urgents(P), pending)

\* What the sink, the output and the pending events have to do with each other.
SinkInv ==
  /\ ProjSound(proj) /\ ProperList(pending) /\ IsList(emitted) /\ IsList(output)
  /\ Balanced

\* Events that do not wait carry no numbers of turns.
LEMMA UrgentIsProper == ASSUME NEW events, Urgent(events) PROVE ProperList(events)
  BY DEF Urgent, ProperList, Proper, Immediate

\* None of the events that wait is counted as one that does not.
LEMMA PlainCount == ASSUME NEW events, Plain(events), NEW P PROVE Count(Urgents(P), events) = 0
  <1>1. {k \in DOMAIN events : events[k] \in Urgents(P)} = {}
    BY DEF Plain, Urgents
  <1> QED BY <1>1, FS_EmptySet DEF Count

\* Events that do not wait are all counted.
LEMMA UrgentCount ==
    ASSUME NEW events, Urgent(events), NEW P PROVE Count(Urgents(P), events) = Count(P, events)
  <1>1. {k \in DOMAIN events : events[k] \in Urgents(P)} = {k \in DOMAIN events : events[k] \in P}
    BY DEF Urgent, Urgents
  <1> QED BY <1>1 DEF Count

\* Events that can be projected, in a row.
LEMMA ProperJoined ==
    ASSUME NEW a, NEW b, ProperList(a), ProperList(b) PROVE ProperList(a \o b)
  <1>1. /\ IsList(a \o b) /\ DOMAIN (a \o b) = 1..(Len(a) + Len(b))
        /\ \A k \in 1..Len(a) : (a \o b)[k] = a[k]
        /\ \A k \in 1..Len(b) : (a \o b)[Len(a) + k] = b[k]
        /\ \A k \in 1..(Len(a) + Len(b)) : k \in 1..Len(a) \/ \E j \in 1..Len(b) : k = Len(a) + j
    BY Joined DEF ProperList
  <1>2. DOMAIN a = 1..Len(a) /\ DOMAIN b = 1..Len(b)
    BY ListIs DEF ProperList
  <1>3. ASSUME NEW k \in DOMAIN (a \o b) PROVE Proper((a \o b)[k])
    <2>1. CASE k \in 1..Len(a)
      BY <1>1, <1>2, <2>1 DEF ProperList
    <2>2. CASE \E j \in 1..Len(b) : k = Len(a) + j
      <3>1. PICK j \in 1..Len(b) : k = Len(a) + j
        BY <2>2
      <3>2. (a \o b)[k] = b[j]
        BY <1>1, <3>1
      <3> QED BY <1>2, <3>2 DEF ProperList
    <2> QED BY <1>1, <1>3, <2>1, <2>2
  <1> QED BY <1>1, <1>3 DEF ProperList

\* What is left for the flush.
LEMMA DelayedIs ==
    ASSUME NEW q, ProperList(q)
    PROVE  /\ Plain(Delayed(q))
           /\ \A P : Count(P, q) = Count(P, Delayed(q)) + Count(Urgents(P), q)
  <1> DEFINE K == {k \in DOMAIN q : ~Immediate(q[k])}
  <1>1. IsList(q) /\ K \in SUBSET DOMAIN q /\ Delayed(q) = Selected(q, K)
    BY DEF ProperList, Delayed
  <1>2. IsFiniteSet(DOMAIN q)
    BY <1>1, ListIs
  <1>3. /\ IsList(Delayed(q))
        /\ \A P : Count(P, Delayed(q)) = CountAt(P, q, K)
        /\ \A i \in DOMAIN Delayed(q) : \E k \in K : Delayed(q)[i] = q[k]
    <2> HIDE DEF K
    <2> QED BY <1>1, CountSelected
  <1>4. Plain(Delayed(q))
    BY <1>3 DEF Plain, ProperList
  <1>5. ASSUME NEW P PROVE Count(P, q) = Count(P, Delayed(q)) + Count(Urgents(P), q)
    <2> DEFINE A == {k \in K : q[k] \in P}
               B == {k \in DOMAIN q : q[k] \in Urgents(P)}
               C == {k \in DOMAIN q : q[k] \in P}
    <2>1. C = A \cup B /\ A \cap B = {} /\ A \in SUBSET DOMAIN q /\ B \in SUBSET DOMAIN q
      BY DEF Urgents
    <2> HIDE DEF A, B, C
    <2>2. IsFiniteSet(A) /\ IsFiniteSet(B)
      BY <1>2, <2>1, FS_Subset
    <2>3. Cardinality(A \cup B) = Cardinality(A) + Cardinality(B) - Cardinality(A \cap B)
      BY <2>2, FS_Union
    <2>4. Cardinality(A \cap B) = 0 /\ Cardinality(A) \in Nat /\ Cardinality(B) \in Nat
      BY <2>1, <2>2, FS_EmptySet, FS_CardinalityType
    <2>5. Cardinality(C) = Cardinality(A) + Cardinality(B)
      BY <2>1, <2>3, <2>4
    <2> QED BY <1>3, <2>5 DEF A, B, C, Count, CountAt
  <1> QED BY <1>4, <1>5

\* push_event keeps the sink.
LEMMA PushKeeps == ASSUME SinkInv, NEW events, Plain(events), Push(events) PROVE SinkInv'
  <1>1. pending' = pending \o events /\ UNCHANGED <<emitted, output, proj>>
    BY DEF Push, sinkVars
  <1>2. ProperList(pending \o events)
    BY ProperJoined DEF SinkInv, Plain
  <1>3. ASSUME NEW P
        PROVE  Count(P, emitted) = Count(P, output) + Count(Urgents(P), pending \o events)
    <2>1. Count(Urgents(P), pending \o events) = Count(Urgents(P), pending) + Count(Urgents(P), events)
      <3>1. IsList(pending) /\ IsList(events)
        BY DEF SinkInv, Plain, ProperList
      <3> QED BY <3>1, CountJoined
    <2>2. Count(Urgents(P), events) = 0 /\ Count(Urgents(P), pending) \in Nat
      BY PlainCount, CountIsNat DEF SinkInv, ProperList
    <2>3. Count(P, emitted) = Count(P, output) + Count(Urgents(P), pending)
      BY DEF SinkInv, Balanced
    <2> QED BY <2>1, <2>2, <2>3
  <1> QED BY <1>1, <1>2, <1>3 DEF SinkInv, Balanced

\* push_immediate_event keeps the sink.
LEMMA PushImmediateKeeps ==
    ASSUME SinkInv, NEW events, Urgent(events), PushImmediate(events) PROVE SinkInv'
  <1>1. /\ pending' = pending \o events /\ emitted' = emitted \o events
        /\ proj' = Project(proj, events) /\ output' = output
    BY DEF PushImmediate
  <1>2. ProperList(events) /\ IsList(events)
    BY UrgentIsProper DEF Urgent
  <1>3. ProperList(pending \o events) /\ IsList(emitted \o events) /\ ProjSound(Project(proj, events))
    BY <1>2, ProperJoined, Joined, ProjectSound DEF SinkInv
  <1>4. ASSUME NEW P
        PROVE  Count(P, emitted \o events) = Count(P, output) + Count(Urgents(P), pending \o events)
    <2>1. Count(Urgents(P), pending \o events) = Count(Urgents(P), pending) + Count(Urgents(P), events)
      BY <1>2, CountJoined DEF SinkInv, ProperList
    <2>2. Count(P, emitted \o events) = Count(P, emitted) + Count(P, events)
      BY <1>2, CountJoined DEF SinkInv
    <2>3. Count(Urgents(P), events) = Count(P, events)
      BY UrgentCount
    <2>4. /\ Count(P, events) \in Nat /\ Count(Urgents(P), pending) \in Nat
          /\ Count(P, output) \in Nat
      BY <1>2, CountIsNat DEF SinkInv, ProperList
    <2>5. Count(P, emitted) = Count(P, output) + Count(Urgents(P), pending)
      BY DEF SinkInv, Balanced
    <2> QED BY <2>1, <2>2, <2>3, <2>4, <2>5
  <1> QED BY <1>1, <1>3, <1>4 DEF SinkInv, Balanced

\* flush_pending_events keeps the sink, after events that do not wait.
LEMMA FlushKeeps ==
    ASSUME SinkInv, NEW now, NEW events, Urgent(now), Plain(events), FlushAfter(now, events)
    PROVE  SinkInv'
  <1> DEFINE rest == Delayed(pending \o events)
             late == now \o rest
             all == pending \o now \o events
  <1>1. /\ pending' = <<>> /\ emitted' = emitted \o late
        /\ proj' = Project(proj, late) /\ output' = output \o all
    BY DEF FlushAfter
  <1>2. /\ ProperList(now) /\ IsList(now) /\ ProperList(events) /\ IsList(events)
        /\ ProperList(pending) /\ IsList(pending) /\ IsList(emitted) /\ IsList(output)
    BY UrgentIsProper DEF Urgent, Plain, ProperList, SinkInv
  <1>3. ProperList(pending \o events) /\ IsList(pending \o events)
    BY <1>2, ProperJoined, Joined
  <1>4. /\ Plain(rest) /\ ProperList(rest) /\ IsList(rest)
        /\ \A P : Count(P, pending \o events) = Count(P, rest) + Count(Urgents(P), pending \o events)
    BY <1>3, DelayedIs DEF Plain, ProperList
  <1> HIDE DEF rest
  <1>5. ProperList(late) /\ IsList(late) /\ IsList(emitted \o late) /\ ProjSound(Project(proj, late))
    <2>1. ProperList(late)
      BY <1>2, <1>4, ProperJoined
    <2> HIDE DEF late
    <2> QED BY <1>2, <2>1, Joined, ProjectSound DEF SinkInv, ProperList
  <1>6. IsList(pending \o now) /\ IsList(all) /\ IsList(output \o all)
    BY <1>2, Joined
  <1>7. ASSUME NEW P PROVE Count(P, emitted \o late) = Count(P, output \o all)
    <2>1. Count(P, emitted \o late) = Count(P, emitted) + Count(P, late)
      BY <1>2, <1>5, CountJoined
    <2>2. Count(P, late) = Count(P, now) + Count(P, rest)
      BY <1>2, <1>4, CountJoined
    <2>3. Count(P, output \o all) = Count(P, output) + Count(P, all)
      BY <1>2, <1>6, CountJoined
    <2>4. Count(P, all) = Count(P, pending \o now) + Count(P, events)
      BY <1>2, <1>6, CountJoined
    <2>5. Count(P, pending \o now) = Count(P, pending) + Count(P, now)
      BY <1>2, CountJoined
    <2>6. Count(P, pending \o events) = Count(P, pending) + Count(P, events)
      BY <1>2, CountJoined
    <2>7. Count(Urgents(P), pending \o events) = Count(Urgents(P), pending) + Count(Urgents(P), events)
      BY <1>2, CountJoined
    <2>8. Count(Urgents(P), events) = 0
      BY PlainCount
    <2>9. Count(P, emitted) = Count(P, output) + Count(Urgents(P), pending)
      BY DEF SinkInv, Balanced
    <2>10. Count(P, pending \o events) = Count(P, rest) + Count(Urgents(P), pending \o events)
      BY <1>4
    <2>11. /\ Count(P, emitted) \in Nat /\ Count(P, output) \in Nat /\ Count(P, now) \in Nat
           /\ Count(P, rest) \in Nat /\ Count(P, events) \in Nat /\ Count(P, pending) \in Nat
           /\ Count(Urgents(P), pending) \in Nat
      BY <1>2, <1>4, CountIsNat
    <2> HIDE DEF late, all
    <2> QED BY <2>1, <2>2, <2>3, <2>4, <2>5, <2>6, <2>7, <2>8, <2>9, <2>10, <2>11
  <1>8. \A P : Count(P, <<>>) = 0
    <2> TAKE P
    <2>1. {k \in DOMAIN <<>> : <<>>[k] \in P} = {}
      OBVIOUS
    <2> QED BY <2>1, FS_EmptySet DEF Count
  <1>9. ProperList(<<>>)
    BY Single DEF ProperList
  <1>10. ASSUME NEW P PROVE Count(P, output \o all) \in Nat
    BY <1>6, CountIsNat
  <1> HIDE DEF late, all
  <1> QED BY <1>1, <1>5, <1>6, <1>7, <1>8, <1>9, <1>10 DEF SinkInv, Balanced

\* The pending events that the sink has had.
LEMMA UrgentSelected ==
    ASSUME NEW q, IsList(q), NEW P
    PROVE  Count(P, Selected(q, {k \in DOMAIN q : Immediate(q[k])})) = Count(Urgents(P), q)
  <1> DEFINE K == {k \in DOMAIN q : Immediate(q[k])}
  <1>1. {k \in K : q[k] \in P} = {k \in DOMAIN q : q[k] \in Urgents(P)}
    BY DEF Urgents
  <1>2. Count(P, Selected(q, K)) = CountAt(P, q, K)
    <2>1. K \in SUBSET DOMAIN q
      OBVIOUS
    <2> HIDE DEF K
    <2> QED BY <2>1, CountSelected
  <1> QED BY <1>1, <1>2 DEF Count, CountAt

\* The property, whose events still to be returned are a selection.
LEMMA BalancedGives == SinkInv => EmittedOnce
  <1> SUFFICES ASSUME SinkInv PROVE EmittedOnce
    OBVIOUS
  <1> DEFINE K == {k \in DOMAIN pending : Immediate(pending[k])}
             now == Selected(pending, K)
             due == output \o now
  <1>1. IsList(pending) /\ IsList(emitted) /\ IsList(output) /\ K \in SUBSET DOMAIN pending
    BY DEF SinkInv, ProperList
  <1>2. IsList(now)
    <2> HIDE DEF K
    <2> QED BY <1>1, CountSelected
  <1>4. ASSUME NEW P PROVE Count(P, now) = Count(Urgents(P), pending)
    BY <1>1, UrgentSelected
  <1>3. IsList(due) /\ \A P : Count(P, due) = Count(P, output) + Count(P, now)
    <2> HIDE DEF now
    <2> QED BY <1>1, <1>2, Joined, CountJoined
  <1> HIDE DEF now, due
  <1>5. \A P : Count(P, emitted) = Count(P, due)
    BY <1>3, <1>4 DEF SinkInv, Balanced
  <1>6. Len(emitted) = Len(due)
    <2> DEFINE P == {emitted[k] : k \in DOMAIN emitted} \cup {due[k] : k \in DOMAIN due}
    <2>1. ASSUME NEW q, IsList(q), \A k \in DOMAIN q : q[k] \in P PROVE Count(P, q) = Len(q)
      <3>1. {k \in DOMAIN q : q[k] \in P} = DOMAIN q
        BY <2>1
      <3>2. DOMAIN q = 1..Len(q) /\ Len(q) \in Nat
        BY <2>1, ListIs
      <3>3. Cardinality(1..Len(q)) = Len(q)
        <4>1. Cardinality(1..Len(q)) = Len(q) - 1 + 1 \/ Len(q) = 0
          BY <3>2, FS_Interval
        <4>2. Len(q) = 0 => 1..Len(q) = {}
          BY <3>2
        <4> QED BY <3>2, <4>1, <4>2, FS_EmptySet
      <3> QED BY <3>1, <3>2, <3>3 DEF Count
    <2>2. /\ \A k \in DOMAIN emitted : emitted[k] \in P
          /\ \A k \in DOMAIN due : due[k] \in P
      OBVIOUS
    <2> HIDE DEF P
    <2> QED BY <1>1, <1>3, <1>5, <2>1, <2>2
  <1>7. \A e : Occurrences(e, emitted) = Occurrences(e, due)
    <2> TAKE e
    <2>1. Count({e}, emitted) = Count({e}, due)
      BY <1>5
    <2>2. \A q : Count({e}, q) = Occurrences(e, q)
      <3> TAKE q
      <3>1. {k \in DOMAIN q : q[k] \in {e}} = {k \in DOMAIN q : q[k] = e}
        OBVIOUS
      <3> QED BY <3>1 DEF Count, Occurrences
    <2> QED BY <2>1, <2>2
  <1> QED BY <1>6, <1>7 DEF EmittedOnce, due, now

-----------------------------------------------------------------------------
\* The passes of the context window give lists of messages.

\* The passes give lists of messages.
LEMMA ReappliedList ==
    ASSUME NEW ms, IsList(ms), NEW calls PROVE IsList(Reapplied(ms, calls))
  <1>1. /\ DOMAIN Reapplied(ms, calls) = DOMAIN ms
        /\ Reapplied(ms, calls) = [k \in DOMAIN Reapplied(ms, calls) |-> Reapplied(ms, calls)[k]]
    BY DEF Reapplied
  <1> QED BY <1>1, SameDomain

\* Micro compaction gives a list.
LEMMA IdleList == ASSUME NEW ms, IsList(ms), NEW micro PROVE IsList(ApplyIfIdle(micro, ms))
  <1>1. \/ ApplyIfIdle(micro, ms) = ms
        \/ /\ DOMAIN ApplyIfIdle(micro, ms) = DOMAIN ms
           /\ ApplyIfIdle(micro, ms)
                = [k \in DOMAIN ApplyIfIdle(micro, ms) |-> ApplyIfIdle(micro, ms)[k]]
    BY DEF ApplyIfIdle
  <1> QED BY <1>1, SameDomain

\* The prune pass gives a list.
LEMMA PruneList == ASSUME NEW ms, IsList(ms) PROVE IsList(ApplyPrune(ms))
  <1>1. /\ DOMAIN ApplyPrune(ms) = DOMAIN ms
        /\ ApplyPrune(ms) = [k \in DOMAIN ApplyPrune(ms) |-> ApplyPrune(ms)[k]]
    BY DEF ApplyPrune
  <1> QED BY <1>1, SameDomain

\* The calls whose results are moved are a list.
LEMMA PersistedList ==
    ASSUME NEW ms, IsList(ms), NEW calls, NEW frozen
    PROVE  IsList(PersistedNow(ms, calls, frozen))
  <1> DEFINE fresh == FreshResults(ms, calls, frozen)
             order == LargestFirst(ms, fresh)
             now == PersistedNow(ms, calls, frozen)
  <1>1. IsFiniteSet(fresh) /\ Cardinality(fresh) \in Nat
    <2>1. IsFiniteSet(DOMAIN ms) /\ fresh \in SUBSET DOMAIN ms
      BY ListIs DEF FreshResults, TrailingBatch
    <2> HIDE DEF fresh
    <2> QED BY <2>1, FS_Subset, FS_CardinalityType
  <1>2. DOMAIN order = 1..Cardinality(fresh)
    BY DEF LargestFirst
  <1>3. \E S \in SUBSET DOMAIN order :
           DOMAIN now = 1..Cardinality(S) /\ now = [k \in DOMAIN now |-> now[k]]
    BY DEF PersistedNow
  <1>4. PICK S \in SUBSET DOMAIN order :
           DOMAIN now = 1..Cardinality(S) /\ now = [k \in DOMAIN now |-> now[k]]
    BY <1>3
  <1> HIDE DEF order, fresh, now
  <1>5. IsFiniteSet(DOMAIN order)
    BY <1>1, <1>2, FS_Interval
  <1>6. Cardinality(S) \in Nat
    BY <1>4, <1>5, FS_Subset, FS_CardinalityType
  <1>7. IsList(now)
    BY <1>4, <1>6, ListMade
  <1> QED BY <1>7 DEF now

\* A compaction keeps at least one turn.
LEMMA PreservedIs == PreservedTurns \in Nat /\ PreservedTurns >= 1
  BY ContextSettings DEF PreservedTurns, AtLeast1

\* Where a compaction splits the messages, if it does.
LEMMA KeepStartIn == ASSUME NEW ms, IsList(ms) PROVE KeepStart(ms) \in {0} \cup (1..Len(ms))
  <1> DEFINE users == RealUsers(ms)
             c == Cardinality(users)
             p == PreservedTurns
             steps == {i \in DOMAIN ms : i > 1 /\ ms[i].kind = "assistant"}
             primary == IF c < p THEN 0 ELSE NthFromEnd(users, p)
  <1>1. users \in SUBSET (1..Len(ms)) /\ Len(ms) \in Nat /\ c \in Nat /\ DOMAIN ms = 1..Len(ms)
    BY RealUsersIn
  <1>2. primary \in {0} \cup (1..Len(ms))
    <2>1. CASE c < p
      BY <2>1
    <2>2. CASE ~(c < p)
      <3>1. p \in 1..c
        <4>1. p \in Nat /\ p >= 1
          BY PreservedIs
        <4> HIDE DEF p, c
        <4> QED BY <1>1, <2>2, <4>1
      <3>2. NthFromEnd(users, p) \in users
        <4> HIDE DEF users, p
        <4> QED BY <1>1, <3>1, FromEnd
      <3> QED BY <1>1, <2>2, <3>2
    <2> QED BY <2>1, <2>2
  <1>3. FallbackKeepStart(ms) \in {0} \cup (1..Len(ms))
    <2>1. FallbackKeepStart(ms) = IF steps = {} THEN 0 ELSE NthFromEnd(steps, 1)
      BY DEF FallbackKeepStart
    <2>2. CASE steps = {}
      BY <2>1, <2>2
    <2>3. CASE steps # {}
      <3>1. steps \in SUBSET (1..Len(ms))
        BY <1>1
      <3> HIDE DEF steps
      <3>2. IsFiniteSet(1..Len(ms))
        BY <1>1, FS_Interval
      <3>3. IsFiniteSet(steps) /\ Cardinality(steps) \in Nat /\ Cardinality(steps) # 0
        BY <2>3, <3>1, <3>2, FS_Subset, FS_CardinalityType, FS_EmptySet
      <3>4. 1 \in 1..Cardinality(steps)
        BY <3>3
      <3>5. NthFromEnd(steps, 1) \in steps
        BY <1>1, <3>1, <3>4, FromEnd
      <3> QED BY <2>1, <2>3, <3>1, <3>5
    <2> QED BY <2>2, <2>3
  <1>4. KeepStart(ms) = IF primary > 1 THEN primary ELSE FallbackKeepStart(ms)
    BY DEF KeepStart
  <1> HIDE DEF primary
  <1> QED BY <1>2, <1>3, <1>4

\* The recent messages of users are a list.
LEMMA RecentUsersList == ASSUME NEW ms, IsList(ms) PROVE IsList(RecentUsers(ms))
  <1> DEFINE users == RealUsers(ms)
             last == {i \in users : Cardinality({j \in users : j >= i}) <= KeepUsers}
  <1>1. IsFiniteSet(last)
    <2>1. last \in SUBSET (1..Len(ms)) /\ Len(ms) \in Nat
      BY RealUsersIn
    <2> HIDE DEF last
    <2>2. IsFiniteSet(1..Len(ms))
      BY <2>1, FS_Interval
    <2> QED BY <2>1, <2>2, FS_Subset
  <1>2. \E f : RecentUsers(ms) = [k \in 1..Cardinality(last) |-> f[k]]
    <2> DEFINE f == [k \in 1..Cardinality(last) |->
                        LET i == NthFromEnd(last, Cardinality(last) + 1 - k)
                        IN  [index |-> i, n |-> ms[i].n]]
    <2>1. RecentUsers(ms) = f
      BY DEF RecentUsers
    <2>2. f = [k \in 1..Cardinality(last) |-> f[k]]
      OBVIOUS
    <2> HIDE DEF f
    <2> QED BY <2>1, <2>2
  <1> HIDE DEF last
  <1>3. Cardinality(last) \in Nat
    BY <1>1, FS_CardinalityType
  <1>4. PICK f : RecentUsers(ms) = [k \in 1..Cardinality(last) |-> f[k]]
    BY <1>2
  <1>5. RecentUsers(ms) = [k \in 1..Cardinality(last) |-> RecentUsers(ms)[k]]
    BY <1>4
  <1> QED BY <1>3, <1>5, ListMade

\* A compaction by the model gives a list.
LEMMA CompactedList ==
    ASSUME NEW users, IsList(users), NEW suffix, IsList(suffix), NEW keep, NEW digest
    PROVE  IsList(CompactedMessages(users, keep, suffix, digest))
  <1> DEFINE again == {o \in DOMAIN suffix :
                         /\ IsRealUser(suffix[o])
                         /\ \E k \in DOMAIN users : users[k].index = keep + o - 1}
             first == IF digest THEN <<UserMsg("RecentUserContextDigest", 0)>> ELSE <<>>
             recent == [k \in DOMAIN users |-> UserMsg("RecentUserContext", users[k].n)]
             rest == Selected(suffix, DOMAIN suffix \ again)
  <1>1. CompactedMessages(users, keep, suffix, digest) = <<Summary>> \o first \o recent \o rest
    BY DEF CompactedMessages
  <1>2. IsList(<<Summary>>) /\ IsList(first)
    BY Single
  <1>3. IsList(recent)
    <2>1. DOMAIN recent = DOMAIN users /\ recent = [k \in DOMAIN recent |-> recent[k]]
      OBVIOUS
    <2> HIDE DEF recent
    <2> QED BY <2>1, SameDomain
  <1>4. IsList(rest)
    <2>1. DOMAIN suffix \ again \in SUBSET DOMAIN suffix
      OBVIOUS
    <2> HIDE DEF again
    <2> QED BY <2>1, CountSelected
  <1> HIDE DEF first, recent, rest
  <1>5. IsList(<<Summary>> \o first)
    BY <1>2, Joined
  <1>6. IsList(<<Summary>> \o first \o recent)
    BY <1>3, <1>5, Joined
  <1>7. IsList(<<Summary>> \o first \o recent \o rest)
    BY <1>4, <1>6, Joined
  <1> QED BY <1>1, <1>7

-----------------------------------------------------------------------------
\* What a step needs of the state, and how it meets the sink.

\* A compaction that is under way.
CompSound(c) ==
  /\ c = [source |-> c.source, prefix |-> c.prefix, suffix |-> c.suffix, keep |-> c.keep,
          contract |-> c.contract, salvage |-> c.salvage, reactive |-> c.reactive]
  /\ IsList(c.source) /\ IsList(c.suffix)

\* Tool calls that are under way.
ToolsSound(t) ==
  /\ t = [calls |-> t.calls, next |-> t.next, allowed |-> t.allowed, running |-> t.running,
          results |-> t.results, channel |-> t.channel, deltas |-> t.deltas]
  /\ IsList(t.channel)

\* The messages a turn works on, and what it has under way.
Work == IsList(live) /\ CompSound(comp) /\ ToolsSound(tools)

\* The changes of a compaction that is under way.
LEMMA CompUpdates ==
    ASSUME NEW c, CompSound(c)
    PROVE  /\ \A v : CompSound([c EXCEPT !.prefix = v]) /\ CompSound([c EXCEPT !.contract = v])
           /\ \A u, v, w : IsList(v) =>
                 CompSound([c EXCEPT !.prefix = u, !.suffix = v, !.keep = w])
           /\ \A u, v, w : CompSound([c EXCEPT !.salvage = u, !.prefix = v, !.keep = w])
  <1>1. PICK s, p, f, k, n, m, r :
           c = [source |-> s, prefix |-> p, suffix |-> f, keep |-> k, contract |-> n,
                salvage |-> m, reactive |-> r]
    BY DEF CompSound
  <1>2. c.source = s /\ c.suffix = f
    BY <1>1
  <1>3. IsList(s) /\ IsList(f)
    BY <1>2 DEF CompSound
  <1>4. \A x, y, z, t, u, v : IsList(y) =>
           CompSound([source |-> s, prefix |-> x, suffix |-> y, keep |-> z, contract |-> t,
                      salvage |-> u, reactive |-> v])
    BY <1>3 DEF CompSound
  <1>5. ASSUME NEW v PROVE CompSound([c EXCEPT !.prefix = v]) /\ CompSound([c EXCEPT !.contract = v])
    <2>1. [c EXCEPT !.prefix = v] = [source |-> s, prefix |-> v, suffix |-> f, keep |-> k,
                                     contract |-> n, salvage |-> m, reactive |-> r]
      BY <1>1
    <2>2. [c EXCEPT !.contract = v] = [source |-> s, prefix |-> p, suffix |-> f, keep |-> k,
                                       contract |-> v, salvage |-> m, reactive |-> r]
      BY <1>1
    <2> QED BY <1>3, <1>4, <2>1, <2>2
  <1>6. ASSUME NEW u, NEW v, NEW w, IsList(v)
        PROVE  CompSound([c EXCEPT !.prefix = u, !.suffix = v, !.keep = w])
    <2> DEFINE z == [c EXCEPT !.prefix = u, !.suffix = v, !.keep = w]
    <2>1. DOMAIN z = {"source", "prefix", "suffix", "keep", "contract", "salvage",
       "reactive"}
      BY <1>1
    <2>2. z = [x \in DOMAIN z |-> z[x]]
      OBVIOUS
    <2>3. z.source = s /\ z.prefix = u /\ z.suffix = v /\ z.keep = w /\ z.contract = n /\
       z.salvage = m /\ z.reactive = r
      BY <1>1
    <2> HIDE DEF z
    <2>4. z = [source |-> s, prefix |-> u, suffix |-> v, keep |-> w, contract |-> n, salvage
       |-> m, reactive |-> r]
      BY <2>1, <2>2, <2>3
    <2>5. CompSound(z)
      BY <1>4, <1>6, <2>4
    <2> QED BY <2>5 DEF z
  <1>7. ASSUME NEW u, NEW v, NEW w
        PROVE  CompSound([c EXCEPT !.salvage = u, !.prefix = v, !.keep = w])
    <2> DEFINE z == [c EXCEPT !.salvage = u, !.prefix = v, !.keep = w]
    <2>1. DOMAIN z = {"source", "prefix", "suffix", "keep", "contract", "salvage",
       "reactive"}
      BY <1>1
    <2>2. z = [x \in DOMAIN z |-> z[x]]
      OBVIOUS
    <2>3. z.source = s /\ z.prefix = v /\ z.suffix = f /\ z.keep = w /\ z.contract = n /\
       z.salvage = u /\ z.reactive = r
      BY <1>1
    <2> HIDE DEF z
    <2>4. z = [source |-> s, prefix |-> v, suffix |-> f, keep |-> w, contract |-> n, salvage
       |-> u, reactive |-> r]
      BY <2>1, <2>2, <2>3
    <2>5. CompSound(z)
      BY <1>3, <1>4, <2>4
    <2> QED BY <2>5 DEF z
  <1> QED BY <1>5, <1>6, <1>7

\* The beginnings of a compaction and of tool calls.
LEMMA NoneSound ==
    /\ CompSound(NoCompaction) /\ ToolsSound(NoTools)
    /\ \A calls : ToolsSound([NoTools EXCEPT !.calls = calls])
    /\ \A ms : IsList(ms) => /\ CompSound([NoCompaction EXCEPT !.source = ms])
                             /\ CompSound([NoCompaction EXCEPT !.source = ms, !.reactive = TRUE])
  <1>1. IsList(<<>>)
    BY Single
  <1>2. CompSound(NoCompaction) /\ ToolsSound(NoTools)
    BY <1>1 DEF CompSound, ToolsSound, NoCompaction, NoTools
  <1>3. ASSUME NEW calls PROVE ToolsSound([NoTools EXCEPT !.calls = calls])
    <2> DEFINE z == [NoTools EXCEPT !.calls = calls]
    <2>1. DOMAIN z = {"calls", "next", "allowed", "running", "results", "channel", "deltas"}
      BY DEF NoTools
    <2>2. z = [x \in DOMAIN z |-> z[x]]
      OBVIOUS
    <2>3. z.calls = calls /\ z.next = 1 /\ z.allowed = {} /\ z.running = {} /\ z.results =
       <<>> /\ z.channel = <<>> /\ z.deltas = 0
      BY DEF NoTools
    <2> HIDE DEF z
    <2>4. z = [calls |-> calls, next |-> 1, allowed |-> {}, running |-> {}, results |->
       <<>>, channel |-> <<>>, deltas |-> 0]
      BY <2>1, <2>2, <2>3
    <2>5. ToolsSound(z)
      BY <1>1, <2>3, <2>4 DEF ToolsSound
    <2> QED BY <2>5 DEF z
  <1>4. ASSUME NEW ms, IsList(ms) PROVE CompSound([NoCompaction EXCEPT !.source = ms])
    <2> DEFINE z == [NoCompaction EXCEPT !.source = ms]
    <2>1. DOMAIN z = {"source", "prefix", "suffix", "keep", "contract", "salvage",
       "reactive"}
      BY DEF NoCompaction
    <2>2. z = [x \in DOMAIN z |-> z[x]]
      OBVIOUS
    <2>3. z.source = ms /\ z.prefix = <<>> /\ z.suffix = <<>> /\ z.keep = 0 /\ z.contract =
       0 /\ z.salvage = 0 /\ z.reactive = FALSE
      BY DEF NoCompaction
    <2> HIDE DEF z
    <2>4. z = [source |-> ms, prefix |-> <<>>, suffix |-> <<>>, keep |-> 0, contract |-> 0,
       salvage |-> 0, reactive |-> FALSE]
      BY <2>1, <2>2, <2>3
    <2>5. CompSound(z)
      BY <1>1, <1>4, <2>3, <2>4 DEF CompSound
    <2> QED BY <2>5 DEF z
  <1>5. ASSUME NEW ms, IsList(ms)
        PROVE  CompSound([NoCompaction EXCEPT !.source = ms, !.reactive = TRUE])
    <2> DEFINE z == [NoCompaction EXCEPT !.source = ms, !.reactive = TRUE]
    <2>1. DOMAIN z = {"source", "prefix", "suffix", "keep", "contract", "salvage",
       "reactive"}
      BY DEF NoCompaction
    <2>2. z = [x \in DOMAIN z |-> z[x]]
      OBVIOUS
    <2>3. z.source = ms /\ z.prefix = <<>> /\ z.suffix = <<>> /\ z.keep = 0 /\ z.contract =
       0 /\ z.salvage = 0 /\ z.reactive = TRUE
      BY DEF NoCompaction
    <2> HIDE DEF z
    <2>4. z = [source |-> ms, prefix |-> <<>>, suffix |-> <<>>, keep |-> 0, contract |-> 0,
       salvage |-> 0, reactive |-> TRUE]
      BY <2>1, <2>2, <2>3
    <2>5. CompSound(z)
      BY <1>1, <1>5, <2>3, <2>4 DEF CompSound
    <2> QED BY <2>5 DEF z
  <1> QED BY <1>2, <1>3, <1>4, <1>5

-----------------------------------------------------------------------------
\* How a step meets the sink: without events that are emitted at once ...
Quiet ==
  \/ UNCHANGED <<pending, sinkVars>>
  \/ \E events : Plain(events) /\ Push(events)
  \/ \E events : Plain(events) /\ FlushAfter(<<>>, events)

\* ... or with them.
Loud ==
  \E now : /\ Urgent(now)
           /\ PushImmediate(now) \/ \E events : Plain(events) /\ FlushAfter(now, events)

\* No event is of either kind.
LEMMA EmptyUrgent == Urgent(<<>>) /\ Plain(<<>>)
  BY Single DEF Urgent, Plain, ProperList

\* However a step meets the sink, it keeps it.
LEMMA SinkKeeps == ASSUME SinkInv, Quiet \/ Loud PROVE SinkInv'
  <1>1. CASE UNCHANGED <<pending, sinkVars>>
    BY <1>1 DEF SinkInv, Balanced, sinkVars
  <1>2. CASE \E events : Plain(events) /\ Push(events)
    BY <1>2, PushKeeps
  <1>3. CASE \E now, events : Urgent(now) /\ Plain(events) /\ FlushAfter(now, events)
    BY <1>3, FlushKeeps
  <1>4. CASE \E now : Urgent(now) /\ PushImmediate(now)
    BY <1>4, PushImmediateKeeps
  <1> QED BY <1>1, <1>2, <1>3, <1>4, EmptyUrgent DEF Quiet, Loud

\* An event that waits.
LEMMA PlainSingle ==
    ASSUME NEW e, ~Immediate(e), Proper(e) PROVE Plain(<<e>>)
  <1>1. IsList(<<e>>) /\ \A k \in DOMAIN <<e>> : <<e>>[k] = e
    BY Single
  <1> QED BY <1>1 DEF Plain, ProperList

\* An event that does not wait.
LEMMA UrgentSingle == ASSUME NEW e, Immediate(e) PROVE Urgent(<<e>>)
  <1>1. IsList(<<e>>) /\ \A k \in DOMAIN <<e>> : <<e>>[k] = e
    BY Single
  <1> QED BY <1>1 DEF Urgent

\* Events that wait, in a row.
LEMMA PlainJoined == ASSUME NEW a, NEW b, Plain(a), Plain(b) PROVE Plain(a \o b)
  <1>1. ProperList(a) /\ ProperList(b) /\ IsList(a) /\ IsList(b)
    BY DEF Plain, ProperList
  <1>2. /\ ProperList(a \o b) /\ DOMAIN (a \o b) = 1..(Len(a) + Len(b))
        /\ DOMAIN a = 1..Len(a) /\ DOMAIN b = 1..Len(b)
        /\ \A k \in 1..Len(a) : (a \o b)[k] = a[k]
        /\ \A k \in 1..Len(b) : (a \o b)[Len(a) + k] = b[k]
        /\ \A k \in 1..(Len(a) + Len(b)) : k \in 1..Len(a) \/ \E j \in 1..Len(b) : k = Len(a) + j
    BY <1>1, ProperJoined, Joined, ListIs
  <1>3. ASSUME NEW k \in DOMAIN (a \o b) PROVE ~Immediate((a \o b)[k])
    <2>1. CASE k \in 1..Len(a)
      <3>1. (a \o b)[k] = a[k] /\ k \in DOMAIN a
        BY <1>2, <2>1
      <3> QED BY <3>1 DEF Plain
    <2>2. CASE \E j \in 1..Len(b) : k = Len(a) + j
      <3>1. PICK j \in 1..Len(b) : k = Len(a) + j
        BY <2>2
      <3>2. (a \o b)[k] = b[j] /\ j \in DOMAIN b
        BY <1>2, <3>1
      <3> QED BY <3>2 DEF Plain
    <2> QED BY <1>2, <1>3, <2>1, <2>2
  <1> QED BY <1>2, <1>3 DEF Plain

\* The events that the steps let wait.
LEMMA PlainEvents ==
    /\ \A n \in 0..1 : Plain(Augmented(n))
    /\ \A text : Plain(<<AssistantFinal(text)>>)
    /\ \A preserved \in Nat : \A removed : Plain(<<CompactApplied(preserved, removed)>>)
    /\ \A cause : Plain(Terminal(cause))
    /\ \A now : IsList(now) => Plain([k \in DOMAIN now |-> ReferenceApplied(now[k])])
  <1> USE DEF Immediate, Proper
  <1>1. ASSUME NEW n \in 0..1 PROVE Plain(Augmented(n))
    <2>1. n \in Nat /\ Augmented(n) = [k \in 1..n |-> UserEvent("ReactivationPrompt", 0)]
      BY DEF Augmented
    <2>2. DOMAIN Augmented(n) = 1..n /\ Augmented(n) = [k \in 1..n |-> Augmented(n)[k]]
      BY <2>1
    <2>3. \A k \in DOMAIN Augmented(n) : Augmented(n)[k].type = "UserMessage"
      BY <2>1 DEF UserEvent
    <2>4. IsList(Augmented(n))
      BY <2>1, <2>2, ListMade
    <2> QED BY <2>3, <2>4 DEF Plain, ProperList
  <1>2. ASSUME NEW text PROVE Plain(<<AssistantFinal(text)>>)
    BY PlainSingle DEF AssistantFinal
  <1>3. ASSUME NEW preserved \in Nat, NEW removed PROVE Plain(<<CompactApplied(preserved, removed)>>)
    BY PlainSingle DEF CompactApplied
  <1>4. ASSUME NEW cause PROVE Plain(Terminal(cause))
    <2>1. Plain(<<ErrorEvent>>) /\ Plain(<<TurnDone(cause)>>) /\ Plain(<<>>)
      BY PlainSingle, EmptyUrgent DEF ErrorEvent, TurnDone
    <2>2. Plain(IF cause = "Error" THEN <<ErrorEvent>> ELSE <<>>)
      BY <2>1
    <2> QED BY <2>1, <2>2, PlainJoined DEF Terminal
  <1>5. ASSUME NEW now, IsList(now) PROVE Plain([k \in DOMAIN now |-> ReferenceApplied(now[k])])
    <2> DEFINE events == [k \in DOMAIN now |-> ReferenceApplied(now[k])]
    <2>1. DOMAIN events = DOMAIN now /\ events = [k \in DOMAIN events |-> events[k]]
      OBVIOUS
    <2>2. \A k \in DOMAIN events : events[k].type = "ToolResultReferenceApplied"
      BY DEF ReferenceApplied
    <2> HIDE DEF events
    <2>3. IsList(events)
      BY <1>5, <2>1, SameDomain
    <2>4. Plain(events)
      BY <2>2, <2>3 DEF Plain, ProperList
    <2> QED BY <2>4 DEF events
  <1> QED BY <1>1, <1>2, <1>3, <1>4, <1>5

\* The outcomes of a step let their events wait.
LEMMA QuietWays ==
    ASSUME NEW cause, NEW events, Plain(events),
           Completed(cause, events) \/ FinalizeTurn(cause, events) \/ Fail(events) \/ Continued(events)
    PROVE  Quiet
  <1>1. \A c : Plain(events \o Terminal(c))
    BY PlainEvents, PlainJoined
  <1> QED BY <1>1 DEF Completed, FinalizeTurn, FinalizeAfter, Fail, Continued, Quiet

-----------------------------------------------------------------------------
\* The steps outside replies and tool calls.

\* The steps outside tool calls and replies.
Calm ==
  /\ Quiet /\ Work'
  /\ UNCHANGED tools /\ ghost'.calls = ghost.calls
  /\ pc' \notin {"call", "dispatch", "results"}

\* Other fields of the ghost leave the number of calls alone.
LEMMA GhostCalls ==
    ASSUME Shape, NEW f \in GhostFields \ {"calls"}, NEW v,
           ghost' = [ghost EXCEPT ![f] = v]
    PROVE  ghost'.calls = ghost.calls
  BY DEF Shape, GhostFields

\* Prompts of a hook.
LEMMA PromptsCalm ==
    ASSUME Work, Shape, NEW n \in 0..1, HookPrompts(n)
    PROVE  IsList(live') /\ ghost'.calls = ghost.calls
  <1>1. ghost'.calls = ghost.calls
    BY DEF HookPrompts, Shape, GhostFields
  <1> DEFINE more == [k \in 1..n |-> UserMsg("ReactivationPrompt", 0)]
  <1>2. live' = live \o more
    BY DEF HookPrompts
  <1>3. IsList(more)
    <2>1. more = [k \in 1..n |-> more[k]] /\ n \in Nat
      OBVIOUS
    <2> HIDE DEF more
    <2> QED BY <2>1, ListMade
  <1> HIDE DEF more
  <1> QED BY <1>1, <1>2, <1>3, Joined DEF Work

\* Hooks.
LEMMA HooksCalm == ASSUME Work, Shape, Hooks PROVE Calm
  <1>1. UNCHANGED <<comp, tools>>
    BY DEF Hooks, HookGoesOn, HookCancels, HookBlocks
  <1>2. PICK n \in 0..1 :
           /\ HookPrompts(n)
           /\ \/ HookGoesOn(n)
              \/ FinalizeTurn("Cancelled", Augmented(n))
              \/ Completed("Cancelled", Augmented(n))
              \/ Fail(Augmented(n))
    <2>1. CASE \E n \in 0..1 : HookGoesOn(n)
      BY <2>1 DEF HookGoesOn
    <2>2. CASE HookCancels
      BY <2>2 DEF HookCancels
    <2>3. CASE HookBlocks
      BY <2>3 DEF HookBlocks
    <2> QED BY <2>1, <2>2, <2>3 DEF Hooks
  <1>3. Plain(Augmented(n))
    BY PlainEvents
  <1>4. Quiet /\ pc' \notin {"call", "dispatch", "results"}
    <2>1. CASE HookGoesOn(n)
      <3>1. CASE pc = "turn_start" /\ FlushAfter(<<>>, Augmented(n)) /\ pc' = AfterHook[pc]
        BY <1>3, <3>1 DEF Quiet, AfterHook
      <3>2. CASE pc \in {"context", "before_agent"} /\ Push(Augmented(n)) /\ pc' = AfterHook[pc]
        BY <1>3, <3>2 DEF Quiet, AfterHook
      <3>3. CASE FinalizeTurn(stop, Augmented(n))
        <4>1. pc' = "idle"
          BY <3>3 DEF FinalizeTurn, FinalizeAfter
        <4> QED BY <1>3, <3>3, <4>1, QuietWays
      <3> QED BY <2>1, <3>1, <3>2, <3>3 DEF HookGoesOn
    <2>2. CASE \/ FinalizeTurn("Cancelled", Augmented(n))
               \/ Completed("Cancelled", Augmented(n))
               \/ Fail(Augmented(n))
      <3>1. pc' \in {"idle", "turn_end"}
        BY <2>2 DEF FinalizeTurn, FinalizeAfter, Completed, Fail
      <3> QED BY <1>3, <2>2, <3>1, QuietWays
    <2> QED BY <1>2, <2>1, <2>2
  <1>5. IsList(live') /\ ghost'.calls = ghost.calls
    BY <1>2, PromptsCalm
  <1> QED BY <1>1, <1>4, <1>5 DEF Calm, Work

\* The assembly of a request.
LEMMA RequestsCalm == ASSUME Work, Requests PROVE Calm
  <1> USE DEF Calm
  <1>0. UNCHANGED <<tools, ghost>>
    BY DEF Requests, CheckProvider, Assemble, ProviderHookContinues, ProviderHookStops
  <1>1. CASE CheckProvider
    <2>1. UNCHANGED <<live, comp>>
      BY <1>1 DEF CheckProvider
    <2>2. \/ Completed("Completed", <<>>) \/ Completed("Cancelled", <<>>)
          \/ pc' = "assemble" /\ UNCHANGED <<pending, sinkVars>>
      BY <1>1 DEF CheckProvider
    <2>3. Quiet
      BY <2>2, EmptyUrgent, QuietWays DEF Quiet
    <2>4. pc' \notin {"call", "dispatch", "results"}
      BY <2>2 DEF Completed
    <2> QED BY <1>0, <2>1, <2>3, <2>4 DEF Work
  <1>2. CASE Assemble
    <2>1. PICK stores, ms, now, fitted, idle, messages :
            /\ ms = Reapplied(live, exec.replaced)
            /\ now = IF stores THEN PersistedNow(ms, exec.replaced, exec.frozen) ELSE <<>>
            /\ fitted = Reapplied(ms, Range(now))
            /\ idle = ApplyIfIdle(exec.micro, fitted)
            /\ messages = ApplyPrune(idle)
            /\ Push([k \in DOMAIN now |-> ReferenceApplied(now[k])])
            /\ IF ShouldCompact(messages) /\ AutoCompact
               THEN /\ pc' = "before_compact"
                    /\ comp' = [NoCompaction EXCEPT !.source = messages]
                    /\ UNCHANGED live
               ELSE /\ pc' = "before_provider"
                    /\ live' = messages
                    /\ UNCHANGED comp
      BY <1>2 DEF Assemble
    <2>2. IsList(live)
      BY DEF Work
    <2>3. IsList(ms)
      BY <2>1, <2>2, ReappliedList
    <2>4. IsList(now)
      BY <2>1, <2>3, PersistedList, Single
    <2>5. IsList(fitted)
      BY <2>1, <2>3, ReappliedList
    <2>6. IsList(idle)
      BY <2>1, <2>5, IdleList
    <2>7. IsList(messages)
      BY <2>1, <2>6, PruneList
    <2>8. Quiet
      <3>1. Plain([k \in DOMAIN now |-> ReferenceApplied(now[k])])
        BY <2>4, PlainEvents
      <3> QED BY <2>1, <3>1 DEF Quiet
    <2>9. IsList(live') /\ CompSound(comp') /\ pc' \in {"before_compact", "before_provider"}
      BY <2>1, <2>2, <2>7, NoneSound DEF Work
    <2> QED BY <1>0, <2>8, <2>9 DEF Work
  <1>3. CASE ProviderHookContinues
    BY <1>0, <1>3 DEF ProviderHookContinues, Work, Quiet
  <1>4. CASE ProviderHookStops
    <2>1. UNCHANGED <<live, comp>>
      BY <1>4 DEF ProviderHookStops
    <2>2. Completed("Completed", Augmented(1)) \/ Completed("Cancelled", <<>>) \/ Fail(<<>>)
      BY <1>4 DEF ProviderHookStops
    <2>3. Quiet
      <3>1. Plain(Augmented(1)) /\ Plain(<<>>)
        BY PlainEvents, EmptyUrgent
      <3> QED BY <2>2, <3>1, QuietWays
    <2>4. pc' \in {"turn_end", "idle"}
      BY <2>2 DEF Completed, Fail, FinalizeTurn, FinalizeAfter
    <2> QED BY <1>0, <2>1, <2>3, <2>4 DEF Work
  <1> QED BY <1>1, <1>2, <1>3, <1>4 DEF Requests

\* A compaction that does not take place.
LEMMA NotCompactedCalm ==
    ASSUME Work, NotCompacted
    PROVE  Quiet /\ IsList(live') /\ pc' \in {"idle", "before_provider"}
  <1>1. CASE comp.reactive
    <2>1. Fail(<<>>) /\ UNCHANGED live
      BY <1>1 DEF NotCompacted
    <2>2. Quiet
      BY <2>1, EmptyUrgent, QuietWays
    <2> QED BY <2>1, <2>2 DEF Work, Fail, FinalizeTurn, FinalizeAfter
  <1>2. CASE ~comp.reactive
    BY <1>2 DEF NotCompacted, Quiet, Work, CompSound
  <1> QED BY <1>1, <1>2

\* A compaction that does.
LEMMA CompactedCalm ==
    ASSUME Work, Shape, NEW messages, IsList(messages), NEW preserved \in Nat, NEW removed,
           Compacted(messages, preserved, removed)
    PROVE  /\ Quiet /\ IsList(live') /\ pc' \in {"context", "before_provider"}
           /\ ghost'.calls = ghost.calls
  <1>1. IsList(live')
    <2>1. PICK found \in {FALSE, exec.reads} :
             live' = messages \o (IF found THEN <<UserMsg("ReactivationPrompt", 0)>> ELSE <<>>)
      BY DEF Compacted
    <2>2. IsList(IF found THEN <<UserMsg("ReactivationPrompt", 0)>> ELSE <<>>)
      BY Single
    <2> QED BY <2>1, <2>2, Joined
  <1> DEFINE event == <<CompactApplied(preserved, removed)>>
  <1>2. \/ Continued(event)
        \/ Push(event) /\ pc' = "before_provider"
    BY DEF Compacted
  <1>3. Plain(event)
    BY PlainEvents
  <1> HIDE DEF event
  <1>4. Quiet /\ pc' \in {"context", "before_provider"}
    BY <1>2, <1>3 DEF Quiet, Continued
  <1>5. ghost'.calls = ghost.calls
    BY DEF Compacted, Shape, GhostFields
  <1> QED BY <1>1, <1>4, <1>5

\* The steps of a compaction.
LEMMA CompactionCalm == ASSUME Work, Shape, Compaction PROVE Calm
  <1> USE DEF Calm
  <1>0. UNCHANGED tools
    BY DEF Compaction, BeforeCompact, CompactHookCancels, CompactHookSummarises,
           CompactHookFails, Trim, Summarised, SummaryViolatesContract, SummaryTooLong, SummaryFails
  <1>1. CASE BeforeCompact
    <2> DEFINE keep == KeepStart(comp.source)
    <2>1. CASE keep = 0
      <3>1. NotCompacted /\ UNCHANGED <<comp, ghost>>
        BY <1>1, <2>1 DEF BeforeCompact
      <3> QED BY <1>0, <3>1, NotCompactedCalm DEF Work
    <2>2. CASE keep # 0
      <3>1. /\ pc' = "fit" /\ UNCHANGED <<live, pending, sinkVars, ghost>>
            /\ comp' = [comp EXCEPT !.prefix = SubSeq(comp.source, 1, keep - 1),
                                    !.suffix = SubSeq(comp.source, keep, Len(comp.source)),
                                    !.keep = keep]
        BY <1>1, <2>2 DEF BeforeCompact
      <3>2. IsList(comp.source) /\ Len(comp.source) \in Nat
        BY ListIs DEF Work, CompSound
      <3>3. keep \in 1..(Len(comp.source) + 1)
        <4>1. keep \in {0} \cup (1..Len(comp.source))
          BY <3>2, KeepStartIn
        <4> HIDE DEF keep
        <4> QED BY <2>2, <3>2, <4>1
      <3> HIDE DEF keep
      <3>4. IsList(SubSeq(comp.source, keep, Len(comp.source)))
        BY <3>2, <3>3, TailList
      <3>5. CompSound(comp')
        BY <3>1, <3>4, CompUpdates DEF Work
      <3> QED BY <1>0, <3>1, <3>5 DEF Work, Quiet
    <2> QED BY <2>1, <2>2
  <1>2. CASE CompactHookCancels
    <2>1. NotCompacted /\ UNCHANGED <<comp, ghost>>
      BY <1>2 DEF CompactHookCancels
    <2> QED BY <1>0, <2>1, NotCompactedCalm DEF Work
  <1>3. CASE CompactHookSummarises
    <2>1. Compacted(<<Summary>>, 0, Len(comp.source)) /\ UNCHANGED comp
      BY <1>3 DEF CompactHookSummarises
    <2>2. IsList(<<Summary>>)
      BY Single
    <2> QED BY <1>0, <2>1, <2>2, CompactedCalm DEF Work
  <1>4. CASE CompactHookFails \/ SummaryFails
    <2>1. Fail(<<>>) /\ UNCHANGED <<live, comp, ghost>>
      BY <1>4 DEF CompactHookFails, SummaryFails
    <2>2. Quiet /\ pc' = "idle"
      BY <2>1, EmptyUrgent, QuietWays DEF Fail, FinalizeTurn, FinalizeAfter
    <2> QED BY <1>0, <2>1, <2>2 DEF Work
  <1>5. CASE Trim
    <2>1. UNCHANGED <<live, ghost>>
      BY <1>5 DEF Trim
    <2>2. \/ Fail(<<>>) /\ UNCHANGED comp
          \/ pc' = "summarise" /\ UNCHANGED <<comp, pending, sinkVars>>
          \/ /\ comp' = [comp EXCEPT !.prefix = DropOldestUnit(comp.prefix)]
             /\ pc = "fit" /\ UNCHANGED <<pc, pending, sinkVars>>
      BY <1>5 DEF Trim
    <2>3. Quiet /\ pc' \in {"idle", "summarise", "fit"}
      BY <2>2, EmptyUrgent, QuietWays DEF Fail, FinalizeTurn, FinalizeAfter, Quiet
    <2>4. CompSound(comp')
      <3>1. CompSound(comp)
        BY DEF Work
      <3>2. CompSound([comp EXCEPT !.prefix = DropOldestUnit(comp.prefix)])
        BY <3>1, CompUpdates
      <3>3. comp' = comp \/ comp' = [comp EXCEPT !.prefix = DropOldestUnit(comp.prefix)]
        BY <2>2
      <3> QED BY <3>1, <3>2, <3>3
    <2> QED BY <1>0, <2>1, <2>3, <2>4 DEF Work
  <1>6. CASE Summarised
    <2>1. PICK digest \in BOOLEAN :
             Compacted(CompactedMessages(RecentUsers(comp.source), comp.keep, comp.suffix, digest),
                       PreservedTurns, comp.keep - 1)
      BY <1>6 DEF Summarised
    <2>2. UNCHANGED comp
      BY <1>6 DEF Summarised
    <2>3. IsList(CompactedMessages(RecentUsers(comp.source), comp.keep, comp.suffix, digest))
      BY RecentUsersList, CompactedList DEF Work, CompSound
    <2> QED BY <1>0, <2>1, <2>2, <2>3, CompactedCalm, PreservedIs DEF Work
  <1>7. CASE SummaryViolatesContract
    <2>1. /\ pc' = "fit" /\ UNCHANGED <<live, pending, sinkVars, ghost>>
          /\ comp' = [comp EXCEPT !.contract = comp.contract + 1]
      BY <1>7 DEF SummaryViolatesContract
    <2>2. CompSound(comp')
      BY <2>1, CompUpdates DEF Work
    <2> QED BY <1>0, <2>1, <2>2 DEF Work, Quiet
  <1>8. CASE SummaryTooLong
    <2>1. UNCHANGED <<live, ghost>>
      BY <1>8 DEF SummaryTooLong
    <2>2. \/ /\ comp' = [comp EXCEPT !.salvage = comp.salvage + 1,
                                   !.prefix = DropOldestUnit(comp.prefix),
                                   !.keep = Len(DropOldestUnit(comp.prefix)) + 1]
             /\ pc' = "fit" /\ UNCHANGED <<pending, sinkVars>>
          \/ Fail(<<>>) /\ UNCHANGED comp
      BY <1>8 DEF SummaryTooLong
    <2>3. Quiet /\ pc' \in {"idle", "fit"}
      BY <2>2, EmptyUrgent, QuietWays DEF Fail, FinalizeTurn, FinalizeAfter, Quiet
    <2>4. CompSound(comp')
      <3> DEFINE next == [comp EXCEPT !.salvage = comp.salvage + 1,
                                      !.prefix = DropOldestUnit(comp.prefix),
                                      !.keep = Len(DropOldestUnit(comp.prefix)) + 1]
      <3>1. CompSound(comp)
        BY DEF Work
      <3>2. CompSound(next)
        BY <3>1, CompUpdates
      <3>3. comp' = comp \/ comp' = next
        BY <2>2
      <3> QED BY <3>1, <3>2, <3>3
    <2> QED BY <1>0, <2>1, <2>3, <2>4 DEF Work
  <1> QED BY <1>1, <1>2, <1>3, <1>4, <1>5, <1>6, <1>7, <1>8 DEF Compaction

-----------------------------------------------------------------------------
\* The order of the events of a call, and what may be added to it.

\* What the log says of a call.
Begun(a, call) == \E k \in DOMAIN a : a[k] = ToolCall(call)
Ended(a, call) == \E k \in DOMAIN a : a[k].type = "ToolResult" /\ a[k].call = call
Touched(a, call) == \E k \in DOMAIN a : Immediate(a[k]) /\ a[k].call = call

\* The order of the events of a call: ToolOrder, said of places.
Ordered(a) ==
  /\ \A i, j \in DOMAIN a : \A call : a[i] = ToolCall(call) /\ a[j] = ToolCall(call) => i = j
  /\ \A i, j \in DOMAIN a :
        a[i].type = "ToolResult" /\ a[j].type = "ToolResult" /\ a[i].call = a[j].call => i = j
  /\ \A k \in DOMAIN a : a[k].type = "ToolCallDelta" =>
        \E j \in DOMAIN a : j < k /\ a[j] = ToolCall(a[k].call)
  /\ \A k, j \in DOMAIN a :
        /\ a[k].type \in {"ToolCall", "ToolCallDelta"}
        /\ a[j].type = "ToolResult" /\ a[j].call = a[k].call
        => k < j

\* The elements of two lists in a row.
LEMMA Elements ==
    ASSUME NEW a, NEW b, IsList(a), IsList(b)
    PROVE  /\ \A k \in DOMAIN (a \o b) :
                 \/ k \in DOMAIN a /\ (a \o b)[k] = a[k]
                 \/ k \notin DOMAIN a /\ \E j \in DOMAIN b : k = Len(a) + j /\ (a \o b)[k] = b[j]
           /\ \A k \in DOMAIN a : k \in DOMAIN (a \o b) /\ (a \o b)[k] = a[k]
           /\ \A j \in DOMAIN b : Len(a) + j \in DOMAIN (a \o b) /\ (a \o b)[Len(a) + j] = b[j]
           /\ \A k \in DOMAIN a, j \in DOMAIN b : k < Len(a) + j
           /\ \A k \in DOMAIN a : k \in Nat
           /\ \A j \in DOMAIN b : j \in Nat
           /\ Len(a) \in Nat
  <1> DEFINE n == Len(a)
             m == Len(b)
             q == a \o b
  <1>1. /\ DOMAIN q = 1..(n + m)
        /\ \A k \in 1..n : q[k] = a[k]
        /\ \A i \in 1..m : q[n + i] = b[i]
    BY Joined
  <1>2. DOMAIN a = 1..n /\ DOMAIN b = 1..m /\ n \in Nat /\ m \in Nat
    BY ListIs
  <1> HIDE DEF n, m, q
  <1>3. \A k \in 1..(n + m) : k \in 1..n \/ k - n \in 1..m
    BY <1>2
  <1>4. ASSUME NEW k \in DOMAIN q, k \notin DOMAIN a
        PROVE  \E j \in DOMAIN b : k = n + j /\ q[k] = b[j]
    <2>1. k \in Int /\ k - n \in 1..m
      BY <1>1, <1>2, <1>3, <1>4
    <2>2. q[n + (k - n)] = b[k - n] /\ n + (k - n) = k
      BY <1>1, <1>2, <2>1
    <2> QED BY <1>2, <2>1, <2>2
  <1>5. ASSUME NEW k \in DOMAIN a PROVE k \in DOMAIN q /\ q[k] = a[k] /\ k \in Nat
    BY <1>1, <1>2
  <1>6. ASSUME NEW j \in DOMAIN b PROVE n + j \in DOMAIN q /\ q[n + j] = b[j] /\ j \in Nat
    BY <1>1, <1>2
  <1>7. ASSUME NEW k \in DOMAIN a, NEW j \in DOMAIN b PROVE k < n + j
    BY <1>2
  <1> QED BY <1>2, <1>4, <1>5, <1>6, <1>7 DEF n, q

\* What was said of a call stays so, and only the new events add to it.
LEMMA Grows ==
    ASSUME NEW a, NEW b, IsList(a), IsList(b), NEW call
    PROVE  /\ Begun(a, call) => Begun(a \o b, call)
           /\ Ended(a \o b, call) => Ended(a, call) \/ Ended(b, call)
           /\ Touched(a \o b, call) => Touched(a, call) \/ Touched(b, call)
           /\ Begun(b, call) => Begun(a \o b, call)
  <1> DEFINE q == a \o b
             n == Len(a)
  <1>1. /\ \A k \in DOMAIN q :
              \/ k \in DOMAIN a /\ q[k] = a[k]
              \/ \E j \in DOMAIN b : q[k] = b[j]
        /\ \A k \in DOMAIN a : k \in DOMAIN q /\ q[k] = a[k]
        /\ \A j \in DOMAIN b : n + j \in DOMAIN q /\ q[n + j] = b[j]
    BY Elements
  <1> HIDE DEF q, n
  <1>2. /\ Begun(a, call) => Begun(q, call)
        /\ Begun(b, call) => Begun(q, call)
    BY <1>1 DEF Begun
  <1>3. Ended(q, call) => Ended(a, call) \/ Ended(b, call)
    BY <1>1 DEF Ended
  <1>4. Touched(q, call) => Touched(a, call) \/ Touched(b, call)
    BY <1>1 DEF Touched
  <1> QED BY <1>2, <1>3, <1>4 DEF q

\* Events of other kinds change nothing.
LEMMA PlainOrder ==
    ASSUME NEW a, NEW b, IsList(a), Plain(b), Ordered(a)
    PROVE  Ordered(a \o b) /\ \A call : ~Ended(b, call) /\ ~Touched(b, call)
  <1> DEFINE q == a \o b
  <1>0. IsList(b) /\ \A k \in DOMAIN b : b[k].type \notin {"ToolCall", "ToolCallDelta", "ToolResult"}
    BY DEF Plain, ProperList, Immediate
  <1>1. /\ \A k \in DOMAIN q :
              \/ k \in DOMAIN a /\ q[k] = a[k]
              \/ \E j \in DOMAIN b : q[k] = b[j]
        /\ \A k \in DOMAIN a : k \in DOMAIN q /\ q[k] = a[k]
    BY <1>0, Elements
  <1> HIDE DEF q
  <1>2. \A k \in DOMAIN q : q[k].type \in {"ToolCall", "ToolCallDelta", "ToolResult"}
                               => k \in DOMAIN a /\ q[k] = a[k]
    BY <1>0, <1>1
  <1>3. \A call : ToolCall(call).type = "ToolCall"
    BY DEF ToolCall
  <1>4. \A i, j \in DOMAIN q : \A call : q[i] = ToolCall(call) /\ q[j] = ToolCall(call) => i = j
    <2> SUFFICES ASSUME NEW i \in DOMAIN q, NEW j \in DOMAIN q, NEW call,
                        q[i] = ToolCall(call), q[j] = ToolCall(call)
                 PROVE  i = j
      OBVIOUS
    <2>1. i \in DOMAIN a /\ q[i] = a[i] /\ j \in DOMAIN a /\ q[j] = a[j]
      BY <1>2, <1>3
    <2> QED BY <2>1 DEF Ordered
  <1>5. \A i, j \in DOMAIN q :
           q[i].type = "ToolResult" /\ q[j].type = "ToolResult" /\ q[i].call = q[j].call => i = j
    BY <1>2 DEF Ordered
  <1>6. \A k \in DOMAIN q : q[k].type = "ToolCallDelta" =>
           \E j \in DOMAIN q : j < k /\ q[j] = ToolCall(q[k].call)
    <2> SUFFICES ASSUME NEW k \in DOMAIN q, q[k].type = "ToolCallDelta"
                 PROVE  \E j \in DOMAIN q : j < k /\ q[j] = ToolCall(q[k].call)
      OBVIOUS
    <2>1. k \in DOMAIN a /\ q[k] = a[k]
      BY <1>2
    <2>2. PICK j \in DOMAIN a : j < k /\ a[j] = ToolCall(a[k].call)
      BY <2>1 DEF Ordered
    <2> QED BY <1>1, <2>1, <2>2
  <1>7. \A k, j \in DOMAIN q :
           /\ q[k].type \in {"ToolCall", "ToolCallDelta"}
           /\ q[j].type = "ToolResult" /\ q[j].call = q[k].call
           => k < j
    BY <1>2 DEF Ordered
  <1>8. Ordered(q)
    BY <1>4, <1>5, <1>6, <1>7 DEF Ordered
  <1>9. \A call : ~Ended(b, call) /\ ~Touched(b, call)
    BY <1>0 DEF Ended, Touched, Immediate
  <1> QED BY <1>8, <1>9 DEF q

\* A call that the log does not know yet.
LEMMA CallOrder ==
    ASSUME NEW a, IsList(a), Ordered(a), NEW call, ~Touched(a, call)
    PROVE  Ordered(a \o <<ToolCall(call)>>)
  <1> DEFINE b == <<ToolCall(call)>>
             q == a \o b
             n == Len(a) + 1
  <1>0. IsList(b) /\ DOMAIN b = {1} /\ b[1] = ToolCall(call)
    BY Single
  <1> HIDE DEF b
  <1>1. /\ \A k \in DOMAIN q :
              \/ k \in DOMAIN a /\ q[k] = a[k]
              \/ k = n /\ q[k] = ToolCall(call)
        /\ \A k \in DOMAIN a : k \in DOMAIN q /\ q[k] = a[k]
    BY <1>0, Elements
  <1> HIDE DEF q, n
  <1>2. ToolCall(call).type = "ToolCall" /\ ToolCall(call).call = call
        /\ \A c : ToolCall(c) = ToolCall(call) => c = call
    BY DEF ToolCall
  <1>3. \A k \in DOMAIN a : a[k].type \in {"ToolCall", "ToolCallDelta", "ToolResult"} => a[k].call # call
    BY DEF Touched, Immediate
  <1>4. \A i, j \in DOMAIN q : \A c : q[i] = ToolCall(c) /\ q[j] = ToolCall(c) => i = j
    <2> SUFFICES ASSUME NEW i \in DOMAIN q, NEW j \in DOMAIN q, NEW c,
                        q[i] = ToolCall(c), q[j] = ToolCall(c)
                 PROVE  i = j
      OBVIOUS
    <2>1. ToolCall(c).type = "ToolCall" /\ ToolCall(c).call = c
      BY DEF ToolCall
    <2>2. CASE c = call
      <3>1. ASSUME NEW k \in DOMAIN q, q[k] = ToolCall(c) PROVE k = n
        BY <1>1, <1>3, <2>1, <2>2, <3>1
      <3> QED BY <3>1
    <2>3. CASE c # call
      <3>1. i \in DOMAIN a /\ q[i] = a[i] /\ j \in DOMAIN a /\ q[j] = a[j]
        BY <1>1, <1>2, <2>3
      <3> QED BY <3>1 DEF Ordered
    <2> QED BY <2>2, <2>3
  <1>5. \A k \in DOMAIN q : q[k].type # "ToolCall" => k \in DOMAIN a /\ q[k] = a[k]
    BY <1>1, <1>2
  <1>6. \A i, j \in DOMAIN q :
           q[i].type = "ToolResult" /\ q[j].type = "ToolResult" /\ q[i].call = q[j].call => i = j
    <2> SUFFICES ASSUME NEW i \in DOMAIN q, NEW j \in DOMAIN q, q[i].type = "ToolResult",
                        q[j].type = "ToolResult", q[i].call = q[j].call
                 PROVE  i = j
      OBVIOUS
    <2>1. i \in DOMAIN a /\ q[i] = a[i] /\ j \in DOMAIN a /\ q[j] = a[j]
      BY <1>5
    <2> QED BY <2>1 DEF Ordered
  <1>7. \A k \in DOMAIN q : q[k].type = "ToolCallDelta" =>
           \E j \in DOMAIN q : j < k /\ q[j] = ToolCall(q[k].call)
    <2> SUFFICES ASSUME NEW k \in DOMAIN q, q[k].type = "ToolCallDelta"
                 PROVE  \E j \in DOMAIN q : j < k /\ q[j] = ToolCall(q[k].call)
      OBVIOUS
    <2>1. k \in DOMAIN a /\ q[k] = a[k]
      BY <1>5
    <2>2. PICK j \in DOMAIN a : j < k /\ a[j] = ToolCall(a[k].call)
      BY <2>1 DEF Ordered
    <2> QED BY <1>1, <2>1, <2>2
  <1>8. \A k, j \in DOMAIN q :
           /\ q[k].type \in {"ToolCall", "ToolCallDelta"}
           /\ q[j].type = "ToolResult" /\ q[j].call = q[k].call
           => k < j
    <2> SUFFICES ASSUME NEW k \in DOMAIN q, NEW j \in DOMAIN q,
                        q[k].type \in {"ToolCall", "ToolCallDelta"},
                        q[j].type = "ToolResult", q[j].call = q[k].call
                 PROVE  k < j
      OBVIOUS
    <2>1. j \in DOMAIN a /\ q[j] = a[j]
      BY <1>5
    <2>2. k \in DOMAIN a /\ q[k] = a[k]
      BY <1>1, <1>2, <1>3, <2>1
    <2> QED BY <2>1, <2>2 DEF Ordered
  <1> QED BY <1>4, <1>6, <1>7, <1>8 DEF Ordered, q, b

\* Output of calls that have begun and not ended.
LEMMA DeltaOrder ==
    ASSUME NEW a, IsList(a), Ordered(a), NEW b, IsList(b),
           \A k \in DOMAIN b : /\ b[k].type = "ToolCallDelta"
                               /\ Begun(a, b[k].call) /\ ~Ended(a, b[k].call)
    PROVE  Ordered(a \o b) /\ \A call : ~Ended(b, call)
  <1> DEFINE q == a \o b
             n == Len(a)
  <1>1. /\ \A k \in DOMAIN q :
              \/ k \in DOMAIN a /\ q[k] = a[k]
              \/ k \notin DOMAIN a /\ \E j \in DOMAIN b : k = n + j /\ q[k] = b[j]
        /\ \A k \in DOMAIN a : k \in DOMAIN q /\ q[k] = a[k]
        /\ \A k \in DOMAIN a, j \in DOMAIN b : k < n + j
    BY Elements
  <1> HIDE DEF q, n
  <1>2. \A k \in DOMAIN q : q[k].type # "ToolCallDelta" => k \in DOMAIN a /\ q[k] = a[k]
    BY <1>1
  <1>3. \A i, j \in DOMAIN q : \A c : q[i] = ToolCall(c) /\ q[j] = ToolCall(c) => i = j
    <2> SUFFICES ASSUME NEW i \in DOMAIN q, NEW j \in DOMAIN q, NEW c,
                        q[i] = ToolCall(c), q[j] = ToolCall(c)
                 PROVE  i = j
      OBVIOUS
    <2>1. ToolCall(c).type = "ToolCall"
      BY DEF ToolCall
    <2>2. i \in DOMAIN a /\ q[i] = a[i] /\ j \in DOMAIN a /\ q[j] = a[j]
      BY <1>2, <2>1
    <2> QED BY <2>2 DEF Ordered
  <1>4. \A i, j \in DOMAIN q :
           q[i].type = "ToolResult" /\ q[j].type = "ToolResult" /\ q[i].call = q[j].call => i = j
    <2> SUFFICES ASSUME NEW i \in DOMAIN q, NEW j \in DOMAIN q, q[i].type = "ToolResult",
                        q[j].type = "ToolResult", q[i].call = q[j].call
                 PROVE  i = j
      OBVIOUS
    <2>1. i \in DOMAIN a /\ q[i] = a[i] /\ j \in DOMAIN a /\ q[j] = a[j]
      BY <1>2
    <2> QED BY <2>1 DEF Ordered
  <1>5. \A k \in DOMAIN q : q[k].type = "ToolCallDelta" =>
           \E j \in DOMAIN q : j < k /\ q[j] = ToolCall(q[k].call)
    <2> SUFFICES ASSUME NEW k \in DOMAIN q, q[k].type = "ToolCallDelta"
                 PROVE  \E j \in DOMAIN q : j < k /\ q[j] = ToolCall(q[k].call)
      OBVIOUS
    <2>1. CASE k \in DOMAIN a
      <3>1. q[k] = a[k]
        BY <1>1, <2>1
      <3>2. PICK j \in DOMAIN a : j < k /\ a[j] = ToolCall(a[k].call)
        BY <2>1, <3>1 DEF Ordered
      <3> QED BY <1>1, <3>1, <3>2
    <2>2. CASE k \notin DOMAIN a
      <3>1. PICK j \in DOMAIN b : k = n + j /\ q[k] = b[j]
        BY <1>1, <2>2
      <3>2. PICK i \in DOMAIN a : a[i] = ToolCall(b[j].call)
        BY DEF Begun
      <3>3. i < k /\ i \in DOMAIN q /\ q[i] = a[i]
        BY <1>1, <3>1
      <3> QED BY <3>1, <3>2, <3>3
    <2> QED BY <2>1, <2>2
  <1>6. \A k, j \in DOMAIN q :
           /\ q[k].type \in {"ToolCall", "ToolCallDelta"}
           /\ q[j].type = "ToolResult" /\ q[j].call = q[k].call
           => k < j
    <2> SUFFICES ASSUME NEW k \in DOMAIN q, NEW j \in DOMAIN q,
                        q[k].type \in {"ToolCall", "ToolCallDelta"},
                        q[j].type = "ToolResult", q[j].call = q[k].call
                 PROVE  k < j
      OBVIOUS
    <2>1. j \in DOMAIN a /\ q[j] = a[j]
      BY <1>2
    <2>2. k \in DOMAIN a /\ q[k] = a[k]
      <3> SUFFICES ASSUME k \notin DOMAIN a PROVE FALSE
        BY <1>1
      <3>1. PICK i \in DOMAIN b : q[k] = b[i]
        BY <1>1
      <3>2. ~Ended(a, b[i].call)
        OBVIOUS
      <3> QED BY <2>1, <3>1, <3>2 DEF Ended
    <2> QED BY <2>1, <2>2 DEF Ordered
  <1>7. \A call : ~Ended(b, call)
    BY DEF Ended
  <1> QED BY <1>3, <1>4, <1>5, <1>6, <1>7 DEF Ordered, q

\* The result of a call that has none.
LEMMA ResultOrder ==
    ASSUME NEW a, IsList(a), Ordered(a), NEW call, ~Ended(a, call), NEW form
    PROVE  Ordered(a \o <<ToolResult(call, form)>>)
  <1> DEFINE e == ToolResult(call, form)
             b == <<e>>
             q == a \o b
             n == Len(a) + 1
  <1>0. IsList(b) /\ DOMAIN b = {1} /\ b[1] = e
    BY Single
  <1>1. e.type = "ToolResult" /\ e.call = call
    BY DEF ToolResult
  <1> HIDE DEF b, e
  <1>2. /\ \A k \in DOMAIN q :
              \/ k \in DOMAIN a /\ q[k] = a[k]
              \/ k \notin DOMAIN a /\ k = n /\ q[k] = e
        /\ \A k \in DOMAIN a : k \in DOMAIN q /\ q[k] = a[k]
        /\ \A k \in DOMAIN a : k < n
    BY <1>0, Elements
  <1> HIDE DEF q, n
  <1>3. \A k \in DOMAIN q : q[k].type # "ToolResult" => k \in DOMAIN a /\ q[k] = a[k]
    BY <1>1, <1>2
  <1>4. \A i, j \in DOMAIN q : \A c : q[i] = ToolCall(c) /\ q[j] = ToolCall(c) => i = j
    <2> SUFFICES ASSUME NEW i \in DOMAIN q, NEW j \in DOMAIN q, NEW c,
                        q[i] = ToolCall(c), q[j] = ToolCall(c)
                 PROVE  i = j
      OBVIOUS
    <2>1. ToolCall(c).type = "ToolCall"
      BY DEF ToolCall
    <2>2. i \in DOMAIN a /\ q[i] = a[i] /\ j \in DOMAIN a /\ q[j] = a[j]
      BY <1>3, <2>1
    <2> QED BY <2>2 DEF Ordered
  <1>5. \A i, j \in DOMAIN q :
           q[i].type = "ToolResult" /\ q[j].type = "ToolResult" /\ q[i].call = q[j].call => i = j
    <2> SUFFICES ASSUME NEW i \in DOMAIN q, NEW j \in DOMAIN q, q[i].type = "ToolResult",
                        q[j].type = "ToolResult", q[i].call = q[j].call
                 PROVE  i = j
      OBVIOUS
    <2>1. \A k \in DOMAIN a : a[k].type = "ToolResult" => a[k].call # call
      BY DEF Ended
    <2>2. CASE q[i].call = call
      <3>1. i = n /\ j = n
        BY <1>2, <2>1, <2>2
      <3> QED BY <3>1
    <2>3. CASE q[i].call # call
      <3>1. i \in DOMAIN a /\ q[i] = a[i] /\ j \in DOMAIN a /\ q[j] = a[j]
        BY <1>1, <1>2, <2>3
      <3> QED BY <3>1 DEF Ordered
    <2> QED BY <2>2, <2>3
  <1>6. \A k \in DOMAIN q : q[k].type = "ToolCallDelta" =>
           \E j \in DOMAIN q : j < k /\ q[j] = ToolCall(q[k].call)
    <2> SUFFICES ASSUME NEW k \in DOMAIN q, q[k].type = "ToolCallDelta"
                 PROVE  \E j \in DOMAIN q : j < k /\ q[j] = ToolCall(q[k].call)
      OBVIOUS
    <2>1. k \in DOMAIN a /\ q[k] = a[k]
      BY <1>3
    <2>2. PICK j \in DOMAIN a : j < k /\ a[j] = ToolCall(a[k].call)
      BY <2>1 DEF Ordered
    <2> QED BY <1>2, <2>1, <2>2
  <1>7. \A k, j \in DOMAIN q :
           /\ q[k].type \in {"ToolCall", "ToolCallDelta"}
           /\ q[j].type = "ToolResult" /\ q[j].call = q[k].call
           => k < j
    <2> SUFFICES ASSUME NEW k \in DOMAIN q, NEW j \in DOMAIN q,
                        q[k].type \in {"ToolCall", "ToolCallDelta"},
                        q[j].type = "ToolResult", q[j].call = q[k].call
                 PROVE  k < j
      OBVIOUS
    <2>1. k \in DOMAIN a /\ q[k] = a[k]
      BY <1>3
    <2>2. CASE j \in DOMAIN a
      BY <1>2, <2>1, <2>2 DEF Ordered
    <2>3. CASE j \notin DOMAIN a
      BY <1>2, <2>1, <2>3
    <2> QED BY <2>2, <2>3
  <1> QED BY <1>4, <1>5, <1>6, <1>7 DEF Ordered, q, b, e

-----------------------------------------------------------------------------
\* The tool calls of a reply.

\* Where the tool calls of a reply are under way.
Working == {"call", "dispatch", "results"}

\* The calls of the log have the numbers that have been given.
Known(a, n) == \A k \in DOMAIN a : Immediate(a[k]) => a[k].call.id \in 1..n

\* The tool calls t of a reply at p, with the log a and n calls given: each call
\* has its own number, an allowed call has begun, no call has ended before its
\* result is recorded, and the calls whose hooks are still to come are unknown.
BatchOf(t, a, p, n) ==
  /\ IsList(t.calls) /\ t.next \in Nat \ {0}
  /\ \A i \in DOMAIN t.calls : t.calls[i].id \in 1..n
  /\ \A i, j \in DOMAIN t.calls : t.calls[i] = t.calls[j] => i = j
  /\ \A call \in t.allowed : Begun(a, call) /\ \E i \in DOMAIN t.calls : t.calls[i] = call
  /\ t.running \subseteq t.allowed
  /\ \A k \in DOMAIN t.channel : t.channel[k] \in t.allowed
  /\ p = "call" => /\ t.next <= Len(t.calls)
                   /\ \A i \in DOMAIN t.calls : i >= t.next => ~Touched(a, t.calls[i])
  /\ p \in {"call", "dispatch"} => \A i \in DOMAIN t.calls : ~Ended(a, t.calls[i])
  /\ p = "results" => \A i \in DOMAIN t.calls : i >= t.next => ~Ended(a, t.calls[i])

\* The order of the log is not inductive without what the calls under way are.
ToolInv ==
  /\ ghost.calls \in Nat
  /\ Known(emitted, ghost.calls) /\ Ordered(emitted)
  /\ pc \in Working => BatchOf(tools, emitted, pc, ghost.calls)

\* Numbers that have been given, in two lists in a row.
LEMMA KnownGrows ==
    ASSUME NEW a, NEW b, IsList(a), IsList(b), NEW n, Known(a, n), Known(b, n)
    PROVE  Known(a \o b, n)
  <1> DEFINE q == a \o b
  <1>1. \A k \in DOMAIN q :
           \/ k \in DOMAIN a /\ q[k] = a[k]
           \/ \E j \in DOMAIN b : q[k] = b[j]
    BY Elements
  <1> HIDE DEF q
  <1>2. Known(q, n)
    BY <1>1 DEF Known
  <1> QED BY <1>2 DEF q

\* Three lists in a row.
LEMMA Assoc ==
    ASSUME NEW a, NEW b, NEW c, IsList(a), IsList(b), IsList(c)
    PROVE  (a \o b) \o c = a \o (b \o c)
  <1> DEFINE S == {a[k] : k \in DOMAIN a} \cup {b[k] : k \in DOMAIN b} \cup {c[k] : k \in DOMAIN c}
  <1>1. ASSUME NEW q, IsList(q), NEW T, \A k \in DOMAIN q : q[k] \in T
        PROVE  q \in Seq(T)
    <2>1. PICK n \in Nat : q = [k \in 1..n |-> q[k]]
      BY <1>1 DEF IsList
    <2>2. DOMAIN q = 1..n
      BY <2>1
    <2>3. q \in [1..n -> T]
      BY <2>1, <2>2, <1>1
    <2> QED BY <2>3, SeqDef
  <1>2. /\ \A k \in DOMAIN a : a[k] \in S
        /\ \A k \in DOMAIN b : b[k] \in S
        /\ \A k \in DOMAIN c : c[k] \in S
    OBVIOUS
  <1> HIDE DEF S
  <1>3. a \in Seq(S)
    BY <1>1, <1>2
  <1>4. b \in Seq(S)
    BY <1>1, <1>2
  <1>5. c \in Seq(S)
    BY <1>1, <1>2
  <1> QED BY <1>3, <1>4, <1>5, ConcatAssociative

-----------------------------------------------------------------------------
\* A step without events that are emitted at once leaves the order alone.
LEMMA QuietGrows ==
    ASSUME SinkInv, Quiet
    PROVE  emitted' = emitted \/ \E b : Plain(b) /\ emitted' = emitted \o b
  <1>1. CASE UNCHANGED <<pending, sinkVars>>
    BY <1>1 DEF sinkVars
  <1>2. CASE \E events : Push(events)
    BY <1>2 DEF Push, sinkVars
  <1>3. CASE \E events : Plain(events) /\ FlushAfter(<<>>, events)
    <2>1. PICK events : Plain(events) /\ FlushAfter(<<>>, events)
      BY <1>3
    <2>2. ProperList(pending \o events)
      BY <2>1, ProperJoined DEF SinkInv, Plain
    <2>3. Plain(Delayed(pending \o events))
      BY <2>2, DelayedIs
    <2>4. Plain(<<>> \o Delayed(pending \o events))
      BY <2>3, EmptyUrgent, PlainJoined
    <2>5. emitted' = emitted \o (<<>> \o Delayed(pending \o events))
      BY <2>1 DEF FlushAfter
    <2> QED BY <2>4, <2>5
  <1> QED BY <1>1, <1>2, <1>3 DEF Quiet

\* Events that wait name no call.
LEMMA PlainKnown == ASSUME NEW b, Plain(b), NEW n PROVE Known(b, n)
  BY DEF Plain, Known

\* A step whose events wait says nothing of calls.
LEMMA QuietLog ==
    ASSUME SinkInv, Quiet, Ordered(emitted), NEW n, Known(emitted, n)
    PROVE  /\ Ordered(emitted') /\ Known(emitted', n)
           /\ \A call : /\ Begun(emitted, call) => Begun(emitted', call)
                        /\ Ended(emitted', call) => Ended(emitted, call)
                        /\ Touched(emitted', call) => Touched(emitted, call)
  <1>1. CASE emitted' = emitted
    BY <1>1
  <1>2. CASE \E b : Plain(b) /\ emitted' = emitted \o b
    <2>1. PICK b : Plain(b) /\ emitted' = emitted \o b
      BY <1>2
    <2>2. IsList(emitted) /\ IsList(b)
      BY <2>1 DEF SinkInv, Plain, ProperList
    <2>3. Ordered(emitted \o b) /\ \A call : ~Ended(b, call) /\ ~Touched(b, call)
      BY <2>1, <2>2, PlainOrder
    <2>4. Known(emitted \o b, n)
      BY <2>1, <2>2, PlainKnown, KnownGrows
    <2>5. ASSUME NEW call
          PROVE  /\ Begun(emitted, call) => Begun(emitted \o b, call)
                 /\ Ended(emitted \o b, call) => Ended(emitted, call)
                 /\ Touched(emitted \o b, call) => Touched(emitted, call)
      BY <2>2, <2>3, Grows
    <2> QED BY <2>1, <2>3, <2>4, <2>5
  <1> QED BY <1>1, <1>2, QuietGrows

\* A step outside tool calls keeps what is known of them.
LEMMA CalmKeepsTools == ASSUME SinkInv, ToolInv, Calm PROVE ToolInv'
  <1>1. Ordered(emitted') /\ Known(emitted', ghost.calls)
    BY QuietLog DEF ToolInv, Calm
  <1>2. pc' \notin Working /\ ghost'.calls = ghost.calls
    BY DEF Calm, Working
  <1> QED BY <1>1, <1>2 DEF ToolInv

-----------------------------------------------------------------------------
\* The replies.
LEMMA RepliedIs ==
    ASSUME Shape, ToolInv, NEW n \in Nat, Replied(n) PROVE ghost'.calls = ghost.calls + n
  <1>1. ghost' = [ghost EXCEPT !["calls"] = ghost.calls + n]
    BY DEF Replied
  <1> QED BY <1>1 DEF Shape, GhostFields

\* Replies without tool calls.
LEMMA ReplyCalm == ASSUME Work, Shape, ToolInv, Reply, ~ReplyTools PROVE Calm
  <1> USE DEF Calm
  <1>1. CASE ReplyText
    <2> DEFINE text == ghost.calls + exec.replies + 1
               said == Append(live, AssistantMsg(text, <<>>))
    <2>1. UNCHANGED <<comp, tools>> /\ Replied(0)
      BY <1>1 DEF ReplyText
    <2>2. ghost'.calls = ghost.calls
      BY <2>1, RepliedIs DEF ToolInv
    <2>3. IsList(said) /\ IsList(Append(said, UserMsg("ContinuationPrompt", 0)))
      BY Appended DEF Work
    <2>4. Plain(<<AssistantFinal(text)>>)
      BY PlainEvents
    <2>5. /\ live' \in {said, Append(said, UserMsg("ContinuationPrompt", 0))}
          /\ Completed("Completed", <<AssistantFinal(text)>>) \/ Continued(<<AssistantFinal(text)>>)
      BY <1>1 DEF ReplyText
    <2> HIDE DEF text, said
    <2>6. Quiet /\ pc' \in {"turn_end", "context"}
      BY <2>4, <2>5, QuietWays DEF Completed, Continued
    <2> QED BY <2>1, <2>2, <2>3, <2>5, <2>6 DEF Work
  <1>2. CASE ReplyTooLong
    <2>1. UNCHANGED <<live, tools, ghost>>
      BY <1>2 DEF ReplyTooLong
    <2>2. \/ /\ pc' = "before_compact" /\ UNCHANGED <<pending, sinkVars>>
             /\ comp' = [NoCompaction EXCEPT !.source = live, !.reactive = TRUE]
          \/ Fail(<<>>) /\ UNCHANGED comp
      BY <1>2 DEF ReplyTooLong
    <2>3. Quiet /\ pc' \in {"idle", "before_compact"}
      BY <2>2, EmptyUrgent, QuietWays DEF Fail, FinalizeTurn, FinalizeAfter, Quiet
    <2>4. CompSound(comp')
      BY <2>2, NoneSound DEF Work
    <2> QED BY <2>1, <2>3, <2>4 DEF Work
  <1>3. CASE ReplyFails
    <2>1. UNCHANGED <<live, comp, tools, ghost>>
      BY <1>3 DEF ReplyFails
    <2>2. Fail(<<>>) \/ Completed("Cancelled", <<>>)
      BY <1>3 DEF ReplyFails
    <2>3. Quiet /\ pc' \in {"idle", "turn_end"}
      BY <2>2, EmptyUrgent, QuietWays DEF Fail, FinalizeTurn, FinalizeAfter, Completed
    <2> QED BY <2>1, <2>3 DEF Work
  <1> QED BY <1>1, <1>2, <1>3 DEF Reply

\* The calls of a reply are new to the log.
LEMMA ReplyToolsKeeps ==
    ASSUME Work, Shape, SinkInv, ToolInv, ReplyTools PROVE Quiet /\ Work' /\ ToolInv'
  <1>0. PICK n \in 1..MaxBatch : \E used \in [1..n -> Tools] :
           LET calls == [k \in 1..n |-> [id |-> ghost.calls + k, tool |-> used[k]]]
               text == ghost.calls + exec.replies + 1
           IN  /\ Replied(n)
               /\ live' = Append(live, AssistantMsg(text, calls))
               /\ IF surface.tools
                  THEN /\ pc' = "call"
                       /\ tools' = [NoTools EXCEPT !.calls = calls]
                       /\ Push(<<AssistantFinal(text)>>)
                  ELSE /\ Completed("Completed", <<AssistantFinal(text)>>)
                       /\ UNCHANGED tools
    BY DEF ReplyTools
  <1>1. PICK used \in [1..n -> Tools] :
           LET calls == [k \in 1..n |-> [id |-> ghost.calls + k, tool |-> used[k]]]
               text == ghost.calls + exec.replies + 1
           IN  /\ Replied(n)
               /\ live' = Append(live, AssistantMsg(text, calls))
               /\ IF surface.tools
                  THEN /\ pc' = "call"
                       /\ tools' = [NoTools EXCEPT !.calls = calls]
                       /\ Push(<<AssistantFinal(text)>>)
                  ELSE /\ Completed("Completed", <<AssistantFinal(text)>>)
                       /\ UNCHANGED tools
    BY <1>0
  <1> DEFINE calls == [k \in 1..n |-> [id |-> ghost.calls + k, tool |-> used[k]]]
             text == ghost.calls + exec.replies + 1
             message == AssistantMsg(text, calls)
  <1>2. /\ Replied(n) /\ live' = Append(live, message)
        /\ \/ /\ pc' = "call" /\ tools' = [NoTools EXCEPT !.calls = calls]
              /\ Push(<<AssistantFinal(text)>>)
           \/ Completed("Completed", <<AssistantFinal(text)>>) /\ UNCHANGED tools
    BY <1>1
  <1>3. n \in Nat /\ n >= 1
    <2>1. MaxBatch \in Nat
      BY LoopSettings
    <2> QED BY <2>1
  <1>4. ghost.calls \in Nat
    BY DEF ToolInv
  <1>5. ghost'.calls = ghost.calls + n
    BY <1>2, <1>3, RepliedIs
  <1>6. UNCHANGED comp
    BY DEF ReplyTools
  <1>7. /\ IsList(calls) /\ DOMAIN calls = 1..n /\ \A k \in 1..n : calls[k].id = ghost.calls + k
    <2>1. calls = [k \in 1..n |-> calls[k]]
      OBVIOUS
    <2>2. DOMAIN calls = 1..n /\ \A k \in 1..n : calls[k].id = ghost.calls + k
      OBVIOUS
    <2> HIDE DEF calls
    <2> QED BY <1>3, <2>1, <2>2, ListMade
  <1>8. Plain(<<AssistantFinal(text)>>)
    BY PlainEvents
  <1> HIDE DEF calls, text, message
  <1>9. Quiet
    BY <1>2, <1>8, QuietWays DEF Quiet
  <1>10. Work'
    <2>1. IsList(live') /\ CompSound(comp')
      BY <1>2, <1>6, Appended DEF Work
    <2>2. ToolsSound(tools')
      BY <1>2, NoneSound DEF Work
    <2> QED BY <2>1, <2>2 DEF Work
  <1>11. /\ Ordered(emitted') /\ Known(emitted', ghost.calls)
         /\ \A call : Ended(emitted', call) => Ended(emitted, call)
         /\ \A call : Touched(emitted', call) => Touched(emitted, call)
    BY <1>9, QuietLog DEF ToolInv
  <1>12. Known(emitted', ghost'.calls) /\ ghost'.calls \in Nat
    BY <1>3, <1>4, <1>5, <1>11 DEF Known
  <1>13. ASSUME pc' \in Working PROVE BatchOf(tools', emitted', pc', ghost'.calls)
    <2>1. pc' = "call" /\ tools' = [NoTools EXCEPT !.calls = calls]
      BY <1>2, <1>13 DEF Completed, Working
    <2>2. tools' = [calls |-> calls, next |-> 1, allowed |-> {}, running |-> {},
                    results |-> <<>>, channel |-> <<>>, deltas |-> 0]
      BY <2>1 DEF NoTools
    <2>3. /\ tools'.calls = calls /\ tools'.next = 1 /\ tools'.allowed = {}
          /\ tools'.running = {} /\ tools'.channel = <<>>
      BY <2>2
    <2>4. \A i \in DOMAIN calls : calls[i].id \in 1..ghost'.calls /\ calls[i].id \notin 1..ghost.calls
      BY <1>3, <1>4, <1>5, <1>7
    <2>5. \A i, j \in DOMAIN calls : calls[i] = calls[j] => i = j
      BY <1>4, <1>3, <1>7
    <2>6. \A i \in DOMAIN calls : ~Touched(emitted, calls[i]) /\ ~Ended(emitted, calls[i])
      BY <2>4 DEF ToolInv, Known, Touched, Ended, Immediate
    <2>7. Len(calls) = n
      BY <1>3, <1>7, ListIs
    <2>8. DOMAIN <<>> = {}
      OBVIOUS
    <2>9. \A i \in DOMAIN calls : ~Touched(emitted', calls[i]) /\ ~Ended(emitted', calls[i])
      BY <1>11, <2>6
    <2> QED BY <1>3, <1>7, <2>1, <2>3, <2>4, <2>5, <2>7, <2>8, <2>9 DEF BatchOf
  <1> QED BY <1>9, <1>10, <1>11, <1>12, <1>13 DEF ToolInv

-----------------------------------------------------------------------------
\* The steps of execute_tool_calls.

\* What a step of the tool calls leaves in tools.
ToolsAre(t, u, next, allowed, running, channel) ==
  /\ ToolsSound(u) /\ u.calls = t.calls /\ u.next = next
  /\ u.allowed = allowed /\ u.running = running /\ u.channel = channel

\* The changes of the tool calls that are under way.
LEMMA ToolsUpdates ==
    ASSUME NEW t, ToolsSound(t)
    PROVE  /\ \A next, allowed, running :
                 ToolsAre(t, [t EXCEPT !.next = next, !.allowed = allowed, !.running = running],
                          next, allowed, running, t.channel)
           /\ \A next : ToolsAre(t, [t EXCEPT !.next = next], next, t.allowed, t.running, t.channel)
           /\ \A channel, deltas : IsList(channel) =>
                 ToolsAre(t, [t EXCEPT !.channel = channel, !.deltas = deltas],
                          t.next, t.allowed, t.running, channel)
           /\ \A running, results :
                 ToolsAre(t, [t EXCEPT !.running = running, !.results = results],
                          t.next, t.allowed, running, t.channel)
           /\ \A channel : IsList(channel) =>
                 ToolsAre(t, [t EXCEPT !.channel = channel],
                          t.next, t.allowed, t.running, channel)
           /\ \A channel, next : IsList(channel) =>
                 ToolsAre(t, [t EXCEPT !.channel = channel, !.next = next],
                          next, t.allowed, t.running, channel)
  <1>1. /\ DOMAIN t = {"calls", "next", "allowed", "running", "results", "channel", "deltas"}
        /\ IsList(t.channel)
    BY DEF ToolsSound
  <1>2. ASSUME NEW z, z = [x \in DOMAIN z |-> z[x]], DOMAIN z = DOMAIN t,
               z.calls = t.calls, IsList(z.channel)
        PROVE  ToolsAre(t, z, z.next, z.allowed, z.running, z.channel)
    <2>1. z = [calls |-> z.calls, next |-> z.next, allowed |-> z.allowed, running |-> z.running,
               results |-> z.results, channel |-> z.channel, deltas |-> z.deltas]
      BY <1>1, <1>2
    <2> QED BY <1>2, <2>1 DEF ToolsAre, ToolsSound
  <1>3. ASSUME NEW next, NEW allowed, NEW running
        PROVE  ToolsAre(t, [t EXCEPT !.next = next, !.allowed = allowed, !.running = running],
                        next, allowed, running, t.channel)
    <2> DEFINE z == [t EXCEPT !.next = next, !.allowed = allowed, !.running = running]
    <2>1. DOMAIN z = DOMAIN t /\ z = [x \in DOMAIN z |-> z[x]]
      OBVIOUS
    <2>2. /\ z.calls = t.calls /\ z.next = next /\ z.allowed = allowed /\ z.running = running
          /\ z.channel = t.channel
      BY <1>1
    <2> HIDE DEF z
    <2>3. ToolsAre(t, z, z.next, z.allowed, z.running, z.channel)
      BY <1>1, <1>2, <2>1, <2>2
    <2>4. ToolsAre(t, z, next, allowed, running, t.channel)
      BY <2>2, <2>3
    <2> QED BY <2>4 DEF z
  <1>4. ASSUME NEW next
        PROVE  ToolsAre(t, [t EXCEPT !.next = next], next, t.allowed, t.running, t.channel)
    <2> DEFINE z == [t EXCEPT !.next = next]
    <2>1. DOMAIN z = DOMAIN t /\ z = [x \in DOMAIN z |-> z[x]]
      OBVIOUS
    <2>2. /\ z.calls = t.calls /\ z.next = next /\ z.allowed = t.allowed
          /\ z.running = t.running /\ z.channel = t.channel
      BY <1>1
    <2> HIDE DEF z
    <2>3. ToolsAre(t, z, z.next, z.allowed, z.running, z.channel)
      BY <1>1, <1>2, <2>1, <2>2
    <2>4. ToolsAre(t, z, next, t.allowed, t.running, t.channel)
      BY <2>2, <2>3
    <2> QED BY <2>4 DEF z
  <1>5. ASSUME NEW channel, NEW deltas, IsList(channel)
        PROVE  ToolsAre(t, [t EXCEPT !.channel = channel, !.deltas = deltas],
                        t.next, t.allowed, t.running, channel)
    <2> DEFINE z == [t EXCEPT !.channel = channel, !.deltas = deltas]
    <2>1. DOMAIN z = DOMAIN t /\ z = [x \in DOMAIN z |-> z[x]]
      OBVIOUS
    <2>2. /\ z.calls = t.calls /\ z.next = t.next /\ z.allowed = t.allowed
          /\ z.running = t.running /\ z.channel = channel
      BY <1>1
    <2> HIDE DEF z
    <2>3. ToolsAre(t, z, z.next, z.allowed, z.running, z.channel)
      BY <1>2, <1>5, <2>1, <2>2
    <2>4. ToolsAre(t, z, t.next, t.allowed, t.running, channel)
      BY <2>2, <2>3
    <2> QED BY <2>4 DEF z
  <1>6. ASSUME NEW running, NEW results
        PROVE  ToolsAre(t, [t EXCEPT !.running = running, !.results = results],
                        t.next, t.allowed, running, t.channel)
    <2> DEFINE z == [t EXCEPT !.running = running, !.results = results]
    <2>1. DOMAIN z = DOMAIN t /\ z = [x \in DOMAIN z |-> z[x]]
      OBVIOUS
    <2>2. /\ z.calls = t.calls /\ z.next = t.next /\ z.allowed = t.allowed
          /\ z.running = running /\ z.channel = t.channel
      BY <1>1
    <2> HIDE DEF z
    <2>3. ToolsAre(t, z, z.next, z.allowed, z.running, z.channel)
      BY <1>1, <1>2, <2>1, <2>2
    <2>4. ToolsAre(t, z, t.next, t.allowed, running, t.channel)
      BY <2>2, <2>3
    <2> QED BY <2>4 DEF z
  <1>7. ASSUME NEW channel, IsList(channel)
        PROVE  ToolsAre(t, [t EXCEPT !.channel = channel],
                        t.next, t.allowed, t.running, channel)
    <2> DEFINE z == [t EXCEPT !.channel = channel]
    <2>1. DOMAIN z = DOMAIN t /\ z = [x \in DOMAIN z |-> z[x]]
      OBVIOUS
    <2>2. /\ z.calls = t.calls /\ z.next = t.next /\ z.allowed = t.allowed
          /\ z.running = t.running /\ z.channel = channel
      BY <1>1
    <2> HIDE DEF z
    <2>3. ToolsAre(t, z, z.next, z.allowed, z.running, z.channel)
      BY <1>2, <1>7, <2>1, <2>2
    <2>4. ToolsAre(t, z, t.next, t.allowed, t.running, channel)
      BY <2>2, <2>3
    <2> QED BY <2>4 DEF z
  <1>8. ASSUME NEW channel, NEW next, IsList(channel)
        PROVE  ToolsAre(t, [t EXCEPT !.channel = channel, !.next = next],
                        next, t.allowed, t.running, channel)
    <2> DEFINE z == [t EXCEPT !.channel = channel, !.next = next]
    <2>1. DOMAIN z = DOMAIN t /\ z = [x \in DOMAIN z |-> z[x]]
      OBVIOUS
    <2>2. /\ z.calls = t.calls /\ z.next = next /\ z.allowed = t.allowed
          /\ z.running = t.running /\ z.channel = channel
      BY <1>1
    <2> HIDE DEF z
    <2>3. ToolsAre(t, z, z.next, z.allowed, z.running, z.channel)
      BY <1>2, <1>8, <2>1, <2>2
    <2>4. ToolsAre(t, z, next, t.allowed, t.running, channel)
      BY <2>2, <2>3
    <2> QED BY <2>4 DEF z
  <1> QED BY <1>3, <1>4, <1>5, <1>6, <1>7, <1>8

\* A list without its first element.
LEMMA TailOfList ==
    ASSUME NEW q, IsList(q), q # <<>>
    PROVE  /\ IsList(Tail(q)) /\ 1 \in DOMAIN q /\ Head(q) = q[1]
           /\ \A k \in DOMAIN Tail(q) : \E j \in DOMAIN q : Tail(q)[k] = q[j]
  <1> DEFINE S == {q[k] : k \in DOMAIN q}
  <1>1. q \in Seq(S) /\ DOMAIN q = 1..Len(q) /\ Len(q) \in Nat
    BY ListIs
  <1>2. \A s \in S : \E j \in DOMAIN q : s = q[j]
    OBVIOUS
  <1> HIDE DEF S
  <1>3. Tail(q) \in Seq(S) /\ Head(q) = q[1] /\ Len(q) >= 1
    BY <1>1
  <1>4. \A k \in DOMAIN Tail(q) : Tail(q)[k] \in S
    BY <1>3
  <1>5. IsList(Tail(q))
    BY <1>3, SeqIsList
  <1>6. 1 \in DOMAIN q
    BY <1>1, <1>3
  <1>7. \A k \in DOMAIN Tail(q) : \E j \in DOMAIN q : Tail(q)[k] = q[j]
    BY <1>2, <1>4
  <1> QED BY <1>3, <1>5, <1>6, <1>7

-----------------------------------------------------------------------------
\* The steps of the tool calls keep the invariants.
ToolsKept == (Quiet \/ Loud) /\ Work' /\ ToolInv'

\* The steps that end the tool calls of a reply.
LEMMA ToolsEndCalm ==
    ASSUME Work, CallStops \/ ResultHookStops \/ ToolCycleCompleted
    PROVE  Calm
  <1>1. UNCHANGED <<live, comp, tools, ghost>>
    BY DEF CallStops, ResultHookStops, ToolCycleCompleted
  <1>2. Completed("Cancelled", <<>>) \/ Fail(<<>>) \/ Continued(<<>>)
    BY DEF CallStops, ResultHookStops, ToolCycleCompleted
  <1>3. Quiet /\ pc' \in {"turn_end", "idle", "context"}
    BY <1>2, EmptyUrgent, QuietWays DEF Completed, Fail, FinalizeTurn, FinalizeAfter, Continued
  <1> QED BY <1>1, <1>3 DEF Calm, Work

\* The calls of which the log has not both leave the number of calls alone.
LEMMA LooseIs ==
    ASSUME Shape, NEW v, ghost' = [ghost EXCEPT !.loose = v] PROVE ghost'.calls = ghost.calls
  BY DEF Shape, GhostFields

\* A call that its hook allows is new to the log.
LEMMA CallAllowedKeeps ==
    ASSUME Work, Shape, SinkInv, ToolInv, CallAllowed PROVE ToolsKept
  <1> DEFINE call == tools.calls[tools.next]
             b == <<ToolCall(call)>>
  <1>1. /\ pc = "call" /\ PushImmediate(b) /\ UNCHANGED <<live, comp>>
        /\ tools' = [tools EXCEPT !.next = tools.next + 1,
                                  !.allowed = tools.allowed \cup {call},
                                  !.running = tools.running \cup {call}]
        /\ pc' = IF tools.next = Len(tools.calls) THEN "dispatch" ELSE "call"
    BY DEF CallAllowed, Call, AfterCallHook
  <1>2. ghost'.calls = ghost.calls
    <2>1. ghost' = [ghost EXCEPT !.loose = ghost.loose \cup {Call}]
      BY DEF CallAllowed
    <2> QED BY <2>1, LooseIs
  <1>3. BatchOf(tools, emitted, "call", ghost.calls) /\ Known(emitted, ghost.calls)
        /\ Ordered(emitted) /\ ghost.calls \in Nat /\ IsList(emitted)
    BY <1>1 DEF ToolInv, Working, SinkInv
  <1>4. /\ tools.next \in DOMAIN tools.calls /\ DOMAIN tools.calls = 1..Len(tools.calls)
        /\ Len(tools.calls) \in Nat /\ tools.next \in Nat
    <2>1. IsList(tools.calls) /\ tools.next \in Nat \ {0} /\ tools.next <= Len(tools.calls)
      BY <1>3 DEF BatchOf
    <2>2. DOMAIN tools.calls = 1..Len(tools.calls) /\ Len(tools.calls) \in Nat
      BY <2>1, ListIs
    <2> QED BY <2>1, <2>2
  <1>5. IsList(b) /\ DOMAIN b = {1} /\ b[1] = ToolCall(call)
    BY Single
  <1>6. ToolCall(call).type = "ToolCall" /\ ToolCall(call).call = call
    BY DEF ToolCall
  <1>7. ~Touched(emitted, call) /\ call.id \in 1..ghost.calls
    BY <1>3, <1>4 DEF BatchOf
  <1>8. ToolsAre(tools, tools', tools.next + 1, tools.allowed \cup {call},
                 tools.running \cup {call}, tools.channel)
    BY <1>1, ToolsUpdates DEF Work
  <1>9. emitted' = emitted \o b
    BY <1>1 DEF PushImmediate
  <1>10. Loud
    <2>1. Urgent(b)
      BY UrgentSingle, <1>6 DEF Immediate
    <2> QED BY <1>1, <2>1 DEF Loud
  <1>11. Ordered(emitted')
    BY <1>3, <1>7, <1>9, CallOrder
  <1> HIDE DEF call, b
  <1>12. Known(emitted', ghost.calls)
    <2>1. Known(b, ghost.calls)
      BY <1>5, <1>6, <1>7 DEF Known
    <2> QED BY <1>3, <1>5, <1>9, <2>1, KnownGrows
  <1>13. ASSUME NEW c
         PROVE  /\ Begun(emitted, c) \/ c = call => Begun(emitted', c)
                /\ Ended(emitted', c) => Ended(emitted, c)
                /\ Touched(emitted', c) => Touched(emitted, c) \/ c = call
    <2>1. /\ Begun(emitted, c) => Begun(emitted \o b, c)
          /\ Ended(emitted \o b, c) => Ended(emitted, c) \/ Ended(b, c)
          /\ Touched(emitted \o b, c) => Touched(emitted, c) \/ Touched(b, c)
          /\ Begun(b, c) => Begun(emitted \o b, c)
      BY <1>3, <1>5, Grows
    <2>2. ~Ended(b, c)
      BY <1>5, <1>6 DEF Ended
    <2>3. Touched(b, c) => c = call
      BY <1>5, <1>6 DEF Touched
    <2>4. c = call => Begun(b, c)
      BY <1>5 DEF Begun
    <2> QED BY <1>9, <2>1, <2>2, <2>3, <2>4
  <1>14. BatchOf(tools', emitted', pc', ghost'.calls)
    <2>1. /\ tools'.calls = tools.calls /\ tools'.next = tools.next + 1
          /\ tools'.allowed = tools.allowed \cup {call}
          /\ tools'.running = tools.running \cup {call} /\ tools'.channel = tools.channel
      BY <1>8 DEF ToolsAre
    <2>2. \A i \in DOMAIN tools.calls : tools.calls[i] = call => i = tools.next
      BY <1>3, <1>4 DEF BatchOf, call
    <2>3. \A c \in tools'.allowed :
             Begun(emitted', c) /\ \E i \in DOMAIN tools.calls : tools.calls[i] = c
      BY <1>3, <1>4, <1>13, <2>1 DEF BatchOf, call
    <2>4. pc' = "call" => /\ tools'.next <= Len(tools'.calls)
                          /\ \A i \in DOMAIN tools.calls :
                                i >= tools'.next => ~Touched(emitted', tools.calls[i])
      <3>1. pc' = "call" => tools'.next <= Len(tools'.calls)
        BY <1>1, <1>4, <2>1
      <3>2. ASSUME NEW i \in DOMAIN tools.calls, i >= tools.next + 1
            PROVE  ~Touched(emitted', tools.calls[i])
        <4>1. i # tools.next /\ i >= tools.next
          BY <1>4, <3>2
        <4>2. tools.calls[i] # call
          BY <2>2, <4>1
        <4>3. ~Touched(emitted, tools.calls[i])
          BY <1>3, <4>1 DEF BatchOf
        <4> QED BY <1>13, <4>2, <4>3
      <3> QED BY <2>1, <3>1, <3>2
    <2>5. \A i \in DOMAIN tools.calls : ~Ended(emitted', tools.calls[i])
      BY <1>3, <1>13 DEF BatchOf
    <2>6. pc' # "results" /\ tools'.next \in Nat \ {0}
      BY <1>1, <1>4, <2>1
    <2> QED BY <1>2, <1>3, <2>1, <2>3, <2>4, <2>5, <2>6 DEF BatchOf
  <1>15. Work'
    BY <1>1, <1>8 DEF Work, ToolsAre
  <1> QED BY <1>2, <1>3, <1>10, <1>11, <1>12, <1>14, <1>15 DEF ToolsKept, ToolInv

\* A call that its hook blocks.
LEMMA CallBlockedKeeps ==
    ASSUME Work, Shape, SinkInv, ToolInv, CallBlocked PROVE ToolsKept
  <1>1. /\ pc = "call" /\ UNCHANGED <<live, comp, pending, sinkVars>>
        /\ tools' = [tools EXCEPT !.next = tools.next + 1]
        /\ pc' = IF tools.next = Len(tools.calls) THEN "dispatch" ELSE "call"
    BY DEF CallBlocked, AfterCallHook
  <1>2. ghost'.calls = ghost.calls
    <2>1. ghost' = [ghost EXCEPT !.loose = ghost.loose \cup {Call}]
      BY DEF CallBlocked
    <2> QED BY <2>1, LooseIs
  <1>3. BatchOf(tools, emitted, "call", ghost.calls) /\ emitted' = emitted
    BY <1>1 DEF ToolInv, Working, sinkVars
  <1>4. ToolsAre(tools, tools', tools.next + 1, tools.allowed, tools.running, tools.channel)
    BY <1>1, ToolsUpdates DEF Work
  <1>5. Len(tools.calls) \in Nat /\ DOMAIN tools.calls = 1..Len(tools.calls)
    BY <1>3, ListIs DEF BatchOf
  <1>6. BatchOf(tools', emitted', pc', ghost'.calls)
    <2>1. /\ tools'.calls = tools.calls /\ tools'.next = tools.next + 1
          /\ tools'.allowed = tools.allowed
          /\ tools'.running = tools.running /\ tools'.channel = tools.channel
      BY <1>4 DEF ToolsAre
    <2>2. tools.next \in Nat \ {0} /\ tools.next <= Len(tools.calls)
      BY <1>3 DEF BatchOf
    <2>3. pc' = "call" => tools'.next <= Len(tools'.calls)
      BY <1>1, <1>5, <2>1, <2>2
    <2>4. pc' # "results" /\ tools'.next \in Nat \ {0}
      BY <1>1, <2>1, <2>2
    <2>5. \A i \in DOMAIN tools.calls : i >= tools'.next => i >= tools.next
      BY <1>5, <2>1, <2>2
    <2> QED BY <1>2, <1>3, <2>1, <2>3, <2>4, <2>5 DEF BatchOf
  <1>7. Quiet
    BY <1>1 DEF Quiet
  <1>8. Work'
    BY <1>1, <1>4 DEF Work, ToolsAre
  <1> QED BY <1>2, <1>3, <1>6, <1>7, <1>8 DEF ToolsKept, ToolInv

\* A batch whose log has grown by what ends no call.
LEMMA BatchMoves ==
    ASSUME NEW t, NEW u, NEW a, NEW c, NEW n, BatchOf(t, a, "dispatch", n),
           u.calls = t.calls, u.next = t.next, u.allowed = t.allowed,
           u.running \subseteq t.running,
           \A k \in DOMAIN u.channel : u.channel[k] \in t.allowed,
           \A call : /\ Begun(a, call) => Begun(c, call)
                     /\ Ended(c, call) => Ended(a, call)
    PROVE  BatchOf(u, c, "dispatch", n)
  BY DEF BatchOf

\* The results are recorded from the first call on.
LEMMA BatchReturns ==
    ASSUME NEW t, NEW u, NEW a, NEW c, NEW n, BatchOf(t, a, "dispatch", n),
           u.calls = t.calls, u.next = 1, u.allowed = t.allowed, u.running = t.running,
           \A k \in DOMAIN u.channel : u.channel[k] \in t.allowed,
           \A call : /\ Begun(a, call) => Begun(c, call)
                     /\ Ended(c, call) => Ended(a, call)
    PROVE  BatchOf(u, c, "results", n)
  <1>1. \A i \in DOMAIN t.calls : ~Ended(c, t.calls[i])
    BY DEF BatchOf
  <1>2. \A call \in t.allowed : Begun(c, call) /\ \E i \in DOMAIN t.calls : t.calls[i] = call
    BY DEF BatchOf
  <1>3. u.next \in Nat \ {0}
    OBVIOUS
  <1> QED BY <1>1, <1>2, <1>3 DEF BatchOf

\* A tool sends output.
LEMMA ToolSendsKeeps ==
    ASSUME Work, SinkInv, ToolInv, ToolSends PROVE ToolsKept
  <1>1. /\ pc = "dispatch" /\ UNCHANGED <<pc, live, comp, pending, sinkVars, ghost>>
    BY DEF ToolSends
  <1>2. PICK call \in tools.running :
           tools' = [tools EXCEPT !.channel = Append(tools.channel, call),
                                  !.deltas = tools.deltas + 1]
    BY DEF ToolSends
  <1> DEFINE channel == Append(tools.channel, call)
  <1>3. IsList(channel) /\ IsList(tools.channel) /\ channel = tools.channel \o <<call>>
        /\ IsList(<<call>>)
    BY Appended DEF Work, ToolsSound
  <1>4. ToolsAre(tools, tools', tools.next, tools.allowed, tools.running, channel)
    BY <1>2, <1>3, ToolsUpdates DEF Work
  <1>5. BatchOf(tools, emitted, "dispatch", ghost.calls) /\ emitted' = emitted
    BY <1>1 DEF ToolInv, Working, sinkVars
  <1>6. \A k \in DOMAIN channel : channel[k] \in tools.allowed
    <2>1. \A k \in DOMAIN channel : \/ k \in DOMAIN tools.channel /\ channel[k] = tools.channel[k]
                                    \/ \E j \in DOMAIN <<call>> : channel[k] = <<call>>[j]
      BY <1>3, Elements
    <2>2. DOMAIN <<call>> = {1} /\ <<call>>[1] = call
      BY Single
    <2> HIDE DEF channel
    <2>3. call \in tools.allowed /\ \A k \in DOMAIN tools.channel : tools.channel[k] \in tools.allowed
      BY <1>5 DEF BatchOf
    <2> QED BY <2>1, <2>2, <2>3
  <1> HIDE DEF channel
  <1>7. BatchOf(tools', emitted', pc', ghost'.calls)
    <2>1. /\ tools'.calls = tools.calls /\ tools'.next = tools.next /\ tools'.allowed = tools.allowed
          /\ tools'.running = tools.running /\ tools'.channel = channel
      BY <1>4 DEF ToolsAre
    <2>2. BatchOf(tools', emitted, "dispatch", ghost.calls)
      BY <1>5, <1>6, <2>1, BatchMoves
    <2> QED BY <1>1, <1>5, <2>2
  <1>8. Quiet
    BY <1>1 DEF Quiet
  <1>9. Work'
    BY <1>1, <1>4 DEF Work, ToolsAre
  <1> QED BY <1>1, <1>5, <1>7, <1>8, <1>9 DEF ToolsKept, ToolInv

\* A tool returns.
LEMMA ReturnsKeep ==
    ASSUME Work, SinkInv, ToolInv, NEW form, ReturnsAs(form) PROVE ToolsKept
  <1>1. /\ pc = "dispatch" /\ UNCHANGED <<pc, live, comp, pending, sinkVars, ghost>>
    BY DEF ReturnsAs
  <1>2. PICK call \in tools.running :
           tools' = [tools EXCEPT !.running = tools.running \ {call},
                                  !.results = Append(tools.results, [call |-> call, form |-> form])]
    BY DEF ReturnsAs
  <1>3. ToolsAre(tools, tools', tools.next, tools.allowed, tools.running \ {call}, tools.channel)
    BY <1>2, ToolsUpdates DEF Work
  <1>4. BatchOf(tools, emitted, "dispatch", ghost.calls) /\ emitted' = emitted
    BY <1>1 DEF ToolInv, Working, sinkVars
  <1>5. BatchOf(tools', emitted', pc', ghost'.calls)
    <2>1. /\ tools'.calls = tools.calls /\ tools'.next = tools.next /\ tools'.allowed = tools.allowed
          /\ tools'.running = tools.running \ {call} /\ tools'.channel = tools.channel
      BY <1>3 DEF ToolsAre
    <2>2. \A k \in DOMAIN tools.channel : tools.channel[k] \in tools.allowed
      BY <1>4 DEF BatchOf
    <2>3. BatchOf(tools', emitted, "dispatch", ghost.calls)
      BY <1>4, <2>1, <2>2, BatchMoves
    <2> QED BY <1>1, <1>4, <2>3
  <1>6. Quiet
    BY <1>1 DEF Quiet
  <1>7. Work'
    BY <1>1, <1>3 DEF Work, ToolsAre
  <1> QED BY <1>1, <1>4, <1>5, <1>6, <1>7 DEF ToolsKept, ToolInv

\* Output of calls of the batch, once it is in the log.
Outputs(b) ==
  /\ IsList(b)
  /\ \A k \in DOMAIN b : b[k].type = "ToolCallDelta" /\ b[k].call \in tools.allowed

\* Output of calls that run comes after their beginning and before their end.
LEMMA OutputsFit ==
    ASSUME SinkInv, ToolInv, pc = "dispatch", NEW b, Outputs(b)
    PROVE  /\ Urgent(b) /\ Ordered(emitted \o b) /\ Known(emitted \o b, ghost.calls)
           /\ \A call : /\ Begun(emitted, call) => Begun(emitted \o b, call)
                        /\ Ended(emitted \o b, call) => Ended(emitted, call)
  <1>1. BatchOf(tools, emitted, "dispatch", ghost.calls) /\ IsList(emitted) /\ IsList(b)
        /\ Ordered(emitted) /\ Known(emitted, ghost.calls)
    BY DEF ToolInv, Working, SinkInv, Outputs
  <1>2. \A call \in tools.allowed :
           Begun(emitted, call) /\ ~Ended(emitted, call) /\ call.id \in 1..ghost.calls
    BY <1>1 DEF BatchOf
  <1>3. \A k \in DOMAIN b : /\ b[k].type = "ToolCallDelta"
                            /\ Begun(emitted, b[k].call) /\ ~Ended(emitted, b[k].call)
                            /\ b[k].call.id \in 1..ghost.calls
    BY <1>2 DEF Outputs
  <1>4. Ordered(emitted \o b) /\ \A call : ~Ended(b, call)
    BY <1>1, <1>3, DeltaOrder
  <1>5. Known(b, ghost.calls)
    BY <1>3 DEF Known
  <1>6. Known(emitted \o b, ghost.calls)
    BY <1>1, <1>5, KnownGrows
  <1>7. Urgent(b)
    BY <1>1, <1>3 DEF Urgent, Immediate
  <1>8. \A call : /\ Begun(emitted, call) => Begun(emitted \o b, call)
                  /\ Ended(emitted \o b, call) => Ended(emitted, call)
    BY <1>1, <1>4, Grows
  <1> QED BY <1>4, <1>6, <1>7, <1>8

\* Output reaches the log.
LEMMA DeltaReceivedKeeps ==
    ASSUME Work, SinkInv, ToolInv, DeltaReceived PROVE ToolsKept
  <1> DEFINE e == ToolCallDelta(Head(tools.channel))
             b == <<e>>
  <1>1. /\ pc = "dispatch" /\ tools.channel # <<>> /\ PushImmediate(b)
        /\ UNCHANGED <<pc, live, comp, ghost>>
        /\ tools' = [tools EXCEPT !.channel = Tail(tools.channel)]
    BY DEF DeltaReceived
  <1>2. IsList(tools.channel)
    BY DEF Work, ToolsSound
  <1>3. /\ IsList(Tail(tools.channel)) /\ 1 \in DOMAIN tools.channel
        /\ Head(tools.channel) = tools.channel[1]
        /\ \A k \in DOMAIN Tail(tools.channel) :
              \E j \in DOMAIN tools.channel : Tail(tools.channel)[k] = tools.channel[j]
    BY <1>1, <1>2, TailOfList
  <1>4. BatchOf(tools, emitted, "dispatch", ghost.calls)
    BY <1>1 DEF ToolInv, Working
  <1>5. \A j \in DOMAIN tools.channel : tools.channel[j] \in tools.allowed
    BY <1>4 DEF BatchOf
  <1>6. ToolsAre(tools, tools', tools.next, tools.allowed, tools.running, Tail(tools.channel))
    BY <1>1, <1>3, ToolsUpdates DEF Work
  <1>7. Outputs(b)
    <2>1. IsList(b) /\ DOMAIN b = {1} /\ b[1] = e
      BY Single
    <2>2. e.type = "ToolCallDelta" /\ e.call \in tools.allowed
      BY <1>3, <1>5 DEF ToolCallDelta
    <2> HIDE DEF b, e
    <2> QED BY <2>1, <2>2 DEF Outputs
  <1> HIDE DEF b
  <1>8. /\ Urgent(b) /\ Ordered(emitted \o b) /\ Known(emitted \o b, ghost.calls)
        /\ \A call : /\ Begun(emitted, call) => Begun(emitted \o b, call)
                     /\ Ended(emitted \o b, call) => Ended(emitted, call)
    BY <1>1, <1>7, OutputsFit
  <1>9. emitted' = emitted \o b
    BY <1>1 DEF PushImmediate
  <1>10. BatchOf(tools', emitted', pc', ghost'.calls)
    <2>1. /\ tools'.calls = tools.calls /\ tools'.next = tools.next /\ tools'.allowed = tools.allowed
          /\ tools'.running = tools.running /\ tools'.channel = Tail(tools.channel)
      BY <1>6 DEF ToolsAre
    <2>2. \A k \in DOMAIN Tail(tools.channel) : Tail(tools.channel)[k] \in tools.allowed
      BY <1>3, <1>5
    <2>3. BatchOf(tools', emitted \o b, "dispatch", ghost.calls)
      BY <1>4, <1>8, <2>1, <2>2, BatchMoves
    <2> QED BY <1>1, <1>9, <2>3
  <1>11. Loud
    BY <1>1, <1>8 DEF Loud
  <1>12. Work'
    BY <1>1, <1>6 DEF Work, ToolsAre
  <1> QED BY <1>1, <1>8, <1>9, <1>10, <1>11, <1>12 DEF ToolsKept, ToolInv

\* All tools have returned, and what is left of their output reaches the log.
LEMMA AllReturnedKeeps ==
    ASSUME Work, SinkInv, ToolInv, AllReturned PROVE ToolsKept
  <1> DEFINE left == [k \in DOMAIN tools.channel |-> ToolCallDelta(tools.channel[k])]
  <1>1. /\ pc = "dispatch" /\ UNCHANGED <<live, comp, ghost>>
        /\ tools' = [tools EXCEPT !.channel = <<>>, !.next = 1]
        /\ \/ pc' = "results" /\ PushImmediate(left)
           \/ FinalizeAfter(left, "Error", <<>>)
    BY DEF AllReturned
  <1>2. BatchOf(tools, emitted, "dispatch", ghost.calls)
    BY <1>1 DEF ToolInv, Working
  <1>3. Outputs(left)
    <2>1. IsList(tools.channel) /\ \A k \in DOMAIN tools.channel : tools.channel[k] \in tools.allowed
      BY <1>2 DEF Work, ToolsSound, BatchOf
    <2>2. DOMAIN left = DOMAIN tools.channel /\ left = [k \in DOMAIN left |-> left[k]]
      OBVIOUS
    <2>3. \A k \in DOMAIN tools.channel :
             left[k].type = "ToolCallDelta" /\ left[k].call = tools.channel[k]
      BY DEF ToolCallDelta
    <2> HIDE DEF left
    <2>4. IsList(left)
      BY <2>1, <2>2, SameDomain
    <2> QED BY <2>1, <2>2, <2>3, <2>4 DEF Outputs
  <1> HIDE DEF left
  <1>4. /\ Urgent(left) /\ Ordered(emitted \o left) /\ Known(emitted \o left, ghost.calls)
        /\ \A call : /\ Begun(emitted, call) => Begun(emitted \o left, call)
                     /\ Ended(emitted \o left, call) => Ended(emitted, call)
    BY <1>1, <1>3, OutputsFit
  <1>5. ToolsAre(tools, tools', 1, tools.allowed, tools.running, <<>>)
    BY <1>1, ToolsUpdates, EmptyUrgent DEF Work, Urgent
  <1>6. Work'
    BY <1>1, <1>5 DEF Work, ToolsAre
  <1>7. CASE pc' = "results" /\ PushImmediate(left)
    <2>1. emitted' = emitted \o left
      BY <1>7 DEF PushImmediate
    <2>2. Loud
      BY <1>4, <1>7 DEF Loud
    <2>3. pc' = "results" => BatchOf(tools', emitted', "results", ghost.calls)
      <3>1. /\ tools'.calls = tools.calls /\ tools'.next = 1 /\ tools'.allowed = tools.allowed
            /\ tools'.running = tools.running /\ tools'.channel = <<>>
        BY <1>5 DEF ToolsAre
      <3>2. DOMAIN <<>> = {}
        OBVIOUS
      <3>3. \A k \in DOMAIN tools'.channel : tools'.channel[k] \in tools.allowed
        BY <3>1, <3>2
      <3>4. tools'.calls = tools.calls /\ tools'.next = 1 /\ tools'.allowed = tools.allowed
            /\ tools'.running = tools.running
        BY <3>1
      <3>5. BatchOf(tools', emitted \o left, "results", ghost.calls)
        BY <1>2, <1>4, <3>3, <3>4, BatchReturns
      <3> QED BY <2>1, <3>5
    <2>4. ToolInv'
      BY <1>1, <1>4, <1>7, <2>1, <2>3 DEF ToolInv, Working
    <2> QED BY <1>6, <2>2, <2>4 DEF ToolsKept
  <1>8. CASE FinalizeAfter(left, "Error", <<>>)
    <2> DEFINE events == <<>> \o Terminal("Error")
               rest == Delayed(pending \o events)
    <2>1. pc' = "idle" /\ FlushAfter(left, events)
      BY <1>8 DEF FinalizeAfter
    <2>2. Plain(events)
      BY EmptyUrgent, PlainEvents, PlainJoined
    <2>3. Loud
      BY <1>4, <2>1, <2>2 DEF Loud
    <2>4. emitted' = emitted \o (left \o rest)
      BY <2>1 DEF FlushAfter
    <2>5. Plain(rest)
      <3>1. ProperList(pending \o events)
        BY <2>2, ProperJoined DEF SinkInv, Plain
      <3> QED BY <3>1, DelayedIs
    <2> HIDE DEF events, rest
    <2>6. IsList(emitted) /\ IsList(left) /\ IsList(rest) /\ IsList(emitted \o left)
      BY <1>4, <2>5, Joined DEF SinkInv, Urgent, Plain, ProperList
    <2>7. emitted' = (emitted \o left) \o rest
      <3>1. (emitted \o left) \o rest = emitted \o (left \o rest)
        BY <2>6, Assoc
      <3> QED BY <2>4, <3>1
    <2>8. Ordered(emitted') /\ Known(emitted', ghost.calls)
      BY <1>4, <2>5, <2>6, <2>7, PlainOrder, PlainKnown, KnownGrows
    <2>9. ToolInv'
      BY <1>1, <2>1, <2>8 DEF ToolInv, Working
    <2> QED BY <1>6, <2>3, <2>9 DEF ToolsKept
  <1> QED BY <1>1, <1>7, <1>8

\* A result is recorded, the first of its call.
LEMMA ResultRecordedKeeps ==
    ASSUME Work, Shape, SinkInv, ToolInv, ResultRecorded PROVE ToolsKept
  <1>1. PICK form : RecordResultOf(Call, form)
    BY DEF ResultRecorded
  <1> DEFINE call == tools.calls[tools.next]
             e == ToolResult(call, form)
             b == <<e>>
  <1>2. /\ pc = "results" /\ pc' = pc /\ tools.next <= Len(tools.calls) /\ UNCHANGED comp
        /\ tools' = [tools EXCEPT !.next = tools.next + 1]
        /\ PushImmediate(b) /\ live' = Append(live, ToolMsg(call, form))
    BY <1>1 DEF ResultRecorded, RecordResultOf, Call
  <1>3. ghost'.calls = ghost.calls
    <2>1. ghost' = [ghost EXCEPT !.loose = IF Call \in tools.allowed THEN ghost.loose \ {Call}
                                           ELSE ghost.loose]
      BY DEF ResultRecorded
    <2> QED BY <2>1, LooseIs
  <1>4. BatchOf(tools, emitted, "results", ghost.calls) /\ Known(emitted, ghost.calls)
        /\ Ordered(emitted) /\ ghost.calls \in Nat /\ IsList(emitted)
    BY <1>2 DEF ToolInv, Working, SinkInv
  <1>5. /\ tools.next \in DOMAIN tools.calls /\ DOMAIN tools.calls = 1..Len(tools.calls)
        /\ Len(tools.calls) \in Nat /\ tools.next \in Nat
    <2>1. IsList(tools.calls) /\ tools.next \in Nat \ {0}
      BY <1>4 DEF BatchOf
    <2>2. DOMAIN tools.calls = 1..Len(tools.calls) /\ Len(tools.calls) \in Nat
      BY <2>1, ListIs
    <2> QED BY <1>2, <2>1, <2>2
  <1>6. IsList(b) /\ DOMAIN b = {1} /\ b[1] = e
    BY Single
  <1>7. e.type = "ToolResult" /\ e.call = call
    BY DEF ToolResult
  <1>8. ~Ended(emitted, call) /\ call.id \in 1..ghost.calls
    BY <1>4, <1>5 DEF BatchOf
  <1>9. ToolsAre(tools, tools', tools.next + 1, tools.allowed, tools.running, tools.channel)
    BY <1>2, ToolsUpdates DEF Work
  <1>10. emitted' = emitted \o b
    BY <1>2 DEF PushImmediate
  <1>11. Loud
    <2>1. Urgent(b)
      BY UrgentSingle, <1>7 DEF Immediate
    <2> QED BY <1>2, <2>1 DEF Loud
  <1>12. Ordered(emitted')
    BY <1>4, <1>8, <1>10, ResultOrder
  <1> HIDE DEF call, b, e
  <1>13. Known(emitted', ghost.calls)
    <2>1. Known(b, ghost.calls)
      BY <1>6, <1>7, <1>8 DEF Known
    <2> QED BY <1>4, <1>6, <1>10, <2>1, KnownGrows
  <1>14. ASSUME NEW c
         PROVE  /\ Begun(emitted, c) => Begun(emitted', c)
                /\ Ended(emitted', c) => Ended(emitted, c) \/ c = call
    <2>1. /\ Begun(emitted, c) => Begun(emitted \o b, c)
          /\ Ended(emitted \o b, c) => Ended(emitted, c) \/ Ended(b, c)
      BY <1>4, <1>6, Grows
    <2>2. Ended(b, c) => c = call
      BY <1>6, <1>7 DEF Ended
    <2> QED BY <1>10, <2>1, <2>2
  <1>15. BatchOf(tools', emitted', pc', ghost'.calls)
    <2>1. /\ tools'.calls = tools.calls /\ tools'.next = tools.next + 1
          /\ tools'.allowed = tools.allowed
          /\ tools'.running = tools.running /\ tools'.channel = tools.channel
      BY <1>9 DEF ToolsAre
    <2>2. \A i \in DOMAIN tools.calls : tools.calls[i] = call => i = tools.next
      BY <1>4, <1>5 DEF BatchOf, call
    <2>3. ASSUME NEW i \in DOMAIN tools.calls, i >= tools.next + 1
          PROVE  ~Ended(emitted', tools.calls[i])
      <3>1. i # tools.next /\ i >= tools.next
        BY <1>5, <2>3
      <3>2. tools.calls[i] # call /\ ~Ended(emitted, tools.calls[i])
        BY <1>4, <2>2, <3>1 DEF BatchOf
      <3> QED BY <1>14, <3>2
    <2>4. \A c \in tools.allowed : Begun(emitted', c)
      BY <1>4, <1>14 DEF BatchOf
    <2>5. pc' = "results" /\ tools'.next \in Nat \ {0}
      BY <1>2, <1>5, <2>1
    <2> QED BY <1>3, <1>4, <2>1, <2>3, <2>4, <2>5 DEF BatchOf
  <1>16. Work'
    <2>1. IsList(live')
      BY <1>2, Appended DEF Work
    <2> QED BY <1>2, <1>9, <2>1 DEF Work, ToolsAre
  <1> QED BY <1>3, <1>4, <1>11, <1>12, <1>13, <1>15, <1>16 DEF ToolsKept, ToolInv

-----------------------------------------------------------------------------
\* The invariant of the loop and what follows from it.

\* The invariant.
LoopInv == Shape /\ SinkInv /\ Work /\ ToolInv

\* The steps of the tool calls.
LEMMA ToolCallsKeep ==
    ASSUME Shape, SinkInv, Work, ToolInv, ToolCalls PROVE ToolsKept
  <1>1. CASE CallStops \/ ResultHookStops \/ ToolCycleCompleted
    <2>1. Calm
      BY <1>1, ToolsEndCalm
    <2> QED BY <2>1, CalmKeepsTools DEF Calm, ToolsKept
  <1>2. CASE CallAllowed
    BY <1>2, CallAllowedKeeps
  <1>3. CASE CallBlocked
    BY <1>3, CallBlockedKeeps
  <1>4. CASE ToolSends \/ \E form \in Forms \cup {"error"} : ReturnsAs(form)
    BY <1>4, ToolSendsKeeps, ReturnsKeep
  <1>5. CASE DeltaReceived
    BY <1>5, DeltaReceivedKeeps
  <1>6. CASE AllReturned
    BY <1>6, AllReturnedKeeps
  <1>7. CASE ResultRecorded
    BY <1>7, ResultRecordedKeeps
  <1> QED BY <1>1, <1>2, <1>3, <1>4, <1>5, <1>6, <1>7 DEF ToolCalls

\* An empty log.
LEMMA EmptyOrdered == Ordered(<<>>) /\ IsList(<<>>) /\ \A n : Known(<<>>, n)
  <1>1. DOMAIN <<>> = {} /\ IsList(<<>>)
    BY Single
  <1> QED BY <1>1 DEF Ordered, Known

\* Nothing is counted in it.
LEMMA EmptyBalanced ==
    ASSUME NEW P PROVE Count(P, <<>>) = 0
  <1>1. {k \in DOMAIN <<>> : <<>>[k] \in P} = {}
    BY Single
  <1> QED BY <1>1, FS_EmptySet DEF Count

\* The sink of a turn that begins.
LEMMA EmptySink ==
    ASSUME pending = <<>>, emitted = <<>>, output = <<>>, ProjSound(proj) PROVE SinkInv
  <1>1. IsList(<<>>) /\ ProperList(<<>>)
    BY Single DEF ProperList
  <1>2. Balanced
    BY EmptyBalanced DEF Balanced
  <1> QED BY <1>1, <1>2 DEF SinkInv

\* The session begins.
LEMMA LoopInit == ASSUME Init PROVE LoopInv
  <1>1. ghost = [calls |-> 0, prompts |-> 0, loose |-> {}, inexact |-> FALSE, compacted |-> 0]
    BY DEF Init
  <1>2. Shape /\ ghost.calls = 0
    BY <1>1 DEF Shape, GhostFields
  <1>3. /\ pc = "idle" /\ live = <<>> /\ pending = <<>> /\ emitted = <<>> /\ output = <<>>
        /\ proj = EmptyProjector /\ comp = NoCompaction /\ tools = NoTools
    BY DEF Init
  <1>4. ProjSound(proj)
    BY <1>3, EmptyOrdered DEF EmptyProjector, ProjSound
  <1>5. SinkInv
    BY <1>3, <1>4, EmptySink
  <1>6. Work
    BY <1>3, EmptyOrdered, NoneSound DEF Work
  <1>7. ToolInv
    BY <1>2, <1>3, EmptyOrdered DEF ToolInv, Working
  <1> QED BY <1>2, <1>5, <1>6, <1>7 DEF LoopInv

\* What a turn starts from is a list of messages.
LEMMA SnapshotList == ASSUME NEW p, ProjSound(p) PROVE IsList(Snapshot(p))
  BY FlushSound DEF Snapshot, ProjSound

\* A turn begins with an empty sink, and with no tool calls under way.
LEMMA NewTurnKeeps == ASSUME LoopInv, NewTurn PROVE LoopInv'
  <1>1. /\ proj' = ApplyEvent(proj, UserEvent("User", turn + 1))
        /\ live' = Append(Snapshot(proj), UserMsg("User", turn + 1))
        /\ pending' = <<>> /\ emitted' = <<>> /\ output' = <<>> /\ pc' = "turn_start"
        /\ comp' = NoCompaction /\ tools' = NoTools
    BY DEF NewTurn
  <1>2. ghost' = [ghost EXCEPT !["compacted"] = 0]
    BY DEF NewTurn
  <1>3. Shape' /\ ghost'.calls = ghost.calls
    BY <1>2 DEF LoopInv, Shape, GhostFields
  <1>4. ProjSound(proj)
    BY DEF LoopInv, SinkInv
  <1>5. ProjSound(proj')
    <2>1. Proper(UserEvent("User", turn + 1))
      BY DEF Proper, UserEvent
    <2> QED BY <1>1, <1>4, <2>1, ApplySound
  <1>6. SinkInv'
    <2>1. IsList(<<>>) /\ ProperList(<<>>)
      BY Single DEF ProperList
    <2>2. Balanced'
      BY <1>1, EmptyBalanced DEF Balanced
    <2> QED BY <1>1, <1>5, <2>1, <2>2 DEF SinkInv
  <1>7. Work'
    <2>1. IsList(live')
      BY <1>1, <1>4, SnapshotList, Appended
    <2> QED BY <1>1, <2>1, NoneSound DEF Work
  <1>8. ToolInv'
    BY <1>1, <1>3, EmptyOrdered DEF LoopInv, ToolInv, Working
  <1> QED BY <1>3, <1>6, <1>7, <1>8 DEF LoopInv

\* Steps that change nothing of it.
LEMMA LoopSame ==
    ASSUME LoopInv, UNCHANGED <<pc, live, pending, emitted, output, proj, comp, tools, ghost>>
    PROVE  LoopInv'
  BY DEF LoopInv, Shape, SinkInv, Balanced, Work, ToolInv

\* Steps outside tool calls and replies.
LEMMA CalmKeeps == ASSUME LoopInv, Calm, Shape' PROVE LoopInv'
  BY CalmKeepsTools, SinkKeeps DEF LoopInv, Calm

\* Every step keeps the invariant.
LEMMA LoopKeeps == ASSUME LoopInv, Next PROVE LoopInv'
  <1>0. Shape' /\ Shape /\ SinkInv /\ Work /\ ToolInv
    BY ShapeKept DEF LoopInv
  <1>1. CASE NewTurn
    BY <1>1, NewTurnKeeps
  <1>2. CASE Hooks
    BY <1>0, <1>2, HooksCalm, CalmKeeps
  <1>3. CASE Requests
    BY <1>0, <1>3, RequestsCalm, CalmKeeps
  <1>4. CASE Compaction
    BY <1>0, <1>4, CompactionCalm, CalmKeeps
  <1>5. CASE Reply
    <2>1. CASE ReplyTools
      <3>1. Quiet /\ Work' /\ ToolInv'
        BY <1>0, <2>1, ReplyToolsKeeps
      <3> QED BY <1>0, <3>1, SinkKeeps DEF LoopInv
    <2>2. CASE ~ReplyTools
      BY <1>0, <1>5, <2>2, ReplyCalm, CalmKeeps
    <2> QED BY <2>1, <2>2
  <1>6. CASE ToolCalls
    <2>1. (Quiet \/ Loud) /\ Work' /\ ToolInv'
      BY <1>0, <1>6, ToolCallsKeep DEF ToolsKept
    <2> QED BY <1>0, <2>1, SinkKeeps DEF LoopInv
  <1>7. CASE Rest
    BY <1>7, LoopSame DEF Rest, vars
  <1> QED
    BY <1>1, <1>2, <1>3, <1>4, <1>5, <1>6, <1>7, GroupsCover DEF Next

\* A set without two elements.
LEMMA AtMostOne ==
    ASSUME NEW S, \A i, j \in S : i = j PROVE Cardinality(S) <= 1
  <1>1. CASE S = {}
    BY <1>1, FS_EmptySet
  <1>2. CASE S # {}
    <2>1. PICK x \in S : S = {x}
      BY <1>2
    <2> QED BY <2>1, FS_Singleton
  <1> QED BY <1>1, <1>2

\* The order said of places is the order said of numbers of events.
LEMMA OrderedGives == ASSUME Ordered(emitted), IsList(emitted) PROVE ToolOrder
  <1> SUFFICES ASSUME NEW k \in DOMAIN emitted, Immediate(emitted[k])
               PROVE  LET call == emitted[k].call
                          begun == At(ToolCall(call))
                          ended == {j \in DOMAIN emitted :
                                       emitted[j].type = "ToolResult" /\ emitted[j].call = call}
                      IN  /\ Cardinality(begun) <= 1 /\ Cardinality(ended) <= 1
                          /\ emitted[k].type = "ToolCallDelta" =>
                                /\ \E j \in begun : j < k
                                /\ \A j \in ended : k < j
                          /\ \A i \in begun, j \in ended : i < j
    BY DEF ToolOrder
  <1> DEFINE call == emitted[k].call
             begun == At(ToolCall(call))
             ended == {j \in DOMAIN emitted :
                          emitted[j].type = "ToolResult" /\ emitted[j].call = call}
  <1>1. \A i : i \in begun <=> i \in DOMAIN emitted /\ emitted[i] = ToolCall(call)
    BY DEF At
  <1>2. \A i : i \in ended <=> /\ i \in DOMAIN emitted
                               /\ emitted[i].type = "ToolResult" /\ emitted[i].call = call
    OBVIOUS
  <1> HIDE DEF begun, ended
  <1>3. ToolCall(call).type = "ToolCall" /\ ToolCall(call).call = call
    BY DEF ToolCall
  <1>4. Cardinality(begun) <= 1
    BY <1>1, AtMostOne DEF Ordered
  <1>5. Cardinality(ended) <= 1
    BY <1>2, AtMostOne DEF Ordered
  <1>6. emitted[k].type = "ToolCallDelta" => \E j \in begun : j < k
    BY <1>1 DEF Ordered
  <1>7. emitted[k].type = "ToolCallDelta" => \A j \in ended : k < j
    BY <1>2 DEF Ordered
  <1>8. \A i \in begun, j \in ended : i < j
    BY <1>1, <1>2, <1>3 DEF Ordered
  <1> QED BY <1>4, <1>5, <1>6, <1>7, <1>8 DEF begun, ended

\* In every state the sink, the returned output and the pending events agree, and
\* the log orders the events of each call (push_immediate_event,
\* flush_pending_events and execute_tool_calls of loop.rs).
THEOREM LoopIsSound == Spec => []LoopInv
  <1>1. Init => LoopInv
    BY LoopInit
  <1>2. ASSUME LoopInv, [Next]_vars PROVE LoopInv'
    <2>1. CASE UNCHANGED vars
      BY <1>2, <2>1, LoopSame DEF vars
    <2> QED BY <1>2, <2>1, LoopKeeps
  <1> QED BY <1>1, <1>2, PTL DEF Spec

\* The sink has had every stored event of the turn exactly once, and of the
\* pending ones exactly those that are emitted at once (TurnExecutionContext of
\* loop.rs).
THEOREM EmittedOnceHolds == Spec => []EmittedOnce
  <1>1. LoopInv => EmittedOnce
    BY BalancedGives DEF LoopInv
  <1> QED BY LoopIsSound, <1>1, PTL

\* A call reaches the log before its output and its result, neither output nor a
\* second result follows a result, however the tools of a reply interleave
\* (execute_tool_calls of loop.rs).
THEOREM ToolOrderHolds == Spec => []ToolOrder
  <1>1. LoopInv => ToolOrder
    BY OrderedGives DEF LoopInv, ToolInv, SinkInv
  <1> QED BY LoopIsSound, <1>1, PTL

-----------------------------------------------------------------------------
\* Messages, and what they tell.

\* A message is of one of three kinds.
IsMessage(m) ==
  \/ \E origin, n : m = UserMsg(origin, n)
  \/ \E text, calls : m = AssistantMsg(text, calls)
  \/ \E call, form : m = ToolMsg(call, form)
Messages(ms) == IsList(ms) /\ \A i \in DOMAIN ms : IsMessage(ms[i])

\* What a message and an event tell: the text of a reply, a result, a prompt.
MessageTells(m, what, x) ==
  \/ what = "text" /\ m.kind = "assistant" /\ m.text = x /\ x # 0
  \/ what = "result" /\ IsTool(m) /\ m.call = x
  \/ what = "prompt" /\ IsRealUser(m) /\ m.n = x
EventTells(e, what, x) ==
  \/ what = "text" /\ e.type = "AssistantFinal" /\ e.text = x /\ x # 0
  \/ what = "result" /\ e.type = "ToolResult" /\ e.call = x
  \/ what = "prompt" /\ e.type = "UserMessage" /\ e.origin = "User" /\ e.n = x
Told(ms, what, x) == \E i \in DOMAIN ms : MessageTells(ms[i], what, x)
EventsTell(events, what, x) == \E i \in DOMAIN events : EventTells(events[i], what, x)

\* ... and the projector, whose last text is not a message yet.
ProjTells(p, what, x) ==
  \/ Told(p.messages, what, x)
  \/ what = "text" /\ p.content # <<>> /\ p.content[1] = x /\ x # 0

\* The fields of messages.
LEMMA MessageFields ==
    ASSUME NEW a, NEW b
    PROVE  /\ UserMsg(a, b).kind = "user" /\ UserMsg(a, b).origin = a /\ UserMsg(a, b).n = b
           /\ AssistantMsg(a, b).kind = "assistant" /\ AssistantMsg(a, b).text = a
           /\ AssistantMsg(a, b).calls = b
           /\ ToolMsg(a, b).kind = "tool" /\ ToolMsg(a, b).call = a /\ ToolMsg(a, b).form = b
           /\ IsMessage(UserMsg(a, b)) /\ IsMessage(AssistantMsg(a, b)) /\ IsMessage(ToolMsg(a, b))
           /\ IsTool(ToolMsg(a, b)) /\ ~IsTool(UserMsg(a, b)) /\ ~IsTool(AssistantMsg(a, b))
  <1>1. /\ UserMsg(a, b).kind = "user" /\ UserMsg(a, b).origin = a /\ UserMsg(a, b).n = b
        /\ AssistantMsg(a, b).kind = "assistant" /\ AssistantMsg(a, b).text = a
        /\ AssistantMsg(a, b).calls = b
        /\ ToolMsg(a, b).kind = "tool" /\ ToolMsg(a, b).call = a /\ ToolMsg(a, b).form = b
    BY DEF UserMsg, AssistantMsg, ToolMsg
  <1>2. IsMessage(UserMsg(a, b)) /\ IsMessage(AssistantMsg(a, b)) /\ IsMessage(ToolMsg(a, b))
    BY DEF IsMessage
  <1> QED BY <1>1, <1>2 DEF IsTool

Reform(m, form) == [m EXCEPT !.form = form]

\* A new form of a result changes nothing else of the message.
LEMMA Reformed ==
    ASSUME NEW m, IsMessage(m), IsTool(m), NEW form
    PROVE  Reform(m, form) = ToolMsg(m.call, form)
  <1>1. PICK call, f : m = ToolMsg(call, f)
    BY MessageFields DEF IsMessage, IsTool
  <1>2. m.call = call
    BY <1>1, MessageFields
  <1>3. m = [kind |-> "tool", call |-> call, form |-> f]
    BY <1>1 DEF ToolMsg
  <1> QED BY <1>2, <1>3 DEF ToolMsg, Reform

\* A list with one element more.
LEMMA OneMore ==
    ASSUME NEW a, IsList(a), NEW x
    PROVE  /\ IsList(Append(a, x)) /\ Len(a) \in Nat /\ Len(a) + 1 \notin DOMAIN a
           /\ \A i \in DOMAIN a : i \in Nat /\ i < Len(a) + 1
           /\ DOMAIN Append(a, x) = DOMAIN a \cup {Len(a) + 1}
           /\ \A i \in DOMAIN a : Append(a, x)[i] = a[i]
           /\ Append(a, x)[Len(a) + 1] = x
  <1>1. Append(a, x) = a \o <<x>> /\ IsList(Append(a, x)) /\ IsList(<<x>>)
    BY Appended
  <1>2. Len(<<x>>) = 1 /\ <<x>>[1] = x /\ DOMAIN <<x>> = {1}
    BY Single
  <1>3. DOMAIN a = 1..Len(a) /\ Len(a) \in Nat
    BY ListIs
  <1>4. DOMAIN (a \o <<x>>) = 1..(Len(a) + 1) /\ (\A k \in 1..Len(a) : (a \o <<x>>)[k] = a[k])
        /\ (\A k \in 1..1 : (a \o <<x>>)[Len(a) + k] = <<x>>[k])
    BY <1>1, <1>2, Joined
  <1>5. (a \o <<x>>)[Len(a) + 1] = x
    BY <1>2, <1>4
  <1>6. 1..(Len(a) + 1) = (1..Len(a)) \cup {Len(a) + 1}
    BY <1>3
  <1> QED BY <1>1, <1>3, <1>4, <1>5, <1>6

\* What two lists in a row tell.
LEMMA TellsJoined ==
    ASSUME NEW a, NEW b, IsList(a), IsList(b)
    PROVE  /\ \A what, x : Told(a \o b, what, x) <=> Told(a, what, x) \/ Told(b, what, x)
           /\ \A what, x : EventsTell(a \o b, what, x)
                              <=> EventsTell(a, what, x) \/ EventsTell(b, what, x)
           /\ Messages(a) /\ Messages(b) => Messages(a \o b)
  <1> DEFINE q == a \o b
             n == Len(a)
  <1>1. /\ \A k \in DOMAIN q : (k \in DOMAIN a /\ q[k] = a[k]) \/ \E j \in DOMAIN b : q[k] = b[j]
        /\ \A k \in DOMAIN a : k \in DOMAIN q /\ q[k] = a[k]
        /\ \A j \in DOMAIN b : n + j \in DOMAIN q /\ q[n + j] = b[j]
    BY Elements
  <1>2. IsList(q)
    BY Joined
  <1> HIDE DEF q, n
  <1>3. \A what, x : Told(q, what, x) <=> Told(a, what, x) \/ Told(b, what, x)
    BY <1>1 DEF Told
  <1>4. \A what, x : EventsTell(q, what, x) <=> EventsTell(a, what, x) \/ EventsTell(b, what, x)
    BY <1>1 DEF EventsTell
  <1>5. Messages(a) /\ Messages(b) => Messages(q)
    BY <1>1, <1>2 DEF Messages
  <1> QED BY <1>3, <1>4, <1>5 DEF q

\* What one message more tells.
LEMMA TellsOneMore ==
    ASSUME NEW a, IsList(a), NEW m
    PROVE  /\ \A what, x : Told(Append(a, m), what, x) <=> Told(a, what, x) \/ MessageTells(m, what, x)
           /\ Messages(a) /\ IsMessage(m) => Messages(Append(a, m))
  <1> DEFINE q == Append(a, m)
             n == Len(a)
  <1>1. /\ IsList(q) /\ DOMAIN q = DOMAIN a \cup {n + 1}
        /\ (\A i \in DOMAIN a : q[i] = a[i]) /\ q[n + 1] = m
    BY OneMore
  <1> HIDE DEF q, n
  <1>2. \A what, x : Told(q, what, x) <=> Told(a, what, x) \/ MessageTells(m, what, x)
    BY <1>1 DEF Told
  <1>3. Messages(a) /\ IsMessage(m) => Messages(q)
    BY <1>1 DEF Messages
  <1> QED BY <1>2, <1>3 DEF q

\* One message, and one event.
LEMMA TellsSingle ==
    ASSUME NEW m
    PROVE  /\ \A what, x : Told(<<m>>, what, x) <=> MessageTells(m, what, x)
           /\ \A what, x : EventsTell(<<m>>, what, x) <=> EventTells(m, what, x)
           /\ IsMessage(m) => Messages(<<m>>)
           /\ Messages(<<>>) /\ \A what, x : ~Told(<<>>, what, x) /\ ~EventsTell(<<>>, what, x)
  <1>1. IsList(<<m>>) /\ IsList(<<>>) /\ DOMAIN <<m>> = {1} /\ DOMAIN <<>> = {} /\ <<m>>[1] = m
    BY Single
  <1> DEFINE q == <<m>>
             none == <<>>
  <1> HIDE DEF q, none
  <1>2. IsList(q) /\ IsList(none) /\ DOMAIN q = {1} /\ DOMAIN none = {} /\ q[1] = m
    BY <1>1 DEF q, none
  <1>3. \A what, x : Told(q, what, x) <=> MessageTells(m, what, x)
    BY <1>2 DEF Told
  <1>4. \A what, x : EventsTell(q, what, x) <=> EventTells(m, what, x)
    BY <1>2 DEF EventsTell
  <1>5. IsMessage(m) => Messages(q)
    BY <1>2 DEF Messages
  <1>6. Messages(none) /\ \A what, x : ~Told(none, what, x) /\ ~EventsTell(none, what, x)
    BY <1>2 DEF Messages, Told, EventsTell
  <1> QED BY <1>3, <1>4, <1>5, <1>6 DEF q, none

-----------------------------------------------------------------------------
\* The passes change the forms of results only.

\* b is a, but for the forms of results.
Alike(a, b) ==
  /\ IsList(b) /\ DOMAIN b = DOMAIN a
  /\ \A i \in DOMAIN a : b[i] = a[i] \/ (IsTool(a[i]) /\ \E form : b[i] = ToolMsg(a[i].call, form))

\* Messages of the same kind with the same content.
LEMMA AlikeFields ==
    ASSUME NEW a, NEW b, Messages(a), Alike(a, b), NEW i \in DOMAIN a
    PROVE  /\ IsMessage(b[i]) /\ b[i].kind = a[i].kind /\ (IsTool(b[i]) <=> IsTool(a[i]))
           /\ IsTool(a[i]) => b[i].call = a[i].call
           /\ ~IsTool(a[i]) => b[i] = a[i]
  <1>1. CASE b[i] = a[i]
    BY <1>1 DEF Messages
  <1>2. CASE IsTool(a[i]) /\ \E form : b[i] = ToolMsg(a[i].call, form)
    BY <1>2, MessageFields DEF IsTool
  <1> QED BY <1>1, <1>2 DEF Alike

\* They tell the same.
LEMMA AlikeTells ==
    ASSUME NEW a, NEW b, Messages(a), Alike(a, b)
    PROVE  Messages(b) /\ \A what, x : Told(b, what, x) <=> Told(a, what, x)
  <1>1. \A i \in DOMAIN a : /\ IsMessage(b[i]) /\ b[i].kind = a[i].kind
                            /\ (IsTool(b[i]) <=> IsTool(a[i]))
                            /\ IsTool(a[i]) => b[i].call = a[i].call
                            /\ ~IsTool(a[i]) => b[i] = a[i]
    BY AlikeFields
  <1>2. ASSUME NEW i \in DOMAIN a, NEW what, NEW x
        PROVE  MessageTells(b[i], what, x) <=> MessageTells(a[i], what, x)
    BY <1>1 DEF MessageTells, IsTool, IsRealUser
  <1>3. DOMAIN b = DOMAIN a /\ IsList(b)
    BY DEF Alike
  <1> QED BY <1>1, <1>2, <1>3 DEF Messages, Told

\* One pass after the other.
LEMMA AlikeTrans ==
    ASSUME NEW a, NEW b, NEW c, Messages(a), Alike(a, b), Alike(b, c) PROVE Alike(a, c)
  <1>1. ASSUME NEW i \in DOMAIN a
        PROVE  c[i] = a[i] \/ (IsTool(a[i]) /\ \E form : c[i] = ToolMsg(a[i].call, form))
    <2>1. /\ b[i].kind = a[i].kind /\ (IsTool(b[i]) <=> IsTool(a[i]))
          /\ IsTool(a[i]) => b[i].call = a[i].call
          /\ ~IsTool(a[i]) => b[i] = a[i]
      BY AlikeFields
    <2>2. c[i] = b[i] \/ (IsTool(b[i]) /\ \E form : c[i] = ToolMsg(b[i].call, form))
      BY DEF Alike
    <2>3. b[i] = a[i] \/ (IsTool(a[i]) /\ \E form : b[i] = ToolMsg(a[i].call, form))
      BY DEF Alike
    <2> QED BY <2>1, <2>2, <2>3
  <1>2. IsList(c) /\ DOMAIN c = DOMAIN a
    BY DEF Alike
  <1> QED BY <1>1, <1>2 DEF Alike

\* A list in which some results have a new form.
LEMMA ReformedAlike ==
    ASSUME NEW ms, Messages(ms), NEW b, IsList(b), DOMAIN b = DOMAIN ms,
           \A i \in DOMAIN ms : b[i] = ms[i] \/ (IsTool(ms[i]) /\ \E form : b[i] = Reform(ms[i], form))
    PROVE  Alike(ms, b)
  <1>1. ASSUME NEW i \in DOMAIN ms
        PROVE  b[i] = ms[i] \/ (IsTool(ms[i]) /\ \E form : b[i] = ToolMsg(ms[i].call, form))
    <2>1. CASE b[i] = ms[i]
      BY <2>1
    <2>2. CASE IsTool(ms[i]) /\ \E form : b[i] = Reform(ms[i], form)
      <3>1. PICK form : b[i] = Reform(ms[i], form)
        BY <2>2
      <3>2. IsMessage(ms[i])
        BY DEF Messages
      <3>3. b[i] = ToolMsg(ms[i].call, form)
        BY <2>2, <3>1, <3>2, Reformed
      <3> QED BY <2>2, <3>3
    <2> QED BY <2>1, <2>2
  <1> QED BY <1>1 DEF Alike

\* The budget of the trailing batch.
LEMMA ReappliedAlike == ASSUME NEW ms, Messages(ms), NEW calls PROVE Alike(ms, Reapplied(ms, calls))
  <1> DEFINE b == Reapplied(ms, calls)
  <1>1. IsList(b) /\ DOMAIN b = DOMAIN ms
    BY ReappliedList DEF Messages, Reapplied
  <1>2. ASSUME NEW i \in DOMAIN ms
        PROVE  b[i] = ms[i] \/ (IsTool(ms[i]) /\ b[i] = Reform(ms[i], "persisted"))
    <2>1. CASE i \in TrailingBatch(ms) /\ ms[i].call \in calls
      <3>1. \A j \in i..Len(ms) : IsTool(ms[j])
        BY <2>1 DEF TrailingBatch
      <3>2. i \in i..Len(ms)
        BY ListIs DEF Messages
      <3>3. b[i] = Reform(ms[i], "persisted")
        BY <2>1 DEF Reapplied, Reform
      <3> QED BY <3>1, <3>2, <3>3
    <2>2. CASE ~(i \in TrailingBatch(ms) /\ ms[i].call \in calls)
      BY <2>2 DEF Reapplied
    <2> QED BY <2>1, <2>2
  <1> HIDE DEF b
  <1>3. Alike(ms, b)
    BY <1>1, <1>2, ReformedAlike
  <1> QED BY <1>3 DEF b

\* The micro compaction.
LEMMA IdleAlike == ASSUME NEW ms, Messages(ms), NEW micro PROVE Alike(ms, ApplyIfIdle(micro, ms))
  <1> DEFINE b == ApplyIfIdle(micro, ms)
             tracked == RetainLive(micro, ms).tracked
             stale == {tracked[k].call : k \in {j \in 1..(Len(tracked) - KeepResults) :
                          /\ tracked[j].old
                          /\ tracked[j].call \in CallsNamed(ms)
                          /\ Clearable(tracked[j].call)}}
  <1>1. b = IF micro.activity # "stale" THEN ms
            ELSE [i \in DOMAIN ms |-> IF IsTool(ms[i]) /\ ms[i].call \in stale
                                      THEN [ms[i] EXCEPT !.form = "micro"] ELSE ms[i]]
    BY DEF ApplyIfIdle
  <1>2. IsList(b)
    BY IdleList DEF Messages
  <1> HIDE DEF b, tracked, stale
  <1>3. DOMAIN b = DOMAIN ms
    BY <1>1
  <1>4. ASSUME NEW i \in DOMAIN ms
        PROVE  b[i] = ms[i] \/ (IsTool(ms[i]) /\ b[i] = Reform(ms[i], "micro"))
    BY <1>1 DEF Reform
  <1>5. Alike(ms, b)
    BY <1>2, <1>3, <1>4, ReformedAlike
  <1> QED BY <1>5 DEF b

\* The prune pass.
LEMMA PruneAlike == ASSUME NEW ms, Messages(ms) PROVE Alike(ms, ApplyPrune(ms))
  <1> DEFINE b == ApplyPrune(ms)
  <1>1. IsList(b) /\ DOMAIN b = DOMAIN ms
    BY PruneList DEF Messages, ApplyPrune
  <1>2. ASSUME NEW i \in DOMAIN ms
        PROVE  b[i] = ms[i] \/ (IsTool(ms[i]) /\ \E form : b[i] = Reform(ms[i], form))
    <2> DEFINE m == ms[i]
               old == i < RecentTurnStart(ms, AtLeast1(KeepTurns))
               named == CallsNamed(ms)
    <2>1. b[i] = Pruned(m, old, named)
      BY DEF ApplyPrune
    <2> HIDE DEF b, m, old, named
    <2>2. \/ Pruned(m, old, named) = m
          \/ IsTool(m) /\ Pruned(m, old, named) \in {Reform(m, "cleared"), Reform(m, "truncated")}
      BY DEF Pruned, Reform
    <2>3. b[i] = m \/ (IsTool(m) /\ \E form : b[i] = Reform(m, form))
      BY <2>1, <2>2
    <2> QED BY <2>3 DEF m
  <1> HIDE DEF b
  <1>3. Alike(ms, b)
    BY <1>1, <1>2, ReformedAlike
  <1> QED BY <1>3 DEF b

\* A reference to a file.
LEMMA ReferencedAlike == ASSUME NEW ms, Messages(ms), NEW call PROVE Alike(ms, Referenced(ms, call))
  <1> DEFINE b == Referenced(ms, call)
             at == {i \in DOMAIN ms : IsTool(ms[i]) /\ ms[i].call = call}
  <1>1. IsList(b) /\ ms = [k \in DOMAIN ms |-> ms[k]]
    BY ReferencedList DEF Messages, IsList
  <1>2. b = IF at = {} THEN ms ELSE [ms EXCEPT ![NthFromEnd(at, 1)].form = "persisted"]
    BY DEF Referenced
  <1>3. at \in SUBSET DOMAIN ms /\ DOMAIN ms = 1..Len(ms) /\ Len(ms) \in Nat /\ IsFiniteSet(DOMAIN ms)
    BY ListIs DEF Messages
  <1>4. at # {} => NthFromEnd(at, 1) \in at
    <2> HIDE DEF at
    <2>1. IsFiniteSet(at) /\ Cardinality(at) \in Nat /\ (at # {} => Cardinality(at) # 0)
      BY <1>3, FS_Subset, FS_CardinalityType, FS_EmptySet
    <2>2. at # {} => 1 \in 1..Cardinality(at)
      BY <2>1
    <2> QED BY <1>3, <2>2, FromEnd
  <1> DEFINE n == NthFromEnd(at, 1)
  <1>5. at # {} => n \in DOMAIN ms /\ IsTool(ms[n])
    BY <1>4
  <1> HIDE DEF b, at, n
  <1>6. DOMAIN b = DOMAIN ms
    BY <1>2
  <1>7. ASSUME NEW i \in DOMAIN ms
        PROVE  b[i] = ms[i] \/ (IsTool(ms[i]) /\ b[i] = Reform(ms[i], "persisted"))
    BY <1>2, <1>5 DEF Reform, n
  <1>8. Alike(ms, b)
    BY <1>1, <1>6, <1>7, ReformedAlike
  <1> QED BY <1>8 DEF b

-----------------------------------------------------------------------------
\* What the projector tells after an event.

\* Changes of the projector.
LEMMA ProjFields ==
    ASSUME NEW p, ProjSound(p), NEW v
    PROVE  /\ [p EXCEPT !.content = v].messages = p.messages /\ [p EXCEPT !.content = v].content = v
           /\ [p EXCEPT !.calls = Append(@, v)].messages = p.messages
           /\ [p EXCEPT !.calls = Append(@, v)].content = p.content
           /\ [p EXCEPT !.messages = v].messages = v /\ [p EXCEPT !.messages = v].content = p.content
           /\ AddMessage(p, v).messages = Append(p.messages, v) /\ AddMessage(p, v).content = p.content
  <1>1. DOMAIN p = {"messages", "content", "calls"}
    BY DEF ProjSound
  <1> QED BY <1>1 DEF AddMessage

\* flush_pending makes a message of the last text.
LEMMA FlushTells ==
    ASSUME NEW p, ProjSound(p), Messages(p.messages)
    PROVE  /\ ProjSound(FlushPending(p)) /\ Messages(FlushPending(p).messages)
           /\ FlushPending(p).content = <<>>
           /\ \A what, x : Told(FlushPending(p).messages, what, x) <=> ProjTells(p, what, x)
  <1>1. ProjSound(FlushPending(p))
    BY FlushSound
  <1>2. CASE p.content = <<>> /\ p.calls = <<>>
    BY <1>1, <1>2 DEF FlushPending, ProjTells
  <1>3. CASE ~(p.content = <<>> /\ p.calls = <<>>)
    <2> DEFINE text == IF p.content = <<>> THEN 0 ELSE p.content[1]
               m == AssistantMsg(text, p.calls)
               ms == Append(p.messages, m)
    <2>1. FlushPending(p).messages = ms /\ FlushPending(p).content = <<>>
      BY <1>3 DEF FlushPending
    <2>2. IsMessage(m) /\ m.kind = "assistant" /\ m.text = text
      BY MessageFields
    <2>3. \A what, x : MessageTells(m, what, x)
             <=> what = "text" /\ p.content # <<>> /\ p.content[1] = x /\ x # 0
      BY <2>2 DEF MessageTells, IsTool, IsRealUser
    <2> HIDE DEF m
    <2>4. /\ \A what, x : Told(ms, what, x) <=> Told(p.messages, what, x) \/ MessageTells(m, what, x)
          /\ Messages(ms)
      BY <2>2, TellsOneMore DEF Messages
    <2> HIDE DEF ms
    <2>5. \A what, x : Told(ms, what, x) <=> ProjTells(p, what, x)
      BY <2>3, <2>4 DEF ProjTells
    <2> QED BY <1>1, <2>1, <2>4, <2>5
  <1> QED BY <1>2, <1>3

\* The end of a list of messages.
LEMMA TailMessages ==
    ASSUME NEW ms, Messages(ms), NEW i \in 1..(Len(ms) + 1)
    PROVE  Messages(SubSeq(ms, i, Len(ms)))
  <1> DEFINE n == Len(ms)
             t == SubSeq(ms, i, n)
             S == {m \in {ms[k] : k \in DOMAIN ms} : IsMessage(m)}
  <1>1. ms \in Seq({ms[k] : k \in DOMAIN ms}) /\ n \in Nat /\ DOMAIN ms = 1..n
    BY ListIs DEF Messages
  <1>2. i \in Int /\ n \in Int /\ i >= 1
    BY <1>1
  <1>3. \A k \in i..n : ms[k] \in S
    <2>1. ASSUME NEW k \in i..n PROVE k \in 1..n
      BY <1>1, <1>2, <2>1
    <2> QED BY <1>1, <2>1 DEF Messages
  <1>4. \A m \in S : IsMessage(m)
    OBVIOUS
  <1> HIDE DEF S, n
  <1>5. t \in Seq(S)
    BY <1>2, <1>3, SubSeqProperties
  <1> HIDE DEF t
  <1>6. Messages(t)
    BY <1>4, <1>5, SeqIsList DEF Messages
  <1> QED BY <1>6 DEF t, n

\* What a compaction leaves are messages.
LEMMA CompactionMessages ==
    ASSUME NEW ms, Messages(ms), NEW preserved \in Nat, NEW removed
    PROVE  Messages(ApplyCompaction(ms, preserved, removed))
  <1> DEFINE start == RecentTurnStart(ms, preserved)
             gone == IF removed \in 1..Len(ms) THEN removed ELSE start - 1
  <1>1. start \in 1..(Len(ms) + 1) /\ Len(ms) \in Nat
    BY RecentTurnStartIn, ListIs DEF Messages
  <1> HIDE DEF start
  <1>2. gone + 1 \in 1..(Len(ms) + 1)
    BY <1>1
  <1>3. ApplyCompaction(ms, preserved, removed)
           = IF gone = 0 THEN ms ELSE <<Summary>> \o SubSeq(ms, gone + 1, Len(ms))
    BY DEF ApplyCompaction, start
  <1> HIDE DEF gone
  <1>4. Messages(SubSeq(ms, gone + 1, Len(ms)))
    BY <1>2, TailMessages
  <1>5. Messages(<<Summary>>) /\ IsList(<<Summary>>)
    BY MessageFields, TellsSingle, Single DEF Summary
  <1>6. Messages(<<Summary>> \o SubSeq(ms, gone + 1, Len(ms)))
    BY <1>4, <1>5, TellsJoined DEF Messages
  <1> QED BY <1>3, <1>6

\* An event adds what it tells, unless it is a compaction.
LEMMA ApplyTells ==
    ASSUME NEW p, ProjSound(p), Messages(p.messages), NEW e, Proper(e)
    PROVE  /\ Messages(ApplyEvent(p, e).messages)
           /\ e.type # "CompactApplied" =>
                 \A what, x : ProjTells(ApplyEvent(p, e), what, x)
                                 <=> ProjTells(p, what, x) \/ EventTells(e, what, x)
  <1> DEFINE f == FlushPending(p)
             q == ApplyEvent(p, e)
  <1>1. /\ ProjSound(f) /\ Messages(f.messages) /\ f.content = <<>>
        /\ \A what, x : Told(f.messages, what, x) <=> ProjTells(p, what, x)
    BY FlushTells
  <1>2. IsList(f.messages)
    BY <1>1 DEF Messages
  <1> HIDE DEF f, q
  <1>3. CASE e.type = "UserMessage" /\ e.origin \in Internal
    <2>1. q = f
      BY <1>3 DEF q, f, ApplyEvent
    <2>2. \A what, x : ~EventTells(e, what, x)
      BY <1>3 DEF EventTells, Internal
    <2> QED BY <1>1, <2>1, <2>2 DEF ProjTells, q
  <1>4. ASSUME NEW m, IsMessage(m), q = AddMessage(f, m),
               \A what, x : MessageTells(m, what, x) <=> EventTells(e, what, x)
        PROVE  /\ Messages(q.messages)
               /\ \A what, x : ProjTells(q, what, x)
                                  <=> ProjTells(p, what, x) \/ EventTells(e, what, x)
    <2>1. q.messages = Append(f.messages, m) /\ q.content = <<>>
      BY <1>1, <1>4, ProjFields
    <2>2. /\ \A what, x : Told(q.messages, what, x)
                              <=> Told(f.messages, what, x) \/ MessageTells(m, what, x)
          /\ Messages(q.messages)
      BY <1>1, <1>2, <1>4, <2>1, TellsOneMore
    <2> QED BY <1>1, <1>4, <2>1, <2>2 DEF ProjTells
  <1>5. CASE e.type = "UserMessage" /\ e.origin \notin Internal
    <2>1. q = AddMessage(f, UserMsg(e.origin, e.n))
      BY <1>5 DEF q, f, ApplyEvent
    <2>2. \A what, x : MessageTells(UserMsg(e.origin, e.n), what, x) <=> EventTells(e, what, x)
      BY <1>5, MessageFields DEF EventTells, MessageTells, IsRealUser
    <2> QED BY <1>4, <2>1, <2>2, MessageFields DEF q
  <1>6. CASE e.type = "ToolResult"
    <2>1. q = AddMessage(f, ToolMsg(e.call, e.form))
      BY <1>6 DEF q, f, ApplyEvent
    <2>2. \A what, x : MessageTells(ToolMsg(e.call, e.form), what, x) <=> EventTells(e, what, x)
      BY <1>6, MessageFields DEF EventTells, MessageTells, IsRealUser
    <2> QED BY <1>4, <2>1, <2>2, MessageFields DEF q
  <1>7. CASE e.type = "AssistantFinal"
    <2>1. q = [f EXCEPT !.content = <<e.text>>]
      BY <1>7 DEF q, f, ApplyEvent
    <2>2. q.messages = f.messages /\ q.content = <<e.text>>
      BY <1>1, <2>1, ProjFields
    <2>3. \A what, x : EventTells(e, what, x) <=> what = "text" /\ e.text = x /\ x # 0
      BY <1>7 DEF EventTells
    <2>4. <<e.text>> # <<>> /\ <<e.text>>[1] = e.text
      OBVIOUS
    <2>5. \A what, x : ProjTells(q, what, x)
             <=> Told(f.messages, what, x) \/ (what = "text" /\ e.text = x /\ x # 0)
      BY <2>2, <2>4 DEF ProjTells
    <2> QED BY <1>1, <2>2, <2>3, <2>5 DEF q
  <1>8. CASE e.type = "ToolCall"
    <2>1. q = [p EXCEPT !.calls = Append(@, e.call)]
      BY <1>8 DEF q, ApplyEvent
    <2>2. q.messages = p.messages /\ q.content = p.content
      BY <2>1, ProjFields
    <2>3. \A what, x : ~EventTells(e, what, x)
      BY <1>8 DEF EventTells
    <2> QED BY <2>2, <2>3 DEF ProjTells, q
  <1>9. CASE e.type = "ToolResultReferenceApplied"
    <2> DEFINE ms == Referenced(p.messages, e.call)
    <2>1. q = [p EXCEPT !.messages = ms]
      BY <1>9 DEF q, ApplyEvent
    <2>2. Alike(p.messages, ms)
      BY ReferencedAlike
    <2>3. Messages(ms) /\ \A what, x : Told(ms, what, x) <=> Told(p.messages, what, x)
      BY <2>2, AlikeTells
    <2> HIDE DEF ms
    <2>4. q.messages = ms /\ q.content = p.content
      BY <2>1, ProjFields
    <2>5. \A what, x : ~EventTells(e, what, x)
      BY <1>9 DEF EventTells
    <2> QED BY <2>3, <2>4, <2>5 DEF ProjTells, q
  <1>10. CASE e.type = "CompactApplied"
    <2> DEFINE ms == ApplyCompaction(f.messages, e.preserved, e.removed)
    <2>1. q = [f EXCEPT !.messages = ms]
      BY <1>10 DEF q, f, ApplyEvent
    <2>2. Messages(ms)
      BY <1>1, <1>10, CompactionMessages DEF Proper
    <2> HIDE DEF ms
    <2>3. q.messages = ms
      BY <1>1, <2>1, ProjFields
    <2> QED BY <1>10, <2>2, <2>3 DEF q
  <1>11. CASE e.type = "TurnDone"
    <2>1. q = f
      BY <1>11 DEF q, f, ApplyEvent
    <2>2. \A what, x : ~EventTells(e, what, x)
      BY <1>11 DEF EventTells
    <2> QED BY <1>1, <2>1, <2>2 DEF ProjTells, q
  <1>12. CASE e.type \notin {"UserMessage", "ToolResult", "AssistantFinal", "ToolCall",
                             "ToolResultReferenceApplied", "CompactApplied", "TurnDone"}
    <2>1. q = p
      BY <1>12 DEF q, ApplyEvent
    <2>2. \A what, x : ~EventTells(e, what, x)
      BY <1>12 DEF EventTells
    <2> QED BY <2>1, <2>2 DEF q
  <1> QED BY <1>3, <1>5, <1>6, <1>7, <1>8, <1>9, <1>10, <1>11, <1>12

\* What holds at 0 and is handed on holds to the end.
LEMMA Climb ==
    ASSUME NEW n \in Nat, NEW G, 0 \in G, \A k \in 1..n : k - 1 \in G => k \in G
    PROVE  n \in G
  <1> DEFINE Bad == {m \in 0..n : m \notin G}
  <1>1. Bad = {}
    <2> SUFFICES ASSUME Bad # {} PROVE FALSE
      OBVIOUS
    <2>1. PICK m \in Bad : \A k \in Bad : m <= k
      <3>1. Bad \in SUBSET Nat
        OBVIOUS
      <3> HIDE DEF Bad
      <3> QED BY <3>1, Least
    <2>2. m \in 1..n /\ m - 1 \in 0..n /\ ~(m <= m - 1) /\ m \notin G
      BY <2>1
    <2> QED BY <2>1, <2>2
  <1> QED BY <1>1

\* The projector after each of the events.
Passed(h, p, events) ==
  /\ h[0] = p /\ Project(p, events) = h[Len(events)]
  /\ \A k \in 1..Len(events) : h[k] = ApplyEvent(h[k - 1], events[k])

LEMMA ProjectRuns == ASSUME NEW p, NEW events, IsList(events) PROVE \E h : Passed(h, p, events)
  <1> DEFINE n == Len(events)
  <1>1. n \in Nat /\ DOMAIN events = 1..n
    BY ListIs
  <1> DEFINE h == CHOOSE g : Runs(g, p, events, n)
  <1>2. Runs(h, p, events, n)
    <2>1. \E g : Runs(g, p, events, n)
      BY <1>1, RunExists
    <2> HIDE DEF n
    <2> QED BY <2>1
  <1>3. Project(p, events) = h[n]
    BY SMT DEF Project, Runs
  <1> HIDE DEF h
  <1> HIDE DEF n
  <1>4. h[0] = p /\ \A k \in 1..n : h[k] = ApplyEvent(h[k - 1], events[k])
    BY <1>1, <1>2 DEF Runs
  <1>5. Passed(h, p, events)
    BY <1>3, <1>4 DEF n, Passed
  <1> QED BY <1>5

NoCompact(events) == \A k \in DOMAIN events : events[k].type # "CompactApplied"

\* Events add what they tell, unless there is a compaction among them.
LEMMA ProjectTells ==
    ASSUME NEW p, ProjSound(p), Messages(p.messages), NEW events, ProperList(events)
    PROVE  /\ Messages(Project(p, events).messages)
           /\ NoCompact(events) =>
                 \A what, x : ProjTells(Project(p, events), what, x)
                                 <=> ProjTells(p, what, x) \/ EventsTell(events, what, x)
  <1> DEFINE n == Len(events)
  <1>1. n \in Nat /\ DOMAIN events = 1..n
    BY ListIs DEF ProperList
  <1>2. PICK h : /\ h[0] = p /\ Project(p, events) = h[n]
                 /\ \A k \in 1..n : h[k] = ApplyEvent(h[k - 1], events[k])
    <2>1. PICK h : Passed(h, p, events)
      BY ProjectRuns DEF ProperList
    <2>2. /\ h[0] = p /\ Project(p, events) = h[n]
          /\ \A k \in 1..n : h[k] = ApplyEvent(h[k - 1], events[k])
      BY <2>1 DEF Passed
    <2> QED BY ONLY <2>2
  <1> HIDE DEF n
  <1> DEFINE Before(k, what, x) == \E i \in 1..k : EventTells(events[i], what, x)
             G == {k \in 0..n : /\ ProjSound(h[k]) /\ Messages(h[k].messages)
                                /\ NoCompact(events) =>
                                      \A what, x : ProjTells(h[k], what, x)
                                                     <=> ProjTells(p, what, x) \/ Before(k, what, x)}
  <1>3. 0 \in G
    <2>1. \A what, x : ~Before(0, what, x)
      OBVIOUS
    <2> HIDE DEF Before
    <2> QED BY <1>1, <1>2, <2>1
  <1>4. ASSUME NEW k \in 1..n, k - 1 \in G PROVE k \in G
    <2>1. \A what, x : Before(k, what, x) <=> Before(k - 1, what, x) \/ EventTells(events[k], what, x)
      <3>1. 1..k = (1..(k - 1)) \cup {k}
        BY <1>1
      <3> QED BY <3>1
    <2>2. Proper(events[k]) /\ (NoCompact(events) => events[k].type # "CompactApplied") /\ k \in 0..n
      BY <1>1 DEF ProperList, NoCompact
    <2> HIDE DEF Before
    <2> DEFINE g == h[k - 1]
    <2>3. /\ ProjSound(g) /\ Messages(g.messages)
          /\ NoCompact(events) => \A what, x : ProjTells(g, what, x)
                                     <=> ProjTells(p, what, x) \/ Before(k - 1, what, x)
      BY <1>4
    <2>4. h[k] = ApplyEvent(g, events[k])
      BY <1>2
    <2> HIDE DEF g
    <2>5. ProjSound(h[k])
      BY <2>2, <2>3, <2>4, ApplySound
    <2>6. /\ Messages(h[k].messages)
          /\ NoCompact(events) => \A what, x : ProjTells(h[k], what, x)
                <=> ProjTells(g, what, x) \/ EventTells(events[k], what, x)
      BY <2>2, <2>3, <2>4, ApplyTells
    <2>7. NoCompact(events) => \A what, x : ProjTells(h[k], what, x)
                <=> ProjTells(p, what, x) \/ Before(k, what, x)
      BY <2>1, <2>3, <2>6
    <2> QED BY <2>2, <2>5, <2>6, <2>7
  <1>5. n \in G
    <2> HIDE DEF G
    <2> QED BY <1>1, <1>3, <1>4, Climb
  <1>6. \A what, x : Before(n, what, x) <=> EventsTell(events, what, x)
    BY <1>1 DEF EventsTell
  <1> HIDE DEF Before
  <1> QED BY <1>2, <1>5, <1>6

-----------------------------------------------------------------------------
\* What the sink knows: the projector, and the events that wait for the flush.

Waits(q, what, x) == \E i \in DOMAIN q : ~Immediate(q[i]) /\ EventTells(q[i], what, x)
Knows(what, x) == ProjTells(proj, what, x) \/ Waits(pending, what, x)

\* What is selected has every element of the places.
LEMMA SelectedAll ==
    ASSUME NEW q, IsList(q), NEW K \in SUBSET DOMAIN q, NEW k \in K
    PROVE  \E i \in DOMAIN Selected(q, K) : Selected(q, K)[i] = q[k]
  <1> DEFINE s == Selected(q, K)
             r == Rank(K, k)
  <1>1. DOMAIN q = 1..Len(q) /\ Len(q) \in Nat
    BY ListIs
  <1>2. r \in 1..Cardinality(K) /\ \A j \in K : Rank(K, j) = r => j = k
    BY <1>1, Ranks
  <1>3. DOMAIN s = 1..Cardinality(K)
    BY DEF Selected
  <1>4. s[r] = q[CHOOSE j \in K : Rank(K, j) = r]
    BY <1>2 DEF Selected
  <1> HIDE DEF s
  <1>5. (CHOOSE j \in K : Rank(K, j) = r) = k
    <2>1. k \in K /\ Rank(K, k) = r
      OBVIOUS
    <2> HIDE DEF r
    <2> QED BY <1>2, <2>1
  <1>6. r \in DOMAIN s /\ s[r] = q[k]
    BY <1>2, <1>3, <1>4, <1>5
  <1> QED BY <1>6 DEF s

\* The flush emits what has waited.
LEMMA DelayedTells ==
    ASSUME NEW q, ProperList(q)
    PROVE  /\ ProperList(Delayed(q)) /\ (NoCompact(q) => NoCompact(Delayed(q)))
           /\ \A what, x : EventsTell(Delayed(q), what, x) <=> Waits(q, what, x)
  <1> DEFINE K == {k \in DOMAIN q : ~Immediate(q[k])}
             s == Selected(q, K)
  <1>1. IsList(q) /\ K \in SUBSET DOMAIN q /\ Delayed(q) = s
    BY DEF ProperList, Delayed
  <1>2. ProperList(Delayed(q))
    BY DelayedIs DEF Plain
  <1>3. \A i \in DOMAIN s : \E k \in K : s[i] = q[k]
    <2> HIDE DEF K
    <2> QED BY <1>1, CountSelected
  <1>4. \A k \in K : \E i \in DOMAIN s : s[i] = q[k]
    <2> HIDE DEF K
    <2> QED BY <1>1, SelectedAll
  <1>5. \A k : k \in K <=> k \in DOMAIN q /\ ~Immediate(q[k])
    OBVIOUS
  <1> HIDE DEF s, K
  <1>6. NoCompact(q) => NoCompact(s)
    BY <1>3, <1>5 DEF NoCompact
  <1>7. \A what, x : EventsTell(s, what, x) <=> Waits(q, what, x)
    BY <1>3, <1>4, <1>5 DEF EventsTell, Waits
  <1> QED BY <1>1, <1>2, <1>6, <1>7

\* More events wait.
LEMMA WaitsJoined ==
    ASSUME NEW a, NEW b, IsList(a), IsList(b)
    PROVE  /\ \A what, x : Waits(a \o b, what, x) <=> Waits(a, what, x) \/ Waits(b, what, x)
           /\ NoCompact(a) /\ NoCompact(b) => NoCompact(a \o b)
           /\ Plain(b) => \A what, x : Waits(b, what, x) <=> EventsTell(b, what, x)
           /\ Urgent(b) => NoCompact(b) /\ \A what, x : ~Waits(b, what, x)
  <1> DEFINE q == a \o b
             n == Len(a)
  <1>1. /\ \A k \in DOMAIN q : (k \in DOMAIN a /\ q[k] = a[k]) \/ \E j \in DOMAIN b : q[k] = b[j]
        /\ \A k \in DOMAIN a : k \in DOMAIN q /\ q[k] = a[k]
        /\ \A j \in DOMAIN b : n + j \in DOMAIN q /\ q[n + j] = b[j]
    BY Elements
  <1> HIDE DEF q, n
  <1>2. \A what, x : Waits(q, what, x) <=> Waits(a, what, x) \/ Waits(b, what, x)
    BY <1>1 DEF Waits
  <1>3. NoCompact(a) /\ NoCompact(b) => NoCompact(q)
    BY <1>1 DEF NoCompact
  <1>4. Plain(b) => \A what, x : Waits(b, what, x) <=> EventsTell(b, what, x)
    BY DEF Plain, Waits, EventsTell
  <1>5. Urgent(b) => NoCompact(b) /\ \A what, x : ~Waits(b, what, x)
    BY DEF Urgent, Waits, NoCompact, Immediate
  <1> QED BY <1>2, <1>3, <1>4, <1>5 DEF q

\* The ways of a step to the sink.
Speech(now, events) ==
  \/ now = <<>> /\ events = <<>> /\ UNCHANGED <<pending, sinkVars>>
  \/ now = <<>> /\ Push(events)
  \/ events = <<>> /\ PushImmediate(now)
  \/ FlushAfter(now, events)

\* Whichever way the events go, the sink then knows what they tell.
LEMMA SinkTells ==
    ASSUME SinkInv, Messages(proj.messages), NEW now, NEW events, Urgent(now), Plain(events),
           Speech(now, events)
    PROVE  /\ Messages(proj.messages)'
           /\ NoCompact(pending) /\ NoCompact(events) =>
                 /\ NoCompact(pending)'
                 /\ \A what, x : Knows(what, x)'
                       <=> Knows(what, x) \/ EventsTell(now, what, x) \/ EventsTell(events, what, x)
  <1>1. /\ ProjSound(proj) /\ ProperList(pending) /\ IsList(pending)
        /\ ProperList(now) /\ IsList(now) /\ ProperList(events) /\ IsList(events)
    BY UrgentIsProper DEF SinkInv, Urgent, Plain, ProperList
  <1>2. NoCompact(now)
    BY <1>1, WaitsJoined
  <1>3. Messages(<<>>) /\ NoCompact(<<>>)
        /\ \A what, x : ~Told(<<>>, what, x) /\ ~EventsTell(<<>>, what, x) /\ ~Waits(<<>>, what, x)
    BY Single, TellsSingle DEF NoCompact, Waits
  <1>4. CASE now = <<>> /\ events = <<>> /\ UNCHANGED <<pending, sinkVars>>
    BY <1>3, <1>4 DEF sinkVars, Knows
  <1>5. CASE now = <<>> /\ Push(events)
    <2>1. pending' = pending \o events /\ proj' = proj
      BY <1>5 DEF Push, sinkVars
    <2> DEFINE q == pending \o events
    <2>2. /\ \A what, x : Waits(q, what, x) <=> Waits(pending, what, x) \/ EventsTell(events, what, x)
          /\ NoCompact(pending) /\ NoCompact(events) => NoCompact(q)
      BY <1>1, WaitsJoined
    <2> HIDE DEF q
    <2>3. pending' = q
      BY <2>1 DEF q
    <2> QED BY <1>3, <1>5, <2>1, <2>2, <2>3 DEF Knows
  <1>6. CASE events = <<>> /\ PushImmediate(now)
    <2>1. pending' = pending \o now /\ proj' = Project(proj, now)
      BY <1>6 DEF PushImmediate
    <2> DEFINE q == pending \o now
               p == Project(proj, now)
    <2>2. /\ \A what, x : Waits(q, what, x) <=> Waits(pending, what, x)
          /\ NoCompact(pending) => NoCompact(q)
      BY <1>1, WaitsJoined
    <2>3. /\ Messages(p.messages)
          /\ \A what, x : ProjTells(p, what, x) <=> ProjTells(proj, what, x) \/ EventsTell(now, what, x)
      BY <1>1, <1>2, ProjectTells
    <2> HIDE DEF q, p
    <2>4. pending' = q /\ proj' = p
      BY <2>1 DEF q, p
    <2> QED BY <1>3, <1>6, <2>2, <2>3, <2>4 DEF Knows
  <1>7. CASE FlushAfter(now, events)
    <2> DEFINE q == pending \o events
               rest == Delayed(q)
               late == now \o rest
               p == Project(proj, late)
    <2>1. pending' = <<>> /\ proj' = p
      BY <1>7 DEF FlushAfter
    <2>2. ProperList(q)
      BY <1>1, ProperJoined
    <2>3. /\ \A what, x : Waits(q, what, x) <=> Waits(pending, what, x) \/ EventsTell(events, what, x)
          /\ NoCompact(pending) /\ NoCompact(events) => NoCompact(q)
      BY <1>1, WaitsJoined
    <2> HIDE DEF q
    <2>4. /\ ProperList(rest) /\ (NoCompact(q) => NoCompact(rest))
          /\ \A what, x : EventsTell(rest, what, x) <=> Waits(q, what, x)
      BY <2>2, DelayedTells
    <2>5. IsList(rest)
      BY <2>4 DEF ProperList
    <2> HIDE DEF rest
    <2>6. ProperList(late) /\ (NoCompact(rest) => NoCompact(late))
      BY <1>1, <1>2, <2>4, <2>5, ProperJoined, WaitsJoined
    <2>7. \A what, x : EventsTell(late, what, x)
                           <=> EventsTell(now, what, x) \/ EventsTell(rest, what, x)
      BY <1>1, <2>5, TellsJoined
    <2> HIDE DEF late
    <2>8. /\ Messages(p.messages)
          /\ NoCompact(late) => \A what, x : ProjTells(p, what, x)
                <=> ProjTells(proj, what, x) \/ EventsTell(late, what, x)
      BY <1>1, <2>6, ProjectTells
    <2> HIDE DEF p
    <2> QED BY <1>3, <2>1, <2>3, <2>4, <2>6, <2>7, <2>8 DEF Knows
  <1> QED BY <1>4, <1>5, <1>6, <1>7 DEF Speech

-----------------------------------------------------------------------------
\* The steps that add messages and the events that tell the same.

Comps == {"before_compact", "fit", "summarise"}

\* Events of neither a compaction nor a reference, and without prompts of users.
Tame(events) ==
  /\ Plain(events)
  /\ \A k \in DOMAIN events :
        /\ events[k].type \notin {"CompactApplied", "ToolResultReferenceApplied"}
        /\ events[k].type = "UserMessage" => events[k].origin \in Internal
Silent(events) == \A what, x : ~EventsTell(events, what, x)

\* How a step that is no part of a compaction meets the sink.
Utters(now, events) ==
  \E all :
    /\ Tame(all) /\ Speech(now, all)
    /\ \A what, x : EventsTell(all, what, x) <=> EventsTell(events, what, x)
    /\ pc' \notin Comps /\ (pc' = "idle" => pending' = <<>>)

\* The result that is recorded next.
ResultForm == IF Call \in tools.allowed THEN ResultOf(Call).form ELSE "small"
Answers(new, now) ==
  \/ /\ \A i \in DOMAIN new : ~IsTool(new[i])
     /\ \A k \in DOMAIN now : now[k].type # "ToolResult"
  \/ /\ pc = "results" /\ tools.next <= Len(tools.calls) /\ pc' = pc
     /\ tools' = [tools EXCEPT !.next = @ + 1]
     /\ new = <<ToolMsg(Call, ResultForm)>> /\ now = <<ToolResult(Call, ResultForm)>>

Adds(new) ==
  /\ Messages(new) /\ live' = live \o new
  /\ \A i \in DOMAIN new : new[i].kind = "user" => new[i].origin \in Internal

Steady ==
  /\ UNCHANGED <<comp, turn>> /\ ghost'.compacted = ghost.compacted
  /\ exec'.replaced = exec.replaced /\ DOMAIN exec' = DOMAIN exec

Says ==
  \E new, now, events :
    /\ Adds(new) /\ Urgent(now) /\ Utters(now, events) /\ Answers(new, now) /\ Steady
    /\ \A what, x : Told(new, what, x)
                      <=> EventsTell(now, what, x) \/ EventsTell(events, what, x)

\* Events in a row.
LEMMA TameJoined ==
    ASSUME NEW a, NEW b, Tame(a), Tame(b)
    PROVE  /\ Tame(a \o b)
           /\ Silent(b) => \A what, x : EventsTell(a \o b, what, x) <=> EventsTell(a, what, x)
  <1> DEFINE q == a \o b
  <1>1. IsList(a) /\ IsList(b) /\ Plain(q)
    BY PlainJoined DEF Tame, Plain, ProperList
  <1>2. \A k \in DOMAIN q : (k \in DOMAIN a /\ q[k] = a[k]) \/ \E j \in DOMAIN b : q[k] = b[j]
    BY <1>1, Elements
  <1>3. \A what, x : EventsTell(q, what, x) <=> EventsTell(a, what, x) \/ EventsTell(b, what, x)
    BY <1>1, TellsJoined
  <1> HIDE DEF q
  <1>4. Tame(q)
    BY <1>1, <1>2 DEF Tame
  <1> QED BY <1>3, <1>4 DEF q, Silent

\* One event.
LEMMA TameSingle ==
    ASSUME NEW e, ~Immediate(e), e.type \notin {"CompactApplied", "ToolResultReferenceApplied"},
           e.type = "UserMessage" => e.origin \in Internal
    PROVE  /\ Tame(<<e>>)
           /\ e.type # "AssistantFinal" => Silent(<<e>>)
  <1> DEFINE q == <<e>>
  <1>1. Plain(q) /\ DOMAIN q = {1} /\ q[1] = e
    BY PlainSingle, Single DEF Proper
  <1>2. \A what, x : EventsTell(q, what, x) <=> EventTells(e, what, x)
    BY TellsSingle
  <1> HIDE DEF q
  <1>3. Tame(q)
    BY <1>1 DEF Tame
  <1>4. e.type # "AssistantFinal" => \A what, x : ~EventTells(e, what, x)
    BY DEF EventTells, Immediate, Internal
  <1> QED BY <1>2, <1>3, <1>4 DEF q, Silent

\* The events that the steps let wait.
LEMMA TameEvents ==
    /\ Tame(<<>>) /\ Silent(<<>>)
    /\ \A n \in 0..1 : Tame(Augmented(n)) /\ Silent(Augmented(n))
    /\ \A text : Tame(<<AssistantFinal(text)>>)
    /\ \A cause : Tame(Terminal(cause)) /\ Silent(Terminal(cause))
  <1>1. Tame(<<>>) /\ Silent(<<>>)
    BY EmptyUrgent, Single, TellsSingle DEF Tame, Silent
  <1>2. ASSUME NEW n \in 0..1 PROVE Tame(Augmented(n)) /\ Silent(Augmented(n))
    <2> DEFINE q == Augmented(n)
    <2>1. Plain(q)
      BY PlainEvents
    <2>2. \A k \in DOMAIN q : q[k].type = "UserMessage" /\ q[k].origin = "ReactivationPrompt"
      BY DEF Augmented, UserEvent
    <2> HIDE DEF q
    <2>3. Tame(q)
      BY <2>1, <2>2 DEF Tame, Internal
    <2>4. Silent(q)
      BY <2>2 DEF Silent, EventsTell, EventTells
    <2> QED BY <2>3, <2>4 DEF q
  <1>3. ASSUME NEW text PROVE Tame(<<AssistantFinal(text)>>)
    BY TameSingle DEF AssistantFinal, Immediate
  <1>4. ASSUME NEW cause PROVE Tame(Terminal(cause)) /\ Silent(Terminal(cause))
    <2>1. Tame(<<TurnDone(cause)>>) /\ Silent(<<TurnDone(cause)>>)
      BY TameSingle DEF TurnDone, Immediate
    <2>2. Tame(<<ErrorEvent>>) /\ Silent(<<ErrorEvent>>)
      BY TameSingle DEF ErrorEvent, Immediate
    <2> DEFINE a == IF cause = "Error" THEN <<ErrorEvent>> ELSE <<>>
               b == <<TurnDone(cause)>>
    <2>3. Tame(a) /\ Silent(a) /\ Tame(b) /\ Silent(b)
      BY <1>1, <2>1, <2>2
    <2> HIDE DEF a, b
    <2>4. Tame(a \o b) /\ Silent(a \o b)
      BY <2>3, TameJoined DEF Silent
    <2> QED BY <2>4 DEF Terminal, a, b
  <1> QED BY <1>1, <1>2, <1>3, <1>4

\* The outcomes of a step.
LEMMA OutcomeUtters ==
    ASSUME NEW now, NEW events, Tame(events), NEW cause,
           \/ now = <<>> /\ (Completed(cause, events) \/ FinalizeTurn(cause, events)
                              \/ Fail(events) \/ Continued(events))
           \/ FinalizeAfter(now, cause, events)
           \/ now = <<>> /\ Push(events) /\ pc' \notin Comps \cup {"idle"}
           \/ now = <<>> /\ events = <<>> /\ UNCHANGED <<pending, sinkVars>> /\ pc' \notin Comps \cup {"idle"}
           \/ events = <<>> /\ PushImmediate(now) /\ pc' \notin Comps \cup {"idle"}
           \/ FlushAfter(now, events) /\ pc' \notin Comps
    PROVE  Utters(now, events)
  <1>1. ASSUME NEW c
        PROVE  /\ Tame(events \o Terminal(c))
               /\ \A what, x : EventsTell(events \o Terminal(c), what, x) <=> EventsTell(events, what, x)
    BY TameEvents, TameJoined
  <1>2. ASSUME NEW c, FinalizeAfter(now, c, events) PROVE Utters(now, events)
    <2> DEFINE all == events \o Terminal(c)
    <2>1. pc' = "idle" /\ FlushAfter(now, all)
      BY <1>2 DEF FinalizeAfter
    <2>2. Tame(all) /\ \A what, x : EventsTell(all, what, x) <=> EventsTell(events, what, x)
      BY <1>1
    <2> HIDE DEF all
    <2>3. pending' = <<>>
      BY <2>1 DEF FlushAfter
    <2> QED BY <2>1, <2>2, <2>3 DEF Utters, Speech, Comps
  <1>3. CASE now = <<>> /\ (FinalizeTurn(cause, events) \/ Fail(events))
    <2>1. \E c : FinalizeAfter(now, c, events)
      BY <1>3 DEF FinalizeTurn, Fail
    <2> QED BY <1>2, <2>1
  <1>4. CASE now = <<>> /\ (Completed(cause, events) \/ Continued(events))
    <2>1. Speech(now, events) /\ pc' \in {"turn_end", "context"}
      BY <1>4 DEF Completed, Continued, Speech
    <2> QED BY <2>1 DEF Utters, Comps
  <1>5. CASE FlushAfter(now, events) /\ pc' \notin Comps
    <2>1. pending' = <<>>
      BY <1>5 DEF FlushAfter
    <2> QED BY <1>5, <2>1 DEF Utters, Speech
  <1>6. CASE /\ pc' \notin Comps \cup {"idle"}
             /\ \/ now = <<>> /\ Push(events)
                \/ now = <<>> /\ events = <<>> /\ UNCHANGED <<pending, sinkVars>>
                \/ events = <<>> /\ PushImmediate(now)
    <2>1. Speech(now, events)
      BY <1>6 DEF Speech
    <2> QED BY <1>6, <2>1 DEF Utters
  <1> QED BY <1>2, <1>3, <1>4, <1>5, <1>6

\* Nothing is added.
LEMMA AddsNothing ==
    ASSUME Work, UNCHANGED live
    PROVE  Adds(<<>>) /\ (\A what, x : ~Told(<<>>, what, x)) /\ (\A i \in DOMAIN <<>> : ~IsTool(<<>>[i]))
  <1>1. live = live \o <<>>
    <2>1. live \in Seq({live[k] : k \in DOMAIN live})
      BY ListIs DEF Work
    <2> DEFINE S == {live[k] : k \in DOMAIN live}
    <2> HIDE DEF S
    <2>2. live \in Seq(S)
      BY <2>1 DEF S
    <2> QED BY <2>2
  <1>2. DOMAIN <<>> = {}
    BY Single
  <1> QED BY <1>1, <1>2, TellsSingle DEF Adds

\* One message is added.
LEMMA AddsOne ==
    ASSUME Work, NEW m, IsMessage(m), live' = Append(live, m),
           m.kind = "user" => m.origin \in Internal
    PROVE  /\ Adds(<<m>>) /\ \A what, x : Told(<<m>>, what, x) <=> MessageTells(m, what, x)
           /\ ~IsTool(m) => \A i \in DOMAIN <<m>> : ~IsTool(<<m>>[i])
  <1>1. live' = live \o <<m>>
    BY Appended DEF Work
  <1> DEFINE q == <<m>>
  <1>2. DOMAIN q = {1} /\ q[1] = m /\ Messages(q)
        /\ \A what, x : Told(q, what, x) <=> MessageTells(m, what, x)
    BY Single, TellsSingle
  <1>3. live' = live \o q
    BY <1>1
  <1> HIDE DEF q
  <1>4. Adds(q) /\ (~IsTool(m) => \A i \in DOMAIN q : ~IsTool(q[i]))
    BY <1>2, <1>3 DEF Adds
  <1> QED BY <1>2, <1>4 DEF q

\* A step that says nothing, or only emits the events of calls and their output.
LEMMA SaysNothing ==
    ASSUME Work, UNCHANGED live, Steady, NEW now, NEW events, Urgent(now), Utters(now, events),
           Silent(now), Silent(events)
    PROVE  Says
  <1>1. Adds(<<>>) /\ (\A what, x : ~Told(<<>>, what, x)) /\ (\A i \in DOMAIN <<>> : ~IsTool(<<>>[i]))
    BY AddsNothing
  <1>2. \A k \in DOMAIN now : now[k].type # "ToolResult"
    <2> SUFFICES ASSUME NEW k \in DOMAIN now, now[k].type = "ToolResult" PROVE FALSE
      OBVIOUS
    <2>1. EventTells(now[k], "result", now[k].call)
      BY DEF EventTells
    <2> QED BY <2>1 DEF Silent, EventsTell
  <1> QED BY <1>1, <1>2 DEF Says, Answers, Silent

Fields == Shape /\ "replaced" \in DOMAIN exec

\* Fields of the ghost and of the context that most steps leave alone.
LEMMA FieldsKept ==
    ASSUME Fields
    PROVE  /\ \A f \in GhostFields \ {"compacted"} : \A v :
                 ghost' = [ghost EXCEPT ![f] = v] => ghost'.compacted = ghost.compacted
           /\ \A n : Replied(n) => ghost'.compacted = ghost.compacted
           /\ AfterReply.replaced = exec.replaced /\ DOMAIN AfterReply = DOMAIN exec
           /\ \A v : [AfterReply EXCEPT !.continuations = v].replaced = exec.replaced
           /\ \A v : DOMAIN [AfterReply EXCEPT !.continuations = v] = DOMAIN exec
           /\ \A u, v : [exec EXCEPT !.micro = u, !.reads = v].replaced = exec.replaced
           /\ \A u, v : DOMAIN [exec EXCEPT !.micro = u, !.reads = v] = DOMAIN exec
  <1>1. ASSUME NEW f \in GhostFields \ {"compacted"}, NEW v, ghost' = [ghost EXCEPT ![f] = v]
        PROVE  ghost'.compacted = ghost.compacted
    BY <1>1 DEF Fields, Shape, GhostFields
  <1>2. ASSUME NEW n, Replied(n) PROVE ghost'.compacted = ghost.compacted
    <2>1. ghost' = [ghost EXCEPT !["calls"] = ghost.calls + n]
      BY <1>2 DEF Replied
    <2> QED BY <2>1 DEF Fields, Shape, GhostFields
  <1>3. AfterReply.replaced = exec.replaced /\ DOMAIN AfterReply = DOMAIN exec
    BY DEF AfterReply, Fields
  <1>4. /\ \A v : [AfterReply EXCEPT !.continuations = v].replaced = exec.replaced
        /\ \A v : DOMAIN [AfterReply EXCEPT !.continuations = v] = DOMAIN exec
    <2> DEFINE a == AfterReply
    <2>1. a.replaced = exec.replaced /\ DOMAIN a = DOMAIN exec /\ "replaced" \in DOMAIN a
      BY <1>3 DEF Fields
    <2> HIDE DEF a
    <2>2. \A v : [a EXCEPT !.continuations = v].replaced = exec.replaced
      BY <2>1
    <2>3. \A v : DOMAIN [a EXCEPT !.continuations = v] = DOMAIN exec
      BY <2>1
    <2> QED BY <2>2, <2>3 DEF a
  <1>5. /\ \A u, v : [exec EXCEPT !.micro = u, !.reads = v].replaced = exec.replaced
        /\ \A u, v : DOMAIN [exec EXCEPT !.micro = u, !.reads = v] = DOMAIN exec
    BY DEF Fields
  <1> QED BY <1>1, <1>2, <1>3, <1>4, <1>5

\* Hooks add prompts that are not projected.
LEMMA HooksSay == ASSUME Work, Fields, Hooks PROVE Says
  <1>1. UNCHANGED <<comp, turn, exec>>
    BY DEF Hooks, HookGoesOn, HookCancels, HookBlocks, hostVars
  <1>2. PICK n \in 0..1 :
           /\ HookPrompts(n)
           /\ \/ HookGoesOn(n)
              \/ FinalizeTurn("Cancelled", Augmented(n))
              \/ Completed("Cancelled", Augmented(n))
              \/ Fail(Augmented(n))
    <2>1. CASE \E n \in 0..1 : HookGoesOn(n)
      BY <2>1 DEF HookGoesOn
    <2>2. CASE HookCancels
      BY <2>2 DEF HookCancels
    <2>3. CASE HookBlocks
      BY <2>3 DEF HookBlocks
    <2> QED BY <2>1, <2>2, <2>3 DEF Hooks
  <1>3. Tame(Augmented(n)) /\ Silent(Augmented(n))
    BY TameEvents
  <1>4. Utters(<<>>, Augmented(n))
    <2>1. CASE HookGoesOn(n)
      <3>1. CASE pc = "turn_start" /\ FlushAfter(<<>>, Augmented(n)) /\ pc' = AfterHook[pc]
        <4>1. pc' \notin Comps
          BY <3>1 DEF AfterHook, Comps
        <4> QED BY <1>3, <3>1, <4>1, OutcomeUtters
      <3>2. CASE pc \in {"context", "before_agent"} /\ Push(Augmented(n)) /\ pc' = AfterHook[pc]
        <4>1. pc' \notin Comps \cup {"idle"}
          BY <3>2 DEF AfterHook, Comps
        <4> QED BY <1>3, <3>2, <4>1, OutcomeUtters
      <3>3. CASE FinalizeTurn(stop, Augmented(n))
        BY <1>3, <3>3, OutcomeUtters
      <3> QED BY <2>1, <3>1, <3>2, <3>3 DEF HookGoesOn
    <2>2. CASE \/ FinalizeTurn("Cancelled", Augmented(n))
               \/ Completed("Cancelled", Augmented(n))
               \/ Fail(Augmented(n))
      BY <1>3, <2>2, OutcomeUtters
    <2> QED BY <1>2, <2>1, <2>2
  <1> DEFINE new == [k \in 1..n |-> UserMsg("ReactivationPrompt", 0)]
  <1>5. live' = live \o new /\ ghost' = [ghost EXCEPT !["prompts"] = ghost.prompts + n]
    BY <1>2 DEF HookPrompts
  <1>6. Steady
    <2>1. ghost'.compacted = ghost.compacted
      BY <1>5, FieldsKept DEF GhostFields
    <2> QED BY <1>1, <2>1 DEF Steady
  <1>7. Adds(new) /\ (\A what, x : ~Told(new, what, x)) /\ \A i \in DOMAIN new : ~IsTool(new[i])
    <2>1. n \in Nat /\ new = [k \in 1..n |-> new[k]]
      OBVIOUS
    <2>2. \A k \in DOMAIN new : new[k] = UserMsg("ReactivationPrompt", 0)
      OBVIOUS
    <2> HIDE DEF new
    <2>3. IsList(new)
      BY <2>1, ListMade
    <2>4. \A k \in DOMAIN new : /\ IsMessage(new[k]) /\ new[k].kind = "user" /\ ~IsTool(new[k])
                                 /\ new[k].origin = "ReactivationPrompt"
      BY <2>2, MessageFields
    <2>5. Messages(new)
      BY <2>3, <2>4 DEF Messages
    <2>6. \A what, x : ~Told(new, what, x)
      BY <2>4 DEF Told, MessageTells, IsRealUser
    <2> QED BY <1>5, <2>4, <2>5, <2>6 DEF Adds, Internal
  <1>8. Urgent(<<>>) /\ Silent(<<>>) /\ DOMAIN <<>> = {}
    BY EmptyUrgent, TameEvents, Single
  <1> HIDE DEF new
  <1>9. Answers(new, <<>>)
    BY <1>7, <1>8 DEF Answers
  <1> QED BY <1>3, <1>4, <1>6, <1>7, <1>8, <1>9 DEF Says, Silent

\* A step that ends the turn, or the round, without a message.
LEMMA EndsSay ==
    ASSUME Work, UNCHANGED <<live, comp, turn, exec>>, ghost'.compacted = ghost.compacted,
           NEW cause, NEW events, Tame(events), Silent(events),
           \/ Completed(cause, events) \/ FinalizeTurn(cause, events)
           \/ Fail(events) \/ Continued(events)
           \/ events = <<>> /\ UNCHANGED <<pending, sinkVars>> /\ pc' \notin Comps \cup {"idle"}
    PROVE  Says
  <1>1. Utters(<<>>, events)
    BY OutcomeUtters
  <1>2. Urgent(<<>>) /\ Silent(<<>>)
    BY EmptyUrgent, TameEvents
  <1> QED BY <1>1, <1>2, SaysNothing DEF Steady

\* The requests, but for their assembly.
LEMMA RequestsSay == ASSUME Work, Requests, ~Assemble PROVE Says
  <1>1. UNCHANGED <<live, comp, turn, exec, ghost>>
    BY DEF Requests, CheckProvider, ProviderHookContinues, ProviderHookStops, hostVars
  <1>2. Tame(<<>>) /\ Silent(<<>>) /\ Tame(Augmented(1)) /\ Silent(Augmented(1))
    BY TameEvents
  <1>3. CASE CheckProvider
    <2>1. \/ Completed("Completed", <<>>) \/ Completed("Cancelled", <<>>)
          \/ pc' = "assemble" /\ UNCHANGED <<pending, sinkVars>>
      BY <1>3 DEF CheckProvider
    <2> QED BY <1>1, <1>2, <2>1, EndsSay DEF Comps
  <1>4. CASE ProviderHookContinues
    <2>1. pc' = "generate" /\ UNCHANGED <<pending, sinkVars>>
      BY <1>4 DEF ProviderHookContinues
    <2> QED BY <1>1, <1>2, <2>1, EndsSay DEF Comps
  <1>5. CASE ProviderHookStops
    <2>1. Completed("Completed", Augmented(1)) \/ Completed("Cancelled", <<>>) \/ Fail(<<>>)
      BY <1>5 DEF ProviderHookStops
    <2> QED BY <1>1, <1>2, <2>1, EndsSay
  <1> QED BY <1>3, <1>4, <1>5 DEF Requests

\* A message and its event.
LEMMA SaysOne ==
    ASSUME Work, Steady, NEW m, IsMessage(m), live' = Append(live, m),
           m.kind = "user" => m.origin \in Internal, NEW now, NEW events,
           Urgent(now), Utters(now, events), Answers(<<m>>, now),
           \A what, x : MessageTells(m, what, x)
                           <=> EventsTell(now, what, x) \/ EventsTell(events, what, x)
    PROVE  Says
  <1>1. Adds(<<m>>) /\ \A what, x : Told(<<m>>, what, x) <=> MessageTells(m, what, x)
    BY AddsOne
  <1> QED BY <1>1 DEF Says

\* A text is told by its message and by its event.
LEMMA TextTells ==
    ASSUME NEW text, NEW calls
    PROVE  \A what, x : MessageTells(AssistantMsg(text, calls), what, x)
                           <=> EventsTell(<<>>, what, x) \/ EventsTell(<<AssistantFinal(text)>>, what, x)
  <1> DEFINE m == AssistantMsg(text, calls)
             e == AssistantFinal(text)
  <1>1. m.kind = "assistant" /\ m.text = text /\ ~IsTool(m)
    BY MessageFields
  <1>2. e.type = "AssistantFinal" /\ e.text = text
    BY DEF AssistantFinal
  <1>3. /\ \A what, x : EventsTell(<<e>>, what, x) <=> EventTells(e, what, x)
        /\ \A what, x : ~EventsTell(<<>>, what, x)
    BY TellsSingle
  <1> HIDE DEF m, e
  <1>4. \A what, x : MessageTells(m, what, x) <=> EventTells(e, what, x)
    BY <1>1, <1>2 DEF MessageTells, EventTells, IsRealUser
  <1> QED BY <1>3, <1>4 DEF m, e

\* The replies.
LEMMA RepliesSay == 
    ASSUME Work, Fields, Reply, ~ReplyTooLong \/ Fail(<<>>) PROVE Says
  <1>0. Tame(<<>>) /\ Silent(<<>>) /\ Urgent(<<>>) /\ DOMAIN <<>> = {}
    BY TameEvents, EmptyUrgent, Single
  <1>1. CASE ReplyText
    <2> DEFINE text == ghost.calls + exec.replies + 1
               m == AssistantMsg(text, <<>>)
               said == Append(live, m)
               events == <<AssistantFinal(text)>>
               ask == UserMsg("ContinuationPrompt", 0)
    <2>1. UNCHANGED <<comp, turn>> /\ Replied(0)
      BY <1>1 DEF ReplyText, hostVars
    <2>2. \/ live' = said /\ exec' = AfterReply /\ Completed("Completed", events)
          \/ /\ live' = Append(said, ask) /\ Continued(events)
             /\ exec' = [AfterReply EXCEPT !.continuations = exec.continuations + 1]
      <3>1. \/ live' = said /\ exec' = AfterReply /\ Completed("Completed", events)
            \/ /\ live' = Append(said, ask) /\ Continued(events)
               /\ exec' = [AfterReply EXCEPT !.continuations = @ + 1]
        BY <1>1 DEF ReplyText
      <3>2. AfterReply.continuations = exec.continuations
        BY DEF AfterReply
      <3> QED BY <3>1, <3>2
    <2>3. Steady
      BY <2>1, <2>2, FieldsKept DEF Steady
    <2>4. Tame(events)
      BY TameEvents
    <2>5. \A what, x : MessageTells(m, what, x)
                           <=> EventsTell(<<>>, what, x) \/ EventsTell(events, what, x)
      BY TextTells
    <2>6. IsMessage(m) /\ m.kind = "assistant" /\ ~IsTool(m)
      BY MessageFields
    <2>7. IsMessage(ask) /\ ask.kind = "user" /\ ask.origin = "ContinuationPrompt" /\ ~IsTool(ask)
      BY MessageFields
    <2> HIDE DEF text, m, events, ask
    <2>8. CASE live' = said /\ Completed("Completed", events)
      <3>1. Utters(<<>>, events)
        BY <2>4, <2>8, OutcomeUtters
      <3>2. Answers(<<m>>, <<>>)
        BY <1>0, <2>6, Single DEF Answers
      <3> QED BY <1>0, <2>3, <2>5, <2>6, <2>8, <3>1, <3>2, SaysOne
    <2>9. CASE live' = Append(said, ask) /\ Continued(events)
      <3>1. Utters(<<>>, events)
        BY <2>4, <2>9, OutcomeUtters
      <3> DEFINE new == <<m>> \o <<ask>>
      <3>2. IsList(<<m>>) /\ IsList(<<ask>>) /\ IsList(live) /\ IsList(said)
        BY Single, Appended DEF Work
      <3>3. live' = live \o new
        <4>1. said = live \o <<m>> /\ Append(said, ask) = said \o <<ask>>
          BY <3>2, Appended
        <4>2. (live \o <<m>>) \o <<ask>> = live \o new
          BY <3>2, Assoc
        <4> QED BY <2>9, <4>1, <4>2
      <3>4. /\ Messages(new)
            /\ \A what, x : Told(new, what, x) <=> MessageTells(m, what, x) \/ MessageTells(ask, what, x)
        BY <2>6, <2>7, <3>2, TellsJoined, TellsSingle
      <3>5. \A what, x : ~MessageTells(ask, what, x)
        BY <2>7 DEF MessageTells, IsRealUser
      <3>6. \A i \in DOMAIN new : new[i] = m \/ new[i] = ask
        BY <3>2, Elements, Single
      <3> HIDE DEF new, said
      <3>7. Adds(new) /\ \A i \in DOMAIN new : ~IsTool(new[i])
        BY <2>6, <2>7, <3>3, <3>4, <3>6 DEF Adds, Internal
      <3>8. Answers(new, <<>>)
        BY <1>0, <3>7 DEF Answers
      <3> QED BY <1>0, <2>3, <2>5, <3>1, <3>4, <3>5, <3>7, <3>8 DEF Says
    <2> QED BY <2>2, <2>8, <2>9
  <1>2. CASE ReplyTools
    <2>0. PICK n \in 1..MaxBatch : \E used \in [1..n -> Tools] :
             LET calls == [k \in 1..n |-> [id |-> ghost.calls + k, tool |-> used[k]]]
                 text == ghost.calls + exec.replies + 1
             IN  /\ Replied(n) /\ exec' = AfterReply
                 /\ live' = Append(live, AssistantMsg(text, calls))
                 /\ \/ pc' = "call" /\ Push(<<AssistantFinal(text)>>)
                    \/ Completed("Completed", <<AssistantFinal(text)>>)
      BY <1>2 DEF ReplyTools
    <2>1. PICK text, calls :
             /\ Replied(n) /\ exec' = AfterReply
             /\ live' = Append(live, AssistantMsg(text, calls))
             /\ \/ pc' = "call" /\ Push(<<AssistantFinal(text)>>)
                \/ Completed("Completed", <<AssistantFinal(text)>>)
      BY <2>0
    <2> DEFINE m == AssistantMsg(text, calls)
               events == <<AssistantFinal(text)>>
    <2>2. UNCHANGED <<comp, turn>>
      BY <1>2 DEF ReplyTools, hostVars
    <2>3. Steady
      BY <2>1, <2>2, FieldsKept DEF Steady
    <2>4. Tame(events)
      BY TameEvents
    <2>5. \A what, x : MessageTells(m, what, x)
                           <=> EventsTell(<<>>, what, x) \/ EventsTell(events, what, x)
      BY TextTells
    <2>6. IsMessage(m) /\ m.kind = "assistant" /\ ~IsTool(m)
      BY MessageFields
    <2>7. live' = Append(live, m) /\ ((pc' = "call" /\ Push(events)) \/ Completed("Completed", events))
      BY <2>1
    <2> HIDE DEF m, events
    <2>8. Utters(<<>>, events)
      BY <2>4, <2>7, OutcomeUtters DEF Comps
    <2>9. Answers(<<m>>, <<>>)
      BY <1>0, <2>6, Single DEF Answers
    <2> QED BY <1>0, <2>3, <2>5, <2>6, <2>7, <2>8, <2>9, SaysOne
  <1>3. CASE ReplyTooLong
    <2>1. Fail(<<>>) /\ pc' = "idle"
      BY <1>3 DEF ReplyTooLong, Fail, FinalizeTurn, FinalizeAfter
    <2>2. UNCHANGED <<live, comp, turn, exec, ghost>>
      BY <1>3, <2>1 DEF ReplyTooLong, hostVars
    <2> QED BY <1>0, <2>1, <2>2, EndsSay
  <1>4. CASE ReplyFails
    <2>1. UNCHANGED <<live, comp, turn, exec, ghost>>
      BY <1>4 DEF ReplyFails, hostVars
    <2>2. Fail(<<>>) \/ Completed("Cancelled", <<>>)
      BY <1>4 DEF ReplyFails
    <2> QED BY <1>0, <2>1, <2>2, EndsSay
  <1> QED BY <1>1, <1>2, <1>3, <1>4 DEF Reply

\* Output of calls tells nothing.
LEMMA OutputsTell ==
    ASSUME NEW b, IsList(b), \A k \in DOMAIN b : b[k].type \in {"ToolCall", "ToolCallDelta"}
    PROVE  Urgent(b) /\ Silent(b)
  <1>1. Urgent(b)
    BY DEF Urgent, Immediate
  <1> QED BY <1>1 DEF Silent, EventsTell, EventTells

\* The steps of the tool calls.
LEMMA ToolCallsSay == ASSUME Work, Fields, ToolCalls PROVE Says
  <1>0. Tame(<<>>) /\ Silent(<<>>) /\ Urgent(<<>>) /\ DOMAIN <<>> = {}
    BY TameEvents, EmptyUrgent, Single
  <1>1. CASE CallStops \/ ResultHookStops \/ ToolCycleCompleted
    <2>1. UNCHANGED <<live, comp, turn, exec, ghost>>
      BY <1>1 DEF CallStops, ResultHookStops, ToolCycleCompleted, hostVars
    <2>2. Completed("Cancelled", <<>>) \/ Fail(<<>>) \/ Continued(<<>>)
      BY <1>1 DEF CallStops, ResultHookStops, ToolCycleCompleted
    <2> QED BY <1>0, <2>1, <2>2, EndsSay
  <1>2. CASE CallAllowed
    <2> DEFINE e == ToolCall(Call)
               b == <<e>>
    <2>1. /\ PushImmediate(b) /\ UNCHANGED <<live, exec, comp, turn>>
          /\ pc' \in {"dispatch", "call"} /\ ghost' = [ghost EXCEPT !["loose"] = ghost.loose \cup {Call}]
      BY <1>2 DEF CallAllowed, AfterCallHook, hostVars
    <2>2. Urgent(b) /\ Silent(b)
      <3>1. e.type = "ToolCall"
        BY DEF ToolCall
      <3> HIDE DEF e
      <3> QED BY <3>1, Single, OutputsTell
    <2>3. Steady
      BY <2>1, FieldsKept DEF Steady, GhostFields
    <2> HIDE DEF b
    <2>4. Utters(b, <<>>)
      BY <1>0, <2>1, OutcomeUtters DEF Comps
    <2> QED BY <1>0, <2>1, <2>2, <2>3, <2>4, SaysNothing
  <1>3. CASE CallBlocked
    <2>1. /\ UNCHANGED <<live, exec, comp, turn, pending, sinkVars>>
          /\ pc' \in {"dispatch", "call"} /\ ghost' = [ghost EXCEPT !["loose"] = ghost.loose \cup {Call}]
      BY <1>3 DEF CallBlocked, AfterCallHook, hostVars
    <2>2. ghost'.compacted = ghost.compacted
      BY <2>1, FieldsKept DEF GhostFields
    <2> QED BY <1>0, <2>1, <2>2, EndsSay DEF Comps
  <1>4. CASE ToolSends \/ \E form \in Forms \cup {"error"} : ReturnsAs(form)
    <2>1. UNCHANGED <<live, exec, comp, turn, pending, sinkVars, ghost>> /\ pc' = "dispatch"
      BY <1>4 DEF ToolSends, ReturnsAs, hostVars
    <2> QED BY <1>0, <2>1, EndsSay DEF Comps
  <1>5. CASE DeltaReceived
    <2> DEFINE e == ToolCallDelta(Head(tools.channel))
               b == <<e>>
    <2>1. PushImmediate(b) /\ UNCHANGED <<live, exec, comp, turn, ghost>> /\ pc' = "dispatch"
      BY <1>5 DEF DeltaReceived, hostVars
    <2>2. Urgent(b) /\ Silent(b)
      <3>1. e.type = "ToolCallDelta"
        BY DEF ToolCallDelta
      <3> HIDE DEF e
      <3> QED BY <3>1, Single, OutputsTell
    <2>3. Steady
      BY <2>1 DEF Steady
    <2> HIDE DEF b
    <2>4. Utters(b, <<>>)
      BY <1>0, <2>1, OutcomeUtters DEF Comps
    <2> QED BY <1>0, <2>1, <2>2, <2>3, <2>4, SaysNothing
  <1>6. CASE AllReturned
    <2> DEFINE left == [k \in DOMAIN tools.channel |-> ToolCallDelta(tools.channel[k])]
    <2>1. /\ UNCHANGED <<live, exec, comp, turn, ghost>>
          /\ \/ pc' = "results" /\ PushImmediate(left)
             \/ FinalizeAfter(left, "Error", <<>>)
      BY <1>6 DEF AllReturned, hostVars
    <2>2. IsList(tools.channel)
      BY DEF Work, ToolsSound
    <2>3. DOMAIN left = DOMAIN tools.channel /\ left = [k \in DOMAIN left |-> left[k]]
          /\ \A k \in DOMAIN left : left[k].type = "ToolCallDelta"
      BY DEF ToolCallDelta
    <2> HIDE DEF left
    <2>4. Urgent(left) /\ Silent(left)
      BY <2>2, <2>3, SameDomain, OutputsTell
    <2>5. Steady
      BY <2>1 DEF Steady
    <2>6. Utters(left, <<>>)
      BY <1>0, <2>1, OutcomeUtters DEF Comps
    <2> QED BY <1>0, <2>1, <2>4, <2>5, <2>6, SaysNothing
  <1>7. CASE ResultRecorded
    <2> DEFINE m == ToolMsg(Call, ResultForm)
               e == ToolResult(Call, ResultForm)
               now == <<e>>
    <2>1. /\ pc = "results" /\ tools.next <= Len(tools.calls) /\ pc' = pc /\ UNCHANGED <<comp, turn>>
          /\ tools' = [tools EXCEPT !.next = @ + 1]
          /\ RecordResultOf(Call, ResultForm)
          /\ \E v : ghost' = [ghost EXCEPT !["loose"] = v]
      BY <1>7 DEF ResultRecorded, ResultForm, hostVars
    <2>2. /\ PushImmediate(now) /\ live' = Append(live, m)
          /\ \E u, v : exec' = [exec EXCEPT !.micro = u, !.reads = v]
      BY <2>1 DEF RecordResultOf
    <2>3. Steady
      BY <2>1, <2>2, FieldsKept DEF Steady, GhostFields
    <2>4. IsMessage(m) /\ m.kind = "tool" /\ m.call = Call /\ IsTool(m)
      BY MessageFields
    <2>5. e.type = "ToolResult" /\ e.call = Call
      BY DEF ToolResult
    <2>6. Answers(<<m>>, now)
      BY <2>1 DEF Answers
    <2> HIDE DEF m, e
    <2>7. Urgent(now)
      BY <2>5, UrgentSingle DEF Immediate
    <2>8. \A what, x : MessageTells(m, what, x)
                           <=> EventsTell(now, what, x) \/ EventsTell(<<>>, what, x)
      <3>1. \A what, x : EventsTell(now, what, x) <=> EventTells(e, what, x)
        BY TellsSingle
      <3>2. \A what, x : MessageTells(m, what, x) <=> EventTells(e, what, x)
        BY <2>4, <2>5 DEF MessageTells, EventTells, IsRealUser
      <3> QED BY <1>0, <3>1, <3>2 DEF Silent
    <2> HIDE DEF now
    <2>9. Utters(now, <<>>)
      BY <1>0, <2>1, <2>2, OutcomeUtters DEF Comps
    <2> QED BY <2>2, <2>3, <2>4, <2>6, <2>7, <2>8, <2>9, SaysOne
  <1> QED BY <1>1, <1>2, <1>3, <1>4, <1>5, <1>6, <1>7 DEF ToolCalls

-----------------------------------------------------------------------------
\* The invariant, and the steps of each kind.

SameTold(a, b) == \A what, x : Told(a, what, x) <=> Told(b, what, x)

\* Until the turn is compacted the sink knows what the messages tell, and the
\* messages that a compaction is about tell the same.
Heard ==
  /\ Messages(live) /\ NoCompact(pending)
  /\ \A what, x : Told(live, what, x) <=> Knows(what, x)
  /\ pc \in Comps => Messages(comp.source) /\ SameTold(comp.source, live)

HeardInv ==
  /\ "replaced" \in DOMAIN exec /\ ghost.compacted \in Nat
  /\ Messages(proj.messages)
  /\ pc = "idle" => pending = <<>>
  /\ ghost.compacted = 0 => Heard

\* What a step must do for the sink to know.
LEMMA Passes ==
    ASSUME HeardInv, SinkInv, NEW now, NEW events, Urgent(now), Plain(events), Speech(now, events),
           ghost'.compacted \in Nat, DOMAIN exec' = DOMAIN exec, pc' = "idle" => pending' = <<>>,
           ghost'.compacted = 0 =>
              /\ ghost.compacted = 0 /\ NoCompact(events) /\ Messages(live')
              /\ \A what, x : Told(live', what, x)
                    <=> Told(live, what, x) \/ EventsTell(now, what, x) \/ EventsTell(events, what, x)
              /\ pc' \in Comps => Messages(comp'.source) /\ SameTold(comp'.source, live')
    PROVE  HeardInv'
  <1>1. /\ Messages(proj.messages)'
        /\ NoCompact(pending) /\ NoCompact(events) =>
              /\ NoCompact(pending)'
              /\ \A what, x : Knows(what, x)'
                    <=> Knows(what, x) \/ EventsTell(now, what, x) \/ EventsTell(events, what, x)
    BY SinkTells DEF HeardInv
  <1>2. ASSUME ghost'.compacted = 0 PROVE Heard'
    <2>1. NoCompact(pending) /\ NoCompact(events) /\ \A what, x : Told(live, what, x) <=> Knows(what, x)
      BY <1>2 DEF HeardInv, Heard
    <2>2. NoCompact(pending)'
      BY <1>1, <2>1
    <2>3. \A what, x : Told(live', what, x) <=> Knows(what, x)'
      BY <1>1, <1>2, <2>1
    <2> QED BY <1>2, <2>2, <2>3 DEF Heard
  <1> QED BY <1>1, <1>2 DEF HeardInv

\* What is added is told.
LEMMA SaysKeeps == ASSUME HeardInv, SinkInv, Work, Says PROVE HeardInv'
  <1>1. PICK new, now, events :
           /\ Adds(new) /\ Urgent(now) /\ Utters(now, events) /\ Steady
           /\ \A what, x : Told(new, what, x)
                             <=> EventsTell(now, what, x) \/ EventsTell(events, what, x)
    BY DEF Says
  <1>2. PICK all :
           /\ Tame(all) /\ Speech(now, all)
           /\ \A what, x : EventsTell(all, what, x) <=> EventsTell(events, what, x)
           /\ pc' \notin Comps /\ (pc' = "idle" => pending' = <<>>)
    BY <1>1 DEF Utters
  <1>3. Plain(all) /\ NoCompact(all)
    BY <1>2 DEF Tame, NoCompact
  <1>4. /\ Messages(new) /\ IsList(new) /\ IsList(live) /\ live' = live \o new
    BY <1>1 DEF Adds, Messages, Work
  <1>5. /\ Messages(live) => Messages(live')
        /\ \A what, x : Told(live', what, x) <=> Told(live, what, x) \/ Told(new, what, x)
    BY <1>4, TellsJoined
  <1>6. ghost'.compacted \in Nat /\ ghost'.compacted = ghost.compacted /\ DOMAIN exec' = DOMAIN exec
    BY <1>1 DEF Steady, HeardInv
  <1>7. ghost.compacted = 0 => Messages(live)
    BY DEF HeardInv, Heard
  <1> QED BY <1>1, <1>2, <1>3, <1>5, <1>6, <1>7, Passes

\* Steps that tell the sink nothing.
LEMMA MovesKeep ==
    ASSUME HeardInv, SinkInv, UNCHANGED <<pending, sinkVars>>, ghost'.compacted = ghost.compacted,
           DOMAIN exec' = DOMAIN exec, pc' = "idle" => pc = "idle",
           Heard => /\ Messages(live') /\ SameTold(live', live)
                    /\ pc' \in Comps => Messages(comp'.source) /\ SameTold(comp'.source, live)
    PROVE  HeardInv'
  <1>1. Urgent(<<>>) /\ Plain(<<>>) /\ Speech(<<>>, <<>>)
    BY EmptyUrgent DEF Speech
  <1>2. NoCompact(<<>>) /\ \A what, x : ~EventsTell(<<>>, what, x)
    BY Single, TellsSingle DEF NoCompact
  <1>3. pc' = "idle" => pending' = <<>>
    BY DEF HeardInv
  <1>4. ghost'.compacted = 0 => 
              /\ ghost.compacted = 0 /\ Messages(live') /\ SameTold(live', live)
              /\ pc' \in Comps => Messages(comp'.source) /\ SameTold(comp'.source, live')
    BY DEF HeardInv, SameTold
  <1>5. ghost'.compacted \in Nat
    BY DEF HeardInv
  <1>6. \A what, x : ghost'.compacted = 0 => (Told(live', what, x) <=> Told(live, what, x))
    BY <1>4 DEF SameTold
  <1> QED BY <1>1, <1>2, <1>3, <1>4, <1>5, <1>6, Passes

\* The messages are reduced, which tells the same, and references are noted.
LEMMA AssembleHeard == ASSUME HeardInv, SinkInv, Work, Assemble PROVE HeardInv'
  <1>1. PICK stores, ms, now, fitted, idle, messages :
            /\ ms = Reapplied(live, exec.replaced)
            /\ now = IF stores THEN PersistedNow(ms, exec.replaced, exec.frozen) ELSE <<>>
            /\ fitted = Reapplied(ms, Range(now))
            /\ idle = ApplyIfIdle(exec.micro, fitted)
            /\ messages = ApplyPrune(idle)
            /\ Push([k \in DOMAIN now |-> ReferenceApplied(now[k])])
            /\ IF ShouldCompact(messages) /\ AutoCompact
               THEN /\ pc' = "before_compact"
                    /\ comp' = [NoCompaction EXCEPT !.source = messages]
                    /\ UNCHANGED live
               ELSE /\ pc' = "before_provider"
                    /\ live' = messages
                    /\ UNCHANGED comp
    BY DEF Assemble
  <1>2. UNCHANGED ghost /\ DOMAIN exec' = DOMAIN exec
    BY DEF Assemble
  <1> DEFINE events == [k \in DOMAIN now |-> ReferenceApplied(now[k])]
  <1>3. IsList(now)
    <2>1. IsList(ms)
      BY <1>1, ReappliedList DEF Work
    <2> QED BY <1>1, <2>1, PersistedList, Single
  <1>4. Plain(events)
    BY <1>3, PlainEvents
  <1>5. NoCompact(events) /\ Silent(events)
    <2>1. \A k \in DOMAIN events : events[k].type = "ToolResultReferenceApplied"
      BY DEF ReferenceApplied
    <2> HIDE DEF events
    <2> QED BY <2>1 DEF NoCompact, Silent, EventsTell, EventTells
  <1>6. Push(events) /\ pc' \in {"before_compact", "before_provider"}
        /\ (\/ comp'.source = messages /\ live' = live
            \/ pc' \notin Comps /\ live' = messages)
    BY <1>1 DEF Comps, NoCompaction
  <1> HIDE DEF events
  <1>7. ASSUME Messages(live) PROVE Messages(messages) /\ SameTold(messages, live)
    <2>1. Alike(live, ms) /\ Messages(ms)
      BY <1>1, <1>7, ReappliedAlike, AlikeTells
    <2>2. Alike(ms, fitted) /\ Messages(fitted)
      BY <1>1, <2>1, ReappliedAlike, AlikeTells
    <2>3. Alike(fitted, idle) /\ Messages(idle)
      BY <1>1, <2>2, IdleAlike, AlikeTells
    <2>4. Alike(idle, messages)
      BY <1>1, <2>3, PruneAlike
    <2>5. SameTold(ms, live) /\ SameTold(fitted, ms) /\ SameTold(idle, fitted)
          /\ SameTold(messages, idle) /\ Messages(messages)
      BY <1>7, <2>1, <2>2, <2>3, <2>4, AlikeTells DEF SameTold
    <2> QED BY <2>5 DEF SameTold
  <1>8. Urgent(<<>>) /\ Speech(<<>>, events) /\ \A what, x : ~EventsTell(<<>>, what, x)
    BY <1>6, EmptyUrgent, TellsSingle DEF Speech
  <1>9. ghost'.compacted = ghost.compacted /\ ghost'.compacted \in Nat /\ pc' # "idle"
    BY <1>2, <1>6 DEF HeardInv
  <1>10. ghost.compacted = 0 => /\ Messages(live') /\ SameTold(live', live)
                                /\ pc' \in Comps => Messages(comp'.source) /\ SameTold(comp'.source, live')
    BY <1>6, <1>7 DEF HeardInv, Heard, SameTold
  <1>11. \A what, x : ghost.compacted = 0 => (Told(live', what, x) <=> Told(live, what, x))
    BY <1>10 DEF SameTold
  <1> QED BY <1>2, <1>4, <1>5, <1>8, <1>9, <1>10, <1>11, Passes DEF Silent

\* A compaction is counted.
LEMMA CompactedHeard ==
    ASSUME HeardInv, SinkInv, Shape, NEW messages, NEW preserved \in Nat, NEW removed,
           Compacted(messages, preserved, removed), UNCHANGED exec
    PROVE  HeardInv'
  <1> DEFINE events == <<CompactApplied(preserved, removed)>>
  <1>1. Continued(events) \/ (pc' = "before_provider" /\ Push(events))
    BY DEF Compacted
  <1>2. Plain(events)
    BY PlainEvents
  <1> HIDE DEF events
  <1>3. Speech(<<>>, events) /\ pc' # "idle"
    BY <1>1 DEF Speech, Continued
  <1>4. ghost'.compacted = ghost.compacted + 1
    BY DEF Compacted, Shape, GhostFields
  <1>5. ghost'.compacted \in Nat /\ ghost'.compacted # 0
    BY <1>4 DEF HeardInv
  <1> QED BY <1>2, <1>3, <1>5, EmptyUrgent, Passes

\* The request goes on with the messages that were to be compacted.
LEMMA NotCompactedHeard ==
    ASSUME HeardInv, SinkInv, Work, pc \in Comps, NotCompacted, UNCHANGED <<exec, comp, turn, ghost>>
    PROVE  HeardInv'
  <1>1. CASE comp.reactive
    <2>1. Fail(<<>>) /\ UNCHANGED live
      BY <1>1 DEF NotCompacted
    <2>2. Says
      BY <2>1, TameEvents, EndsSay
    <2> QED BY <2>2, SaysKeeps
  <1>2. CASE ~comp.reactive
    <2>1. pc' = "before_provider" /\ live' = comp.source /\ UNCHANGED <<pending, sinkVars>>
      BY <1>2 DEF NotCompacted
    <2>2. Heard => Messages(live') /\ SameTold(live', live) /\ pc' \notin Comps
      BY <2>1 DEF Heard, Comps
    <2> QED BY <2>1, <2>2, MovesKeep
  <1> QED BY <1>1, <1>2

\* The steps of a compaction.
LEMMA CompactionHeard == ASSUME HeardInv, SinkInv, Work, Shape, Compaction PROVE HeardInv'
  <1>0. /\ UNCHANGED <<exec, turn>> /\ pc \in Comps /\ Tame(<<>>) /\ Silent(<<>>)
        /\ pc # "idle"
    BY TameEvents DEF Compaction, BeforeCompact, CompactHookCancels, CompactHookSummarises,
           CompactHookFails, Trim, Summarised, SummaryViolatesContract, SummaryTooLong,
           SummaryFails, Comps, hostVars
  <1>1. ASSUME Fail(<<>>), UNCHANGED <<live, comp, ghost>> PROVE HeardInv'
    <2>1. Says
      BY <1>0, <1>1, EndsSay
    <2> QED BY <2>1, SaysKeeps
  <1>2. ASSUME UNCHANGED <<live, pending, sinkVars, ghost>>, comp'.source = comp.source, pc' # "idle"
        PROVE  HeardInv'
    <2>1. Heard => /\ Messages(live') /\ SameTold(live', live)
                   /\ Messages(comp'.source) /\ SameTold(comp'.source, live)
      BY <1>0, <1>2 DEF Heard, SameTold
    <2> QED BY <1>0, <1>2, <2>1, MovesKeep
  <1>3. /\ \A v : [comp EXCEPT !.prefix = v].source = comp.source
        /\ \A v : [comp EXCEPT !.contract = v].source = comp.source
        /\ \A u, v, w : [comp EXCEPT !.prefix = u, !.suffix = v, !.keep = w].source = comp.source
        /\ \A u, v, w : [comp EXCEPT !.salvage = u, !.prefix = v, !.keep = w].source = comp.source
    BY DEF Work, CompSound
  <1>4. CASE BeforeCompact
    <2> DEFINE keep == KeepStart(comp.source)
    <2>1. \/ NotCompacted /\ UNCHANGED <<comp, ghost>>
          \/ /\ pc' = "fit" /\ UNCHANGED <<live, pending, sinkVars, ghost>>
             /\ comp' = [comp EXCEPT !.prefix = SubSeq(comp.source, 1, keep - 1),
                                     !.suffix = SubSeq(comp.source, keep, Len(comp.source)),
                                     !.keep = keep]
      BY <1>4 DEF BeforeCompact
    <2> DEFINE u == SubSeq(comp.source, 1, keep - 1)
               v == SubSeq(comp.source, keep, Len(comp.source))
    <2>2. CASE comp' = [comp EXCEPT !.prefix = u, !.suffix = v, !.keep = keep]
               /\ pc' = "fit" /\ UNCHANGED <<live, pending, sinkVars, ghost>>
      <3> HIDE DEF keep, u, v
      <3>1. comp'.source = comp.source
        BY <1>3, <2>2
      <3> QED BY <1>2, <2>2, <3>1
    <2>3. CASE NotCompacted /\ UNCHANGED <<comp, ghost>>
      BY <1>0, <2>3, NotCompactedHeard
    <2> QED BY <2>1, <2>2, <2>3
  <1>5. CASE CompactHookCancels
    BY <1>0, <1>5, NotCompactedHeard DEF CompactHookCancels
  <1>6. CASE CompactHookSummarises
    BY <1>0, <1>6, CompactedHeard DEF CompactHookSummarises
  <1>7. CASE CompactHookFails \/ SummaryFails
    BY <1>1, <1>7 DEF CompactHookFails, SummaryFails
  <1>8. CASE Trim
    <2>1. \/ Fail(<<>>) /\ UNCHANGED <<live, comp, ghost>>
          \/ pc' = "summarise" /\ UNCHANGED <<live, comp, pending, sinkVars, ghost>>
          \/ /\ comp' = [comp EXCEPT !.prefix = DropOldestUnit(comp.prefix)]
             /\ UNCHANGED <<pc, live, pending, sinkVars, ghost>>
      BY <1>8 DEF Trim
    <2> QED BY <1>0, <1>1, <1>2, <1>3, <2>1
  <1>9. CASE Summarised
    BY <1>0, <1>9, CompactedHeard, PreservedIs DEF Summarised
  <1>10. CASE SummaryViolatesContract
    <2>1. /\ pc' = "fit" /\ UNCHANGED <<live, pending, sinkVars, ghost>>
          /\ comp' = [comp EXCEPT !.contract = comp.contract + 1]
      BY <1>10 DEF SummaryViolatesContract
    <2> QED BY <1>2, <1>3, <2>1
  <1>11. CASE SummaryTooLong
    <2>1. \/ /\ pc' = "fit" /\ UNCHANGED <<live, pending, sinkVars, ghost>>
             /\ comp' = [comp EXCEPT !.salvage = comp.salvage + 1,
                                   !.prefix = DropOldestUnit(comp.prefix),
                                   !.keep = Len(DropOldestUnit(comp.prefix)) + 1]
          \/ Fail(<<>>) /\ UNCHANGED <<live, comp, ghost>>
      BY <1>11 DEF SummaryTooLong
    <2> DEFINE u == comp.salvage + 1
               v == DropOldestUnit(comp.prefix)
               w == Len(DropOldestUnit(comp.prefix)) + 1
    <2>2. CASE comp' = [comp EXCEPT !.salvage = u, !.prefix = v, !.keep = w]
               /\ pc' = "fit" /\ UNCHANGED <<live, pending, sinkVars, ghost>>
      <3> HIDE DEF u, v, w
      <3>1. comp'.source = comp.source
        BY <1>3, <2>2
      <3> QED BY <1>2, <2>2, <3>1
    <2>3. CASE Fail(<<>>) /\ UNCHANGED <<live, comp, ghost>>
      BY <1>1, <2>3
    <2> QED BY <2>1, <2>2, <2>3
  <1> QED BY <1>4, <1>5, <1>6, <1>7, <1>8, <1>9, <1>10, <1>11 DEF Compaction

\* The request was too long, and what was sent is to be compacted.
LEMMA TooLongHeard ==
    ASSUME HeardInv, SinkInv, Work, ReplyTooLong, ~Fail(<<>>) PROVE HeardInv'
  <1>1. /\ pc' = "before_compact" /\ UNCHANGED <<live, ghost, pending, sinkVars>>
        /\ comp' = [NoCompaction EXCEPT !.source = live, !.reactive = TRUE]
        /\ DOMAIN exec' = DOMAIN exec
    BY DEF ReplyTooLong
  <1>2. comp'.source = live
    BY <1>1 DEF NoCompaction
  <1>3. Heard => /\ Messages(live') /\ SameTold(live', live)
                 /\ Messages(comp'.source) /\ SameTold(comp'.source, live)
    BY <1>1, <1>2 DEF Heard, SameTold
  <1> QED BY <1>1, <1>3, MovesKeep

-----------------------------------------------------------------------------
\* The invariant holds.

\* The session begins with nothing said.
LEMMA HeardInit == ASSUME Init PROVE HeardInv
  <1>1. exec = NewContext(<<>>, FALSE) /\ pc = "idle" /\ pending = <<>> /\ live = <<>>
        /\ proj = EmptyProjector
        /\ ghost = [calls |-> 0, prompts |-> 0, loose |-> {}, inexact |-> FALSE, compacted |-> 0]
    BY DEF Init
  <1>2. "replaced" \in DOMAIN exec
    BY <1>1 DEF NewContext
  <1>3. ghost.compacted = 0
    BY <1>1
  <1>4. proj.messages = <<>> /\ proj.content = <<>>
    BY <1>1 DEF EmptyProjector
  <1>5. Messages(<<>>) /\ NoCompact(<<>>) /\ (\A what, x : ~Told(<<>>, what, x))
        /\ \A what, x : ~Waits(<<>>, what, x)
    BY Single, TellsSingle DEF NoCompact, Waits
  <1>6. \A what, x : Told(live, what, x) <=> Knows(what, x)
    BY <1>1, <1>4, <1>5 DEF Knows, ProjTells
  <1> QED BY <1>1, <1>2, <1>3, <1>4, <1>5, <1>6 DEF HeardInv, Heard, Comps

\* A turn begins with what the projector rebuilds and the prompt, which the
\* projector has too.
LEMMA NewTurnHeard == ASSUME HeardInv, SinkInv, Shape, NewTurn PROVE HeardInv'
  <1> DEFINE e == UserEvent("User", turn + 1)
             m == UserMsg("User", turn + 1)
             f == FlushPending(proj)
  <1>1. /\ proj' = ApplyEvent(proj, e) /\ live' = Append(f.messages, m)
        /\ pending' = <<>> /\ pc' = "turn_start"
        /\ ghost' = [ghost EXCEPT !["compacted"] = 0]
        /\ \E gap \in BOOLEAN : exec' = NewContext(live', gap)
    BY DEF NewTurn, Snapshot
  <1>2. ghost'.compacted = 0
    BY <1>1 DEF Shape, GhostFields
  <1>3. "replaced" \in DOMAIN exec'
    BY <1>1 DEF NewContext
  <1>4. /\ e.type = "UserMessage" /\ e.origin = "User" /\ e.n = turn + 1 /\ Proper(e)
        /\ m.kind = "user" /\ m.origin = "User" /\ m.n = turn + 1 /\ IsMessage(m) /\ ~IsTool(m)
    BY MessageFields DEF UserEvent, Proper
  <1>5. ProjSound(proj) /\ Messages(proj.messages)
    BY DEF SinkInv, HeardInv
  <1>6. /\ Messages(f.messages) /\ IsList(f.messages)
        /\ \A what, x : Told(f.messages, what, x) <=> ProjTells(proj, what, x)
    BY <1>5, FlushTells DEF Messages
  <1> HIDE DEF e, m, f
  <1>8. /\ Messages(ApplyEvent(proj, e).messages)
        /\ \A what, x : ProjTells(ApplyEvent(proj, e), what, x)
              <=> ProjTells(proj, what, x) \/ EventTells(e, what, x)
    BY <1>4, <1>5, ApplyTells
  <1>9. /\ Messages(live')
        /\ \A what, x : Told(live', what, x) <=> Told(f.messages, what, x) \/ MessageTells(m, what, x)
    BY <1>1, <1>4, <1>6, TellsOneMore
  <1>10. \A what, x : MessageTells(m, what, x) <=> EventTells(e, what, x)
    BY <1>4 DEF MessageTells, EventTells, IsRealUser, Internal
  <1>11. NoCompact(<<>>) /\ \A what, x : ~Waits(<<>>, what, x)
    BY Single DEF NoCompact, Waits
  <1>12. \A what, x : Told(live', what, x) <=> Knows(what, x)'
    BY <1>1, <1>6, <1>8, <1>9, <1>10, <1>11 DEF Knows
  <1> QED BY <1>1, <1>2, <1>3, <1>8, <1>9, <1>11, <1>12 DEF HeardInv, Heard, Comps

\* Steps that change nothing of it.
LEMMA HeardSame ==
    ASSUME HeardInv, UNCHANGED <<pc, live, exec, pending, proj, comp, ghost>> PROVE HeardInv'
  BY DEF HeardInv, Heard, Knows

\* Every step keeps it.
LEMMA HeardKeeps == ASSUME LoopInv, HeardInv, Next PROVE HeardInv'
  <1>0. Shape /\ SinkInv /\ Work /\ Fields
    BY DEF LoopInv, HeardInv, Fields
  <1>1. CASE NewTurn
    BY <1>0, <1>1, NewTurnHeard
  <1>2. CASE Hooks
    BY <1>0, <1>2, HooksSay, SaysKeeps
  <1>3. CASE Requests
    BY <1>0, <1>3, RequestsSay, SaysKeeps, AssembleHeard
  <1>4. CASE Compaction
    BY <1>0, <1>4, CompactionHeard
  <1>5. CASE Reply
    BY <1>0, <1>5, RepliesSay, SaysKeeps, TooLongHeard
  <1>6. CASE ToolCalls
    BY <1>0, <1>6, ToolCallsSay, SaysKeeps
  <1>7. CASE Rest
    BY <1>7, HeardSame DEF Rest, vars
  <1> QED
    BY <1>1, <1>2, <1>3, <1>4, <1>5, <1>6, <1>7, GroupsCover DEF Next

\* What is told by the same lists of messages is the same.
LEMMA TextsTold ==
    ASSUME NEW ms, Messages(ms)
    PROVE  /\ \A x : x \in Texts(ms) <=> Told(ms, "text", x)
           /\ \A x : x \in Results(ms) <=> Told(ms, "result", x)
           /\ \A x : x \in Users(ms) <=> Told(ms, "prompt", x)
  BY DEF Texts, Results, Users, RealUsers, Told, MessageTells

\* Between turns nothing waits, and what is rebuilt tells what was told.
LEMMA HeardGives == ASSUME LoopInv, HeardInv PROVE NothingForgotten
  <1> SUFFICES ASSUME pc = "idle", ghost.compacted = 0
               PROVE  LET ms == Snapshot(proj) IN
                      /\ Texts(ms) = Texts(live) /\ Results(ms) = Results(live)
                      /\ Users(ms) = Users(live)
                      /\ \A text \in Texts(ms) : \E i \in DOMAIN ms :
                            ms[i].kind = "assistant" /\ ms[i].text = text
    BY DEF NothingForgotten
  <1> DEFINE ms == Snapshot(proj)
  <1>1. ProjSound(proj) /\ Messages(proj.messages) /\ pending = <<>> /\ Messages(live)
        /\ \A what, x : Told(live, what, x) <=> Knows(what, x)
    BY DEF LoopInv, SinkInv, HeardInv, Heard
  <1>2. Messages(ms) /\ \A what, x : Told(ms, what, x) <=> ProjTells(proj, what, x)
    BY <1>1, FlushTells DEF Snapshot
  <1>3. \A what, x : Knows(what, x) <=> ProjTells(proj, what, x)
    <2>1. \A what, x : ~Waits(<<>>, what, x)
      BY Single DEF Waits
    <2> QED BY <1>1, <2>1 DEF Knows
  <1> HIDE DEF ms
  <1>4. Texts(ms) = Texts(live) /\ Results(ms) = Results(live) /\ Users(ms) = Users(live)
    <2>1. \A what, x : Told(ms, what, x) <=> Told(live, what, x)
      BY <1>1, <1>2, <1>3
    <2>2. /\ \A x : x \in Texts(ms) <=> x \in Texts(live)
          /\ \A x : x \in Results(ms) <=> x \in Results(live)
          /\ \A x : x \in Users(ms) <=> x \in Users(live)
      BY <1>1, <1>2, <2>1, TextsTold
    <2>3. Texts(ms) = Texts(live)
      BY <2>2 DEF Texts
    <2>4. Results(ms) = Results(live)
      BY <2>2 DEF Results
    <2>5. Users(ms) = Users(live)
      BY <2>2 DEF Users
    <2> QED BY <2>3, <2>4, <2>5
  <1>5. \A text \in Texts(ms) : \E i \in DOMAIN ms : ms[i].kind = "assistant" /\ ms[i].text = text
    BY DEF Texts
  <1> QED BY <1>4, <1>5 DEF ms

\* Of a turn without compaction, what the projector rebuilds for the next turn
\* has every prompt, text and result the messages of the turn had, and none more:
\* for any number of replies, tool calls and hooks, and however the turn ends
\* (loop.rs, and AgentStateProjector of host-session's projection.rs).
THEOREM NothingForgottenHolds == Spec => []NothingForgotten
  <1>1. Init => HeardInv
    BY HeardInit
  <1>2. ASSUME LoopInv, HeardInv, [Next]_vars PROVE HeardInv'
    <2>1. CASE UNCHANGED vars
      BY <1>2, <2>1, HeardSame DEF vars
    <2> QED BY <1>2, <2>1, HeardKeeps
  <1>3. LoopInv /\ HeardInv => NothingForgotten
    BY HeardGives
  <1> QED BY LoopIsSound, <1>1, <1>2, <1>3, PTL DEF Spec

-----------------------------------------------------------------------------
\* The prompt of the turn among the messages.

\* The message is the prompt of turn t, in its place or as recent user context.
Ours(m, t) ==
  m.kind = "user" /\ m.n = t /\ m.origin \in {"User", "RecentUserContext"}
NoOurs(ms, t) == \A i \in DOMAIN ms : ~Ours(ms[i], t)
OneOurs(ms, t) == \E i \in DOMAIN ms : Ours(ms[i], t) /\ \A j \in DOMAIN ms : Ours(ms[j], t) => j = i

\* It is the last message of a user, and there once.
PromptAt(ms, i, t) ==
  /\ i \in DOMAIN ms /\ IsRealUser(ms[i]) /\ ms[i].n = t
  /\ \A j \in DOMAIN ms : Ours(ms[j], t) => j = i
  /\ \A j \in RealUsers(ms) : j <= i
Prompted(ms, t) == \E i \in DOMAIN ms : PromptAt(ms, i, t)

\* The prompts are those of the turns up to t.
Ages(ms, t) == \A i \in DOMAIN ms : ms[i].kind = "user" => ms[i].n \in 0..t
Dated(e, t) == e.type = "UserMessage" /\ e.origin \notin Internal => e.n \in 0..t
DatedList(events, t) == \A k \in DOMAIN events : Dated(events[k], t)

\* Messages from within the loop.
FromWithin(new) == \A i \in DOMAIN new : new[i].kind = "user" => new[i].origin \in Internal

\* The prompt in two lists in a row.
LEMMA OursJoined ==
    ASSUME NEW a, NEW b, IsList(a), IsList(b), NEW t
    PROVE  /\ NoOurs(a, t) /\ NoOurs(b, t) => NoOurs(a \o b, t)
           /\ OneOurs(a, t) /\ NoOurs(b, t) => OneOurs(a \o b, t)
           /\ NoOurs(a, t) /\ OneOurs(b, t) => OneOurs(a \o b, t)
           /\ FromWithin(b) => NoOurs(b, t)
           /\ Prompted(a, t) /\ FromWithin(b) => Prompted(a \o b, t)
  <1> DEFINE q == a \o b
             n == Len(a)
  <1>1. /\ \A k \in DOMAIN q : \/ k \in DOMAIN a /\ q[k] = a[k]
                               \/ k \notin DOMAIN a /\ \E j \in DOMAIN b : k = n + j /\ q[k] = b[j]
        /\ \A k \in DOMAIN a : k \in DOMAIN q /\ q[k] = a[k]
        /\ \A j \in DOMAIN b : n + j \in DOMAIN q /\ q[n + j] = b[j]
    BY Elements
  <1> HIDE DEF q, n
  <1>2. NoOurs(a, t) /\ NoOurs(b, t) => NoOurs(q, t)
    BY <1>1 DEF NoOurs
  <1>3. OneOurs(a, t) /\ NoOurs(b, t) => OneOurs(q, t)
    <2> SUFFICES ASSUME OneOurs(a, t), NoOurs(b, t) PROVE OneOurs(q, t)
      OBVIOUS
    <2>1. PICK i \in DOMAIN a : Ours(a[i], t) /\ \A j \in DOMAIN a : Ours(a[j], t) => j = i
      BY DEF OneOurs
    <2>2. i \in DOMAIN q /\ Ours(q[i], t)
      BY <1>1, <2>1
    <2>3. \A k \in DOMAIN q : Ours(q[k], t) => k = i
      BY <1>1, <2>1 DEF NoOurs
    <2> QED BY <2>2, <2>3 DEF OneOurs
  <1>4. NoOurs(a, t) /\ OneOurs(b, t) => OneOurs(q, t)
    <2> SUFFICES ASSUME OneOurs(b, t), NoOurs(a, t) PROVE OneOurs(q, t)
      OBVIOUS
    <2>1. PICK i \in DOMAIN b : Ours(b[i], t) /\ \A j \in DOMAIN b : Ours(b[j], t) => j = i
      BY DEF OneOurs
    <2>2. n + i \in DOMAIN q /\ Ours(q[n + i], t)
      BY <1>1, <2>1
    <2>3. \A k \in DOMAIN q : Ours(q[k], t) => k = n + i
      BY <1>1, <2>1 DEF NoOurs
    <2> QED BY <2>2, <2>3 DEF OneOurs
  <1>5. FromWithin(b) => NoOurs(b, t)
    BY DEF FromWithin, NoOurs, Ours, Internal
  <1>6. Prompted(a, t) /\ FromWithin(b) => Prompted(q, t)
    <2> SUFFICES ASSUME Prompted(a, t), FromWithin(b) PROVE Prompted(q, t)
      OBVIOUS
    <2>1. PICK i \in DOMAIN a : PromptAt(a, i, t)
      BY DEF Prompted
    <2>2. i \in DOMAIN q /\ q[i] = a[i]
      BY <1>1
    <2>3. \A k \in DOMAIN q : Ours(q[k], t) => k = i
      BY <1>1, <1>5, <2>1 DEF NoOurs, PromptAt
    <2>4. \A k \in RealUsers(q) : k <= i
      <3> SUFFICES ASSUME NEW k \in DOMAIN q, IsRealUser(q[k]) PROVE k <= i
        BY DEF RealUsers
      <3>1. \A j \in DOMAIN b : ~IsRealUser(b[j])
        BY DEF FromWithin, IsRealUser, Internal
      <3>2. k \in DOMAIN a /\ q[k] = a[k]
        BY <1>1, <3>1
      <3> QED BY <2>1, <3>2 DEF PromptAt, RealUsers
    <2> QED BY <2>1, <2>2, <2>3, <2>4 DEF Prompted, PromptAt
  <1> QED BY <1>2, <1>3, <1>4, <1>5, <1>6 DEF q

\* The passes leave it where it is.
LEMMA OursAlike ==
    ASSUME NEW a, NEW b, Messages(a), Alike(a, b), NEW t
    PROVE  /\ Prompted(a, t) => Prompted(b, t)
           /\ OneOurs(a, t) => OneOurs(b, t)
           /\ Ages(a, t) => Ages(b, t)
  <1>1. \A i \in DOMAIN a : b[i] = a[i] \/ (IsTool(a[i]) /\ IsTool(b[i]))
    BY AlikeFields
  <1>2. DOMAIN b = DOMAIN a
    BY DEF Alike
  <1>3. \A i \in DOMAIN a : (Ours(a[i], t) <=> Ours(b[i], t)) /\ (IsRealUser(a[i]) <=> IsRealUser(b[i]))
                            /\ (b[i].kind = "user" => b[i] = a[i])
    BY <1>1 DEF Ours, IsTool, IsRealUser
  <1>4. RealUsers(b) = RealUsers(a)
    BY <1>2, <1>3 DEF RealUsers
  <1>5. ASSUME Prompted(a, t) PROVE Prompted(b, t)
    <2>1. PICK i \in DOMAIN a : PromptAt(a, i, t)
      BY <1>5 DEF Prompted
    <2>2. IsRealUser(b[i]) /\ b[i] = a[i]
      BY <1>3, <2>1 DEF PromptAt, IsRealUser
    <2>3. PromptAt(b, i, t)
      BY <1>2, <1>3, <1>4, <2>1, <2>2 DEF PromptAt
    <2> QED BY <1>2, <2>3 DEF Prompted
  <1>6. OneOurs(a, t) => OneOurs(b, t)
    BY <1>2, <1>3 DEF OneOurs
  <1>7. Ages(a, t) => Ages(b, t)
    BY <1>2, <1>3 DEF Ages
  <1> QED BY <1>5, <1>6, <1>7

\* The end of a list.
LEMMA TailIs ==
    ASSUME NEW ms, IsList(ms), NEW i \in 1..(Len(ms) + 1)
    PROVE  /\ IsList(SubSeq(ms, i, Len(ms)))
           /\ \A k \in DOMAIN SubSeq(ms, i, Len(ms)) :
                 i + k - 1 \in DOMAIN ms /\ SubSeq(ms, i, Len(ms))[k] = ms[i + k - 1]
  <1> DEFINE n == Len(ms)
             t == SubSeq(ms, i, n)
             S == {ms[k] : k \in DOMAIN ms}
  <1>1. ms \in Seq(S) /\ n \in Nat /\ DOMAIN ms = 1..n
    BY ListIs
  <1>2. i \in Int /\ n \in Int /\ i >= 1 /\ i <= n + 1
    BY <1>1
  <1>3. \A k \in i..n : ms[k] \in S
    <2>1. ASSUME NEW k \in i..n PROVE k \in DOMAIN ms
      BY <1>1, <1>2, <2>1
    <2> QED BY <2>1
  <1> HIDE DEF S, n
  <1>4. t \in Seq(S) /\ Len(t) = (IF i <= n THEN n - i + 1 ELSE 0)
        /\ \A k \in 1..(n - i + 1) : t[k] = ms[i + k - 1]
    BY <1>2, <1>3, SubSeqProperties
  <1> HIDE DEF t
  <1>5. IsList(t) /\ DOMAIN t = 1..Len(t)
    BY <1>4, SeqIsList, ListIs
  <1>6. Len(t) = n - i + 1
    BY <1>2, <1>4
  <1>7. \A k \in 1..(n - i + 1) : i + k - 1 \in 1..n
    BY <1>2
  <1> QED BY <1>1, <1>4, <1>5, <1>6, <1>7 DEF t, n

\* The prompts of longer and of shorter lists.
LEMMA AgesKept ==
    ASSUME NEW ms, IsList(ms), NEW t \in Nat, Ages(ms, t)
    PROVE  /\ \A m : (m.kind = "user" => m.n \in 0..t) => Ages(Append(ms, m), t)
           /\ \A i \in 1..(Len(ms) + 1) : Ages(SubSeq(ms, i, Len(ms)), t)
           /\ \A i \in 1..(Len(ms) + 1) : Ages(<<Summary>> \o SubSeq(ms, i, Len(ms)), t)
           /\ Ages(ms, t + 1)
  <1>1. ASSUME NEW m, m.kind = "user" => m.n \in 0..t PROVE Ages(Append(ms, m), t)
    <2> DEFINE q == Append(ms, m)
               n == Len(ms)
    <2>1. DOMAIN q = DOMAIN ms \cup {n + 1} /\ (\A i \in DOMAIN ms : q[i] = ms[i]) /\ q[n + 1] = m
      BY OneMore
    <2> HIDE DEF q, n
    <2> QED BY <1>1, <2>1 DEF Ages, q
  <1>2. ASSUME NEW i \in 1..(Len(ms) + 1)
        PROVE  Ages(SubSeq(ms, i, Len(ms)), t) /\ Ages(<<Summary>> \o SubSeq(ms, i, Len(ms)), t)
    <2> DEFINE r == SubSeq(ms, i, Len(ms))
               s == <<Summary>>
               q == s \o r
    <2>1. IsList(r) /\ \A k \in DOMAIN r : \E j \in DOMAIN ms : r[k] = ms[j]
      BY TailIs
    <2>2. IsList(s) /\ DOMAIN s = {1} /\ s[1] = Summary
      BY Single
    <2> HIDE DEF r
    <2>3. Ages(r, t)
      BY <2>1 DEF Ages
    <2> HIDE DEF s
    <2>4. \A k \in DOMAIN q : (k \in DOMAIN s /\ q[k] = s[k]) \/ \E j \in DOMAIN r : q[k] = r[j]
      BY <2>1, <2>2, Elements
    <2> HIDE DEF q
    <2>5. Summary.n = 0 /\ 0 \in 0..t
      BY MessageFields DEF Summary
    <2>6. Ages(q, t)
      BY <2>2, <2>3, <2>4, <2>5 DEF Ages
    <2> QED BY <2>3, <2>6 DEF q, r, s
  <1>3. Ages(ms, t + 1)
    <2>1. \A k \in 0..t : k \in 0..(t + 1)
      OBVIOUS
    <2> QED BY <2>1 DEF Ages
  <1> QED BY <1>1, <1>2, <1>3

\* An event adds the prompt it tells of.
LEMMA ApplyDates ==
    ASSUME NEW p, ProjSound(p), Messages(p.messages), NEW e, Proper(e),
           NEW t \in Nat, Ages(p.messages, t), Dated(e, t)
    PROVE  Ages(ApplyEvent(p, e).messages, t) /\ Ages(FlushPending(p).messages, t)
  <1> DEFINE f == FlushPending(p)
             q == ApplyEvent(p, e)
  <1>1. ProjSound(f) /\ Messages(f.messages) /\ IsList(f.messages) /\ IsList(p.messages)
    BY FlushTells DEF Messages
  <1>2. Ages(f.messages, t)
    <2>1. CASE p.content = <<>> /\ p.calls = <<>>
      BY <2>1 DEF FlushPending
    <2>2. CASE ~(p.content = <<>> /\ p.calls = <<>>)
      <3> DEFINE m == AssistantMsg(IF p.content = <<>> THEN 0 ELSE p.content[1], p.calls)
      <3>1. f.messages = Append(p.messages, m)
        BY <2>2 DEF FlushPending
      <3>2. m.kind = "assistant"
        BY MessageFields
      <3> HIDE DEF m, f
      <3>3. m.kind = "user" => m.n \in 0..t
        BY <3>2
      <3>4. Ages(Append(p.messages, m), t)
        BY <1>1, <3>3, AgesKept
      <3> QED BY <3>1, <3>4 DEF f
    <2> QED BY <2>1, <2>2
  <1> HIDE DEF f, q
  <1>3. ASSUME NEW m, m.kind = "user" => m.n \in 0..t, q = AddMessage(f, m) PROVE Ages(q.messages, t)
    <2>1. q.messages = Append(f.messages, m)
      BY <1>1, <1>3, ProjFields
    <2> QED BY <1>1, <1>2, <1>3, <2>1, AgesKept
  <1>4. CASE (e.type = "UserMessage" /\ e.origin \in Internal) \/ e.type = "TurnDone"
    <2>1. q = f
      BY <1>4 DEF q, f, ApplyEvent
    <2> QED BY <1>2, <2>1 DEF q, f
  <1>5. CASE e.type = "UserMessage" /\ e.origin \notin Internal
    <2>1. q = AddMessage(f, UserMsg(e.origin, e.n))
      BY <1>5 DEF q, f, ApplyEvent
    <2>2. UserMsg(e.origin, e.n).n \in 0..t
      BY <1>5, MessageFields DEF Dated
    <2> QED BY <1>2, <1>3, <2>1, <2>2 DEF q, f
  <1>6. CASE e.type = "ToolResult"
    <2>1. q = AddMessage(f, ToolMsg(e.call, e.form))
      BY <1>6 DEF q, f, ApplyEvent
    <2>2. ToolMsg(e.call, e.form).kind # "user"
      BY MessageFields
    <2> QED BY <1>2, <1>3, <2>1, <2>2 DEF q, f
  <1>7. CASE e.type = "AssistantFinal"
    <2>1. q = [f EXCEPT !.content = <<e.text>>]
      BY <1>7 DEF q, f, ApplyEvent
    <2>2. q.messages = f.messages
      BY <1>1, <2>1, ProjFields
    <2> QED BY <1>2, <2>2 DEF q, f
  <1>8. CASE e.type = "ToolCall"
    <2>1. q = [p EXCEPT !.calls = Append(@, e.call)]
      BY <1>8 DEF q, ApplyEvent
    <2>2. q.messages = p.messages
      BY <2>1, ProjFields
    <2> QED BY <1>2, <2>2 DEF q, f
  <1>9. CASE e.type = "ToolResultReferenceApplied"
    <2> DEFINE ms == Referenced(p.messages, e.call)
    <2>1. q = [p EXCEPT !.messages = ms]
      BY <1>9 DEF q, ApplyEvent
    <2>2. Alike(p.messages, ms)
      BY ReferencedAlike
    <2> HIDE DEF ms
    <2>3. q.messages = ms
      BY <2>1, ProjFields
    <2> QED BY <1>2, <2>2, <2>3, OursAlike DEF q, f
  <1>10. CASE e.type = "CompactApplied"
    <2> DEFINE ms == ApplyCompaction(f.messages, e.preserved, e.removed)
               start == RecentTurnStart(f.messages, e.preserved)
               gone == IF e.removed \in 1..Len(f.messages) THEN e.removed ELSE start - 1
    <2>1. q = [f EXCEPT !.messages = ms]
      BY <1>10 DEF q, f, ApplyEvent
    <2>2. start \in 1..(Len(f.messages) + 1) /\ Len(f.messages) \in Nat
      <3>1. e.preserved \in Nat
        BY <1>10 DEF Proper
      <3> QED BY <1>1, <3>1, RecentTurnStartIn, ListIs
    <2>3. ms = IF gone = 0 THEN f.messages
               ELSE <<Summary>> \o SubSeq(f.messages, gone + 1, Len(f.messages))
      BY DEF ApplyCompaction
    <2> HIDE DEF ms, start
    <2>4. gone + 1 \in 1..(Len(f.messages) + 1)
      BY <2>2
    <2> HIDE DEF gone
    <2>5. Ages(ms, t)
      BY <1>1, <1>2, <2>3, <2>4, AgesKept
    <2>6. q.messages = ms
      BY <1>1, <2>1, ProjFields
    <2> QED BY <1>2, <2>5, <2>6 DEF q, f
  <1>11. CASE e.type \notin {"UserMessage", "ToolResult", "AssistantFinal", "ToolCall",
                             "ToolResultReferenceApplied", "CompactApplied", "TurnDone"}
    <2>1. q = p
      BY <1>11 DEF q, ApplyEvent
    <2> QED BY <1>2, <2>1 DEF q, f
  <1> QED BY <1>4, <1>5, <1>6, <1>7, <1>8, <1>9, <1>10, <1>11

\* ... and so do events in a row.
LEMMA ProjectDates ==
    ASSUME NEW p, ProjSound(p), Messages(p.messages), NEW events, ProperList(events),
           NEW t \in Nat, Ages(p.messages, t), DatedList(events, t)
    PROVE  Ages(Project(p, events).messages, t)
  <1> DEFINE n == Len(events)
  <1>1. n \in Nat /\ DOMAIN events = 1..n
    BY ListIs DEF ProperList
  <1>2. PICK h : /\ h[0] = p /\ Project(p, events) = h[n]
                 /\ \A k \in 1..n : h[k] = ApplyEvent(h[k - 1], events[k])
    <2>1. PICK h : Passed(h, p, events)
      BY ProjectRuns DEF ProperList
    <2>2. /\ h[0] = p /\ Project(p, events) = h[n]
          /\ \A k \in 1..n : h[k] = ApplyEvent(h[k - 1], events[k])
      BY <2>1 DEF Passed
    <2> QED BY ONLY <2>2
  <1> HIDE DEF n
  <1> DEFINE G == {k \in 0..n : ProjSound(h[k]) /\ Messages(h[k].messages) /\ Ages(h[k].messages, t)}
  <1>3. 0 \in G
    BY <1>1, <1>2
  <1>4. ASSUME NEW k \in 1..n, k - 1 \in G PROVE k \in G
    <2>1. Proper(events[k]) /\ Dated(events[k], t) /\ k \in 0..n
      BY <1>1 DEF ProperList, DatedList
    <2> DEFINE g == h[k - 1]
    <2>2. ProjSound(g) /\ Messages(g.messages) /\ Ages(g.messages, t)
      BY <1>4
    <2>3. h[k] = ApplyEvent(g, events[k])
      BY <1>2
    <2> HIDE DEF g
    <2>4. ProjSound(h[k])
      BY <2>1, <2>2, <2>3, ApplySound
    <2>5. Messages(h[k].messages)
      BY <2>1, <2>2, <2>3, ApplyTells
    <2>6. Ages(h[k].messages, t)
      BY <2>1, <2>2, <2>3, ApplyDates
    <2> QED BY <2>1, <2>4, <2>5, <2>6
  <1>5. n \in G
    <2> HIDE DEF G
    <2> QED BY <1>1, <1>3, <1>4, Climb
  <1> QED BY <1>2, <1>5

\* Events in a row, those that wait, and those that tell of no prompt.
LEMMA DatesJoined ==
    ASSUME NEW a, NEW b, ProperList(a), ProperList(b), NEW t, DatedList(a, t)
    PROVE  /\ DatedList(b, t) => DatedList(a \o b, t)
           /\ DatedList(Delayed(a), t)
           /\ Urgent(b) \/ Tame(b) => DatedList(b, t)
  <1>1. IsList(a) /\ IsList(b)
    BY DEF ProperList
  <1>2. ASSUME DatedList(b, t) PROVE DatedList(a \o b, t)
    <2> DEFINE q == a \o b
    <2>1. \A k \in DOMAIN q : (k \in DOMAIN a /\ q[k] = a[k]) \/ \E j \in DOMAIN b : q[k] = b[j]
      BY <1>1, Elements
    <2> HIDE DEF q
    <2>2. DatedList(q, t)
      BY <1>2, <2>1 DEF DatedList
    <2> QED BY <2>2 DEF q
  <1>3. DatedList(Delayed(a), t)
    <2> DEFINE K == {k \in DOMAIN a : ~Immediate(a[k])}
               s == Selected(a, K)
    <2>1. K \in SUBSET DOMAIN a /\ Delayed(a) = s
      BY DEF Delayed
    <2> HIDE DEF K
    <2>2. \A i \in DOMAIN s : \E k \in K : s[i] = a[k]
      BY <1>1, <2>1, CountSelected
    <2> HIDE DEF s
    <2>3. DatedList(s, t)
      BY <2>1, <2>2 DEF DatedList
    <2> QED BY <2>1, <2>3
  <1>4. Urgent(b) => DatedList(b, t)
    BY DEF Urgent, DatedList, Dated, Immediate
  <1>5. Tame(b) => DatedList(b, t)
    BY DEF Tame, DatedList, Dated
  <1> QED BY <1>2, <1>3, <1>4, <1>5

\* Whichever way the events go, the prompts are those of the turns so far.
LEMMA SinkDates ==
    ASSUME SinkInv, Messages(proj.messages), NEW t \in Nat, Ages(proj.messages, t),
           DatedList(pending, t), NEW now, NEW events, Urgent(now), Plain(events),
           DatedList(events, t), Speech(now, events)
    PROVE  Ages(proj'.messages, t) /\ DatedList(pending', t)
  <1>1. /\ ProjSound(proj) /\ ProperList(pending) /\ ProperList(now) /\ ProperList(events)
    BY UrgentIsProper DEF SinkInv, Plain
  <1>2. DatedList(now, t)
    BY <1>1, DatesJoined
  <1>3. CASE now = <<>> /\ events = <<>> /\ UNCHANGED <<pending, sinkVars>>
    BY <1>3 DEF sinkVars
  <1>4. CASE now = <<>> /\ Push(events)
    <2>1. pending' = pending \o events /\ proj' = proj
      BY <1>4 DEF Push, sinkVars
    <2> QED BY <1>1, <2>1, DatesJoined
  <1>5. CASE events = <<>> /\ PushImmediate(now)
    <2>1. pending' = pending \o now /\ proj' = Project(proj, now)
      BY <1>5 DEF PushImmediate
    <2>2. DatedList(pending \o now, t)
      BY <1>1, <1>2, DatesJoined
    <2>3. Ages(Project(proj, now).messages, t)
      BY <1>1, <1>2, ProjectDates
    <2> QED BY <2>1, <2>2, <2>3
  <1>6. CASE FlushAfter(now, events)
    <2> DEFINE q == pending \o events
               rest == Delayed(q)
               late == now \o rest
    <2>1. pending' = <<>> /\ proj' = Project(proj, late)
      BY <1>6 DEF FlushAfter
    <2>2. ProperList(q) /\ DatedList(q, t)
      BY <1>1, ProperJoined, DatesJoined
    <2> HIDE DEF q
    <2>3. ProperList(rest) /\ DatedList(rest, t)
      BY <2>2, DelayedTells, DatesJoined
    <2> HIDE DEF rest
    <2>4. ProperList(late) /\ DatedList(late, t)
      BY <1>1, <1>2, <2>3, ProperJoined, DatesJoined
    <2> HIDE DEF late
    <2>5. Ages(Project(proj, late).messages, t)
      BY <1>1, <2>4, ProjectDates
    <2>6. DatedList(<<>>, t)
      BY Single DEF DatedList
    <2> QED BY <2>1, <2>5, <2>6
  <1> QED BY <1>3, <1>4, <1>5, <1>6 DEF Speech

\* The prompt of the turn is the last of the recent messages of users.
LEMMA RecentHasPrompt ==
    ASSUME NEW ms, IsList(ms), NEW t, NEW i \in DOMAIN ms, PromptAt(ms, i, t)
    PROVE  /\ IsList(RecentUsers(ms))
           /\ \E c \in DOMAIN RecentUsers(ms) :
                 /\ RecentUsers(ms)[c].index = i /\ RecentUsers(ms)[c].n = t
                 /\ \A k \in DOMAIN RecentUsers(ms) : RecentUsers(ms)[k].n = t => k = c
  <1> DEFINE users == RealUsers(ms)
             last == {k \in users : Cardinality({j \in users : j >= k}) <= KeepUsers}
             c == Cardinality(last)
             u == RecentUsers(ms)
             x(k) == NthFromEnd(last, c + 1 - k)
  <1>1. Len(ms) \in Nat /\ DOMAIN ms = 1..Len(ms) /\ users \in SUBSET (1..Len(ms)) /\ IsList(u)
    BY ListIs, RecentUsersList DEF RealUsers
  <1>2. /\ i \in users /\ (\A j \in users : j <= i)
        /\ \A j \in DOMAIN ms : Ours(ms[j], t) => j = i
        /\ ms[i].n = t
    BY DEF PromptAt, RealUsers
  <1>3. u = [k \in 1..c |-> [index |-> x(k), n |-> ms[x(k)].n]]
    BY DEF RecentUsers
  <1>4. \A k \in users : k \in DOMAIN ms /\ (ms[k].n = t => Ours(ms[k], t))
    BY DEF RealUsers, IsRealUser, Ours
  <1> HIDE DEF u, users
  <1>5. ASSUME NEW S \in SUBSET users, i \in S PROVE {j \in S : j >= i} = {i}
    BY <1>1, <1>2, <1>5
  <1>6. Cardinality({i}) = 1
    BY FS_Singleton
  <1>7. i \in last
    <2>1. {j \in users : j >= i} = {i}
      BY <1>2, <1>5
    <2>2. 1 <= KeepUsers
      BY ContextSettings
    <2> QED BY <1>2, <1>6, <2>1, <2>2
  <1>8. last \in SUBSET users
    OBVIOUS
  <1> HIDE DEF last
  <1>9. {j \in last : j >= i} = {i}
    BY <1>5, <1>7, <1>8
  <1>10. IsFiniteSet(last) /\ c \in Nat /\ c # 0
    <2>1. IsFiniteSet(1..Len(ms)) /\ last \in SUBSET (1..Len(ms))
      BY <1>1, <1>8, FS_Interval
    <2> QED BY <1>7, <2>1, FS_Subset, FS_CardinalityType, FS_EmptySet
  <1>11. ASSUME NEW k \in 1..c
         PROVE  x(k) \in last /\ Cardinality({j \in last : j >= x(k)}) = c + 1 - k
    <2>1. c + 1 - k \in 1..c
      BY <1>10
    <2>2. last \in SUBSET (1..Len(ms))
      BY <1>1, <1>8
    <2> QED BY <1>1, <2>1, <2>2, FromEnd
  <1>12. c \in 1..c
    BY <1>10
  <1>13. x(c) = i
    <2> DEFINE y == x(c)
               from == {j \in last : j >= y}
    <2>1. y \in last /\ Cardinality(from) = c + 1 - c
      BY <1>11, <1>12
    <2>2. Cardinality(from) = 1
      BY <1>10, <2>1
    <2> HIDE DEF y
    <2>3. from \in SUBSET last /\ i \in from /\ y \in from
      BY <1>1, <1>2, <1>7, <1>8, <2>1
    <2> HIDE DEF from
    <2>4. \E z : from = {z}
      BY <1>10, <2>2, <2>3, FS_Subset, FS_Singleton
    <2>5. y = i
      BY <2>3, <2>4
    <2> QED BY <2>5 DEF y
  <1>14. \A k \in 1..c : x(k) = i => k = c
    <2> SUFFICES ASSUME NEW k \in 1..c, x(k) = i PROVE k = c
      OBVIOUS
    <2>1. c + 1 - k = 1
      <3> HIDE DEF x
      <3> QED BY <1>6, <1>9, <1>11
    <2> QED BY <1>10, <2>1
  <1>15. \A k \in 1..c : x(k) \in users
    BY <1>8, <1>11
  <1> HIDE DEF x
  <1>16. DOMAIN u = 1..c /\ \A k \in 1..c : u[k].index = x(k) /\ u[k].n = ms[x(k)].n
    BY <1>3
  <1> HIDE DEF c
  <1>17. u[c].index = i /\ u[c].n = t
    BY <1>2, <1>12, <1>13, <1>16
  <1>18. \A k \in DOMAIN u : u[k].n = t => k = c
    BY <1>2, <1>4, <1>14, <1>15, <1>16
  <1> QED BY <1>1, <1>12, <1>16, <1>17, <1>18 DEF u

\* What a compaction by the model leaves are messages.
LEMMA CompactedMessagesAre ==
    ASSUME NEW users, IsList(users), NEW suffix, Messages(suffix), NEW keep, NEW digest
    PROVE  Messages(CompactedMessages(users, keep, suffix, digest))
  <1> DEFINE again == {o \in DOMAIN suffix :
                         /\ IsRealUser(suffix[o])
                         /\ \E k \in DOMAIN users : users[k].index = keep + o - 1}
             first == IF digest THEN <<UserMsg("RecentUserContextDigest", 0)>> ELSE <<>>
             recent == [k \in DOMAIN users |-> UserMsg("RecentUserContext", users[k].n)]
             rest == Selected(suffix, DOMAIN suffix \ again)
             head == <<Summary>> \o first
             front == head \o recent
  <1>1. CompactedMessages(users, keep, suffix, digest) = front \o rest
    BY DEF CompactedMessages
  <1>2. Messages(<<Summary>>) /\ Messages(first)
    BY MessageFields, TellsSingle DEF Summary
  <1>3. Messages(recent)
    <2>1. DOMAIN recent = DOMAIN users /\ recent = [k \in DOMAIN recent |-> recent[k]]
          /\ \A k \in DOMAIN recent : recent[k] = UserMsg("RecentUserContext", users[k].n)
      OBVIOUS
    <2> HIDE DEF recent
    <2> QED BY <2>1, SameDomain, MessageFields DEF Messages
  <1>4. Messages(rest)
    <2> DEFINE K == DOMAIN suffix \ again
    <2>1. K \in SUBSET DOMAIN suffix
      OBVIOUS
    <2> HIDE DEF again, K
    <2>2. IsList(Selected(suffix, K)) /\ \A k \in DOMAIN Selected(suffix, K) :
             \E j \in K : Selected(suffix, K)[k] = suffix[j]
      BY <2>1, CountSelected DEF Messages
    <2>3. Messages(Selected(suffix, K))
      BY <2>1, <2>2 DEF Messages
    <2> QED BY <2>3 DEF K
  <1> HIDE DEF first, recent, rest
  <1>5. Messages(head)
    BY <1>2, TellsJoined DEF Messages
  <1> HIDE DEF head
  <1>6. Messages(front)
    BY <1>3, <1>5, TellsJoined DEF Messages
  <1> HIDE DEF front
  <1>7. Messages(front \o rest)
    BY <1>4, <1>6, TellsJoined DEF Messages
  <1> QED BY <1>1, <1>7

\* Of the prompt, the compaction leaves one: it is put in front as recent user
\* context, and taken out of the messages that are kept.
LEMMA CompactedHasPrompt ==
    ASSUME NEW ms, Messages(ms), NEW t, Prompted(ms, t), NEW keep \in 1..Len(ms),
           NEW suffix, suffix = SubSeq(ms, keep, Len(ms)), NEW digest
    PROVE  OneOurs(CompactedMessages(RecentUsers(ms), keep, suffix, digest), t)
  <1> DEFINE users == RecentUsers(ms)
             again == {o \in DOMAIN suffix :
                         /\ IsRealUser(suffix[o])
                         /\ \E k \in DOMAIN users : users[k].index = keep + o - 1}
             first == IF digest THEN <<UserMsg("RecentUserContextDigest", 0)>> ELSE <<>>
             recent == [k \in DOMAIN users |-> UserMsg("RecentUserContext", users[k].n)]
             K == DOMAIN suffix \ again
             rest == Selected(suffix, K)
             s == <<Summary>>
             head == s \o first
             front == head \o recent
  <1>1. CompactedMessages(users, keep, suffix, digest) = front \o rest
    BY DEF CompactedMessages
  <1>2. PICK i \in DOMAIN ms : PromptAt(ms, i, t)
    BY DEF Prompted
  <1>3. IsList(ms) /\ Len(ms) \in Nat
    BY ListIs DEF Messages
  <1>4. /\ IsList(users)
        /\ \E c \in DOMAIN users : /\ users[c].index = i /\ users[c].n = t
                                   /\ \A k \in DOMAIN users : users[k].n = t => k = c
    BY <1>2, <1>3, RecentHasPrompt
  <1> HIDE DEF users
  <1>5. PICK c \in DOMAIN users : /\ users[c].index = i /\ users[c].n = t
                                  /\ \A k \in DOMAIN users : users[k].n = t => k = c
    BY <1>4
  <1>6. IsList(s) /\ NoOurs(s, t)
    <2>1. IsList(s) /\ DOMAIN s = {1} /\ s[1] = Summary
      BY Single
    <2>2. Summary.origin = "CompactSummary"
      BY MessageFields DEF Summary
    <2> HIDE DEF s
    <2> QED BY <2>1, <2>2 DEF NoOurs, Ours
  <1>7. IsList(first) /\ NoOurs(first, t)
    <2> DEFINE m == UserMsg("RecentUserContextDigest", 0)
               d == <<m>>
    <2>1. IsList(d) /\ DOMAIN d = {1} /\ d[1] = m /\ IsList(<<>>) /\ DOMAIN <<>> = {}
      BY Single
    <2>2. m.origin = "RecentUserContextDigest"
      BY MessageFields
    <2>3. first = IF digest THEN d ELSE <<>>
      OBVIOUS
    <2> HIDE DEF d, m, first
    <2> QED BY <2>1, <2>2, <2>3 DEF NoOurs, Ours
  <1>8. IsList(recent) /\ OneOurs(recent, t)
    <2>1. DOMAIN recent = DOMAIN users /\ recent = [k \in DOMAIN recent |-> recent[k]]
          /\ \A k \in DOMAIN recent : recent[k] = UserMsg("RecentUserContext", users[k].n)
      OBVIOUS
    <2> HIDE DEF recent
    <2>2. \A k \in DOMAIN recent : Ours(recent[k], t) <=> users[k].n = t
      BY <2>1, MessageFields DEF Ours
    <2> QED BY <1>4, <1>5, <2>1, <2>2, SameDomain DEF OneOurs
  <1>9. IsList(rest) /\ NoOurs(rest, t)
    <2>1. IsList(suffix) /\ \A o \in DOMAIN suffix :
             keep + o - 1 \in DOMAIN ms /\ suffix[o] = ms[keep + o - 1]
      <3>1. keep \in 1..(Len(ms) + 1)
        BY <1>3
      <3> QED BY <1>3, <3>1, TailIs
    <2>2. ASSUME NEW o \in DOMAIN suffix, Ours(suffix[o], t) PROVE o \in again
      <3>1. keep + o - 1 = i /\ IsRealUser(suffix[o])
        BY <1>2, <2>1, <2>2 DEF PromptAt
      <3> QED BY <1>5, <3>1
    <2>3. K \in SUBSET DOMAIN suffix /\ \A o \in K : ~Ours(suffix[o], t)
      BY <2>2
    <2> HIDE DEF K
    <2>4. IsList(rest) /\ \A k \in DOMAIN rest : \E j \in K : rest[k] = suffix[j]
      BY <2>1, <2>3, CountSelected
    <2> HIDE DEF rest
    <2> QED BY <2>3, <2>4 DEF NoOurs
  <1> HIDE DEF s, first, recent, rest
  <1>10. IsList(head) /\ NoOurs(head, t)
    BY <1>6, <1>7, OursJoined, Joined
  <1> HIDE DEF head
  <1>11. IsList(front) /\ OneOurs(front, t)
    BY <1>8, <1>10, OursJoined, Joined
  <1> HIDE DEF front
  <1>12. OneOurs(front \o rest, t)
    BY <1>9, <1>11, OursJoined
  <1> QED BY <1>1, <1>12 DEF users

-----------------------------------------------------------------------------
\* The invariant of the prompt, and the steps of each kind.

Dates == turn \in Nat /\ Ages(proj.messages, turn) /\ DatedList(pending, turn)

\* The prompt is in the messages of the turn, and in those that a compaction is
\* about, which stay as they were found; and after a compaction that split them
\* at the place that was chosen first, it is there once.
Stands ==
  /\ Messages(live)
  /\ pc \in Comps => Messages(comp.source)
  /\ pc = "before_compact" => comp.keep = 0 /\ comp.salvage = 0
  /\ pc \in {"fit", "summarise"} =>
        /\ Messages(comp.suffix) /\ comp.salvage \in Nat
        /\ comp.salvage = 0 =>
              /\ comp.keep \in 1..Len(comp.source)
              /\ comp.suffix = SubSeq(comp.source, comp.keep, Len(comp.source))
  /\ ghost.compacted = 0 /\ pc # "idle" => Prompted(live, turn)
  /\ ghost.compacted = 0 /\ pc \in Comps => Prompted(comp.source, turn)
  /\ ghost.compacted = 1 /\ pc \notin Comps \cup {"idle"} /\ comp.keep > 0 /\ comp.salvage = 0
        => OneOurs(live, turn)

PromptInv == Dates /\ Stands

\* The events of a step.
LEMMA DatesKept ==
    ASSUME SinkInv, HeardInv, Dates, turn' = turn, NEW now, NEW events,
           Urgent(now), Plain(events), DatedList(events, turn), Speech(now, events)
    PROVE  Dates'
  <1>1. Ages(proj'.messages, turn) /\ DatedList(pending', turn)
    BY SinkDates DEF HeardInv, Dates
  <1> QED BY <1>1 DEF Dates

\* Steps that leave the sink alone.
LEMMA DatesSame == ASSUME Dates, UNCHANGED <<turn, pending, proj>> PROVE Dates'
  BY DEF Dates

\* Steps that add messages.
LEMMA SaysPrompt ==
    ASSUME SinkInv, HeardInv, Work, PromptInv, Says, pc \in Comps \cup {"idle"} => pc' = "idle"
    PROVE  PromptInv'
  <1>1. PICK new, now, events : Adds(new) /\ Urgent(now) /\ Utters(now, events) /\ Steady
    BY DEF Says
  <1>2. PICK all : Tame(all) /\ Speech(now, all) /\ pc' \notin Comps
    BY <1>1 DEF Utters
  <1>3. turn' = turn /\ comp' = comp /\ ghost'.compacted = ghost.compacted
    BY <1>1 DEF Steady
  <1>4. Dates'
    <2>1. Plain(all) /\ ProperList(pending) /\ ProperList(all)
      BY <1>2 DEF Tame, Plain, SinkInv
    <2>2. DatedList(all, turn)
      BY <1>2, <2>1, DatesJoined DEF PromptInv, Dates
    <2> QED BY <1>1, <1>2, <1>3, <2>1, <2>2, DatesKept DEF PromptInv
  <1>5. Messages(new) /\ live' = live \o new /\ FromWithin(new) /\ IsList(new)
    BY <1>1 DEF Adds, FromWithin, Messages
  <1>6. Messages(live) /\ IsList(live)
    BY DEF PromptInv, Stands, Messages
  <1>7. /\ Messages(live')
        /\ Prompted(live, turn) => Prompted(live', turn)
        /\ OneOurs(live, turn) => OneOurs(live', turn)
    BY <1>5, <1>6, TellsJoined, OursJoined
  <1>8. Stands'
    <2>1. ghost'.compacted = 0 /\ pc' # "idle" => Prompted(live', turn)
      BY <1>3, <1>7 DEF PromptInv, Stands
    <2>2. ghost'.compacted = 1 /\ pc' \notin Comps \cup {"idle"} /\ comp.keep > 0 /\ comp.salvage = 0
             => OneOurs(live', turn)
      BY <1>3, <1>7 DEF PromptInv, Stands
    <2> QED BY <1>2, <1>3, <1>7, <2>1, <2>2 DEF Stands, Comps
  <1> QED BY <1>4, <1>8 DEF PromptInv

\* Where the loop stands when it adds messages.
LEMMA SpeakingNow ==
    Hooks \/ Requests \/ Reply \/ ToolCalls => pc \notin Comps \cup {"idle"}
  <1>1. Hooks => pc \notin Comps \cup {"idle"}
    BY DEF Hooks, HookGoesOn, HookCancels, HookBlocks, Comps
  <1>2. Requests => pc \notin Comps \cup {"idle"}
    BY DEF Requests, CheckProvider, Assemble, ProviderHookContinues, ProviderHookStops, Comps
  <1>3. Reply => pc \notin Comps \cup {"idle"}
    BY DEF Reply, ReplyText, ReplyTools, ReplyTooLong, ReplyFails, Comps
  <1>4. ToolCalls => pc \notin Comps \cup {"idle"}
    BY DEF ToolCalls, CallAllowed, CallBlocked, CallStops, ToolSends,
           ReturnsAs, DeltaReceived, AllReturned, ResultRecorded, ResultHookStops,
           ToolCycleCompleted, Comps
  <1> QED BY <1>1, <1>2, <1>3, <1>4

\* The assembly of a request.
LEMMA AssemblePrompt == ASSUME SinkInv, HeardInv, Work, PromptInv, Assemble PROVE PromptInv'
  <1>1. PICK stores, ms, now, fitted, idle, messages :
            /\ ms = Reapplied(live, exec.replaced)
            /\ now = IF stores THEN PersistedNow(ms, exec.replaced, exec.frozen) ELSE <<>>
            /\ fitted = Reapplied(ms, Range(now))
            /\ idle = ApplyIfIdle(exec.micro, fitted)
            /\ messages = ApplyPrune(idle)
            /\ Push([k \in DOMAIN now |-> ReferenceApplied(now[k])])
            /\ IF ShouldCompact(messages) /\ AutoCompact
               THEN /\ pc' = "before_compact"
                    /\ comp' = [NoCompaction EXCEPT !.source = messages]
                    /\ UNCHANGED live
               ELSE /\ pc' = "before_provider"
                    /\ live' = messages
                    /\ UNCHANGED comp
    BY DEF Assemble
  <1>2. UNCHANGED <<ghost, turn>> /\ pc = "assemble"
    BY DEF Assemble, hostVars
  <1> DEFINE events == [k \in DOMAIN now |-> ReferenceApplied(now[k])]
  <1>3. IsList(now)
    <2>1. IsList(ms)
      BY <1>1, ReappliedList DEF Work
    <2> QED BY <1>1, <2>1, PersistedList, Single
  <1>4. Plain(events)
    BY <1>3, PlainEvents
  <1>5. DatedList(events, turn)
    <2>1. \A k \in DOMAIN events : events[k].type = "ToolResultReferenceApplied"
      BY DEF ReferenceApplied
    <2> HIDE DEF events
    <2> QED BY <2>1 DEF DatedList, Dated
  <1>6. Push(events)
        /\ (\/ /\ pc' = "before_compact" /\ live' = live
               /\ comp'.source = messages /\ comp'.keep = 0 /\ comp'.salvage = 0
            \/ pc' = "before_provider" /\ live' = messages /\ comp' = comp)
    BY <1>1 DEF NoCompaction
  <1> HIDE DEF events
  <1>7. Dates'
    <2>1. Urgent(<<>>) /\ Speech(<<>>, events)
      BY <1>6, EmptyUrgent DEF Speech
    <2> QED BY <1>2, <1>4, <1>5, <2>1, DatesKept DEF PromptInv
  <1>8. /\ Messages(messages)
        /\ Prompted(live, turn) => Prompted(messages, turn)
        /\ OneOurs(live, turn) => OneOurs(messages, turn)
    <2>1. Messages(live)
      BY DEF PromptInv, Stands
    <2>2. Alike(live, ms) /\ Messages(ms)
      BY <1>1, <2>1, ReappliedAlike, AlikeTells
    <2>3. Alike(ms, fitted) /\ Messages(fitted)
      BY <1>1, <2>2, ReappliedAlike, AlikeTells
    <2>4. Alike(fitted, idle) /\ Messages(idle)
      BY <1>1, <2>3, IdleAlike, AlikeTells
    <2>5. Alike(idle, messages) /\ Messages(messages)
      BY <1>1, <2>4, PruneAlike, AlikeTells
    <2>6. /\ Prompted(live, turn) => Prompted(ms, turn)
          /\ OneOurs(live, turn) => OneOurs(ms, turn)
      BY <2>1, <2>2, OursAlike
    <2>7. /\ Prompted(ms, turn) => Prompted(fitted, turn)
          /\ OneOurs(ms, turn) => OneOurs(fitted, turn)
      BY <2>2, <2>3, OursAlike
    <2>8. /\ Prompted(fitted, turn) => Prompted(idle, turn)
          /\ OneOurs(fitted, turn) => OneOurs(idle, turn)
      BY <2>3, <2>4, OursAlike
    <2>9. /\ Prompted(idle, turn) => Prompted(messages, turn)
          /\ OneOurs(idle, turn) => OneOurs(messages, turn)
      BY <2>4, <2>5, OursAlike
    <2> QED BY <2>5, <2>6, <2>7, <2>8, <2>9
  <1>9. /\ Messages(live)
        /\ ghost.compacted = 0 => Prompted(live, turn)
        /\ ghost.compacted = 1 /\ comp.keep > 0 /\ comp.salvage = 0 => OneOurs(live, turn)
    BY <1>2 DEF PromptInv, Stands, Comps
  <1>10. ghost' = ghost /\ turn' = turn
    BY <1>2
  <1>11. CASE /\ pc' = "before_compact" /\ live' = live
              /\ comp'.source = messages /\ comp'.keep = 0 /\ comp'.salvage = 0
    <2>1. Stands'
      BY <1>8, <1>9, <1>10, <1>11 DEF Stands, Comps
    <2> QED BY <1>7, <2>1 DEF PromptInv
  <1>12. CASE pc' = "before_provider" /\ live' = messages /\ comp' = comp
    <2>1. Stands'
      BY <1>8, <1>9, <1>10, <1>12 DEF Stands, Comps
    <2> QED BY <1>7, <2>1 DEF PromptInv
  <1> QED BY <1>6, <1>11, <1>12

\* A compaction is put in place of the messages.
LEMMA CompactedPrompt ==
    ASSUME SinkInv, HeardInv, Shape, PromptInv, NEW messages, Messages(messages),
           NEW preserved \in Nat, NEW removed, Compacted(messages, preserved, removed),
           UNCHANGED <<turn, comp>>,
           ghost.compacted = 0 /\ comp.keep > 0 /\ comp.salvage = 0 => OneOurs(messages, turn)
    PROVE  PromptInv'
  <1> DEFINE events == <<CompactApplied(preserved, removed)>>
  <1>1. Continued(events) \/ (pc' = "before_provider" /\ Push(events))
    BY DEF Compacted
  <1>2. Plain(events)
    BY PlainEvents
  <1>3. DatedList(events, turn)
    <2>1. DOMAIN events = {1} /\ events[1] = CompactApplied(preserved, removed)
      BY Single
    <2> HIDE DEF events
    <2> QED BY <2>1 DEF DatedList, Dated, CompactApplied
  <1> HIDE DEF events
  <1>4. Speech(<<>>, events) /\ pc' \in {"context", "before_provider"}
    BY <1>1 DEF Speech, Continued
  <1>5. Dates'
    BY <1>2, <1>3, <1>4, EmptyUrgent, DatesKept DEF PromptInv
  <1>6. ghost'.compacted = ghost.compacted + 1 /\ ghost.compacted \in Nat
    BY DEF Compacted, Shape, GhostFields, HeardInv
  <1>7. PICK tail \in {<<>>, <<UserMsg("ReactivationPrompt", 0)>>} : live' = messages \o tail
    BY DEF Compacted
  <1>8. Messages(tail) /\ IsList(tail) /\ FromWithin(tail)
    <2> DEFINE m == UserMsg("ReactivationPrompt", 0)
               d == <<m>>
    <2>1. IsMessage(m) /\ m.origin = "ReactivationPrompt"
      BY MessageFields
    <2> HIDE DEF m
    <2>2. Messages(d) /\ DOMAIN d = {1} /\ d[1] = m /\ Messages(<<>>) /\ DOMAIN <<>> = {}
      BY <2>1, TellsSingle, Single
    <2>3. tail \in {<<>>, d}
      BY DEF m
    <2> HIDE DEF d
    <2> QED BY <2>1, <2>2, <2>3 DEF FromWithin, Messages, Internal
  <1>9. /\ Messages(live')
        /\ OneOurs(messages, turn) => OneOurs(live', turn)
    <2>1. IsList(messages)
      BY DEF Messages
    <2> QED BY <1>7, <1>8, <2>1, TellsJoined, OursJoined
  <1>10. ghost'.compacted # 0 /\ (ghost'.compacted = 1 => ghost.compacted = 0)
    BY <1>6
  <1>11. Stands'
    BY <1>4, <1>9, <1>10 DEF Stands, Comps
  <1> QED BY <1>5, <1>11 DEF PromptInv

\* The request goes on with the messages that were to be compacted.
LEMMA NotCompactedPrompt ==
    ASSUME SinkInv, HeardInv, Work, PromptInv, pc = "before_compact", NotCompacted,
           UNCHANGED <<exec, comp, turn, ghost>>
    PROVE  PromptInv'
  <1>1. CASE comp.reactive
    <2>1. Fail(<<>>) /\ UNCHANGED live
      BY <1>1 DEF NotCompacted
    <2>2. Says /\ pc' = "idle"
      BY <2>1, TameEvents, EndsSay DEF Fail, FinalizeTurn, FinalizeAfter
    <2> QED BY <2>2, SaysPrompt
  <1>2. CASE ~comp.reactive
    <2>1. pc' = "before_provider" /\ live' = comp.source /\ UNCHANGED <<pending, sinkVars>>
      BY <1>2 DEF NotCompacted
    <2>2. Dates'
      BY <2>1, DatesSame DEF PromptInv, sinkVars
    <2>3. /\ Messages(comp.source) /\ comp.keep = 0
          /\ ghost.compacted = 0 => Prompted(comp.source, turn)
      BY DEF PromptInv, Stands, Comps
    <2>4. ~(comp.keep > 0)
      BY <2>3
    <2>5. Stands'
      BY <2>1, <2>3, <2>4 DEF Stands, Comps
    <2> QED BY <2>2, <2>5 DEF PromptInv
  <1> QED BY <1>1, <1>2

\* Fields of a compaction that is under way.
LEMMA CompFields ==
    ASSUME NEW c, CompSound(c), NEW u, NEW v, NEW w
    PROVE  /\ LET z == [c EXCEPT !.prefix = v] IN
              /\ z.source = c.source /\ z.suffix = c.suffix
              /\ z.keep = c.keep /\ z.salvage = c.salvage
           /\ LET z == [c EXCEPT !.contract = v] IN
              /\ z.source = c.source /\ z.suffix = c.suffix
              /\ z.keep = c.keep /\ z.salvage = c.salvage
           /\ LET z == [c EXCEPT !.prefix = u, !.suffix = v, !.keep = w] IN
              z.source = c.source /\ z.suffix = v /\ z.keep = w /\ z.salvage = c.salvage
           /\ LET z == [c EXCEPT !.salvage = u, !.prefix = v, !.keep = w] IN
              z.source = c.source /\ z.suffix = c.suffix /\ z.keep = w /\ z.salvage = u
  <1>1. DOMAIN c = {"source", "prefix", "suffix", "keep", "contract", "salvage", "reactive"}
    BY DEF CompSound
  <1> QED BY <1>1

\* The steps of a compaction.
LEMMA CompactionPrompt ==
    ASSUME SinkInv, HeardInv, Work, Shape, PromptInv, Compaction PROVE PromptInv'
  <1>0. /\ UNCHANGED <<exec, turn>> /\ pc \in Comps /\ Tame(<<>>) /\ Silent(<<>>)
        /\ CompSound(comp) /\ Messages(comp.source) /\ IsList(comp.source)
    <2>1. UNCHANGED <<exec, turn>> /\ pc \in Comps
      BY DEF Compaction, BeforeCompact, CompactHookCancels, CompactHookSummarises,
             CompactHookFails, Trim, Summarised, SummaryViolatesContract, SummaryTooLong,
             SummaryFails, Comps, hostVars
    <2> QED BY <2>1, TameEvents DEF Work, PromptInv, Stands, Messages
  <1>1. ASSUME Fail(<<>>), UNCHANGED <<live, comp, ghost>> PROVE PromptInv'
    <2>1. Says
      BY <1>0, <1>1, EndsSay
    <2>2. pc' = "idle"
      BY <1>1 DEF Fail, FinalizeTurn, FinalizeAfter
    <2> QED BY <2>1, <2>2, SaysPrompt
  <1>2. ASSUME UNCHANGED <<live, pending, sinkVars, ghost>>, pc' \in {"fit", "summarise"},
               comp'.source = comp.source, Messages(comp'.suffix), comp'.salvage \in Nat,
               comp'.salvage = 0 =>
                  /\ comp'.keep \in 1..Len(comp.source)
                  /\ comp'.suffix = SubSeq(comp.source, comp'.keep, Len(comp.source))
        PROVE  PromptInv'
    <2>1. Dates'
      BY <1>0, <1>2, DatesSame DEF PromptInv, sinkVars
    <2>2. /\ Messages(live)
          /\ ghost.compacted = 0 => Prompted(live, turn) /\ Prompted(comp.source, turn)
      BY <1>0 DEF PromptInv, Stands, Comps
    <2>3. Stands'
      BY <1>0, <1>2, <2>2 DEF Stands, Comps
    <2> QED BY <2>1, <2>3 DEF PromptInv
  <1>3. pc \in {"fit", "summarise"} =>
           /\ Messages(comp.suffix) /\ comp.salvage \in Nat
           /\ comp.salvage = 0 =>
                 /\ comp.keep \in 1..Len(comp.source)
                 /\ comp.suffix = SubSeq(comp.source, comp.keep, Len(comp.source))
    BY DEF PromptInv, Stands
  <1>4. pc = "before_compact" => comp.keep = 0 /\ comp.salvage = 0
    BY DEF PromptInv, Stands
  <1>5. CASE BeforeCompact
    <2> DEFINE keep == KeepStart(comp.source)
               u == SubSeq(comp.source, 1, keep - 1)
               v == SubSeq(comp.source, keep, Len(comp.source))
    <2>1. pc = "before_compact" /\ UNCHANGED ghost
          /\ (\/ NotCompacted /\ UNCHANGED comp
              \/ /\ pc' = "fit" /\ UNCHANGED <<live, pending, sinkVars>> /\ keep # 0
                 /\ comp' = [comp EXCEPT !.prefix = u, !.suffix = v, !.keep = keep])
      BY <1>5 DEF BeforeCompact
    <2>2. CASE NotCompacted /\ UNCHANGED comp
      BY <1>0, <2>1, <2>2, NotCompactedPrompt
    <2>3. CASE /\ pc' = "fit" /\ UNCHANGED <<live, pending, sinkVars>> /\ keep # 0
               /\ comp' = [comp EXCEPT !.prefix = u, !.suffix = v, !.keep = keep]
      <3>1. keep \in 1..Len(comp.source) /\ Len(comp.source) \in Nat
        BY <1>0, <2>3, KeepStartIn, ListIs
      <3>2. keep \in 1..(Len(comp.source) + 1)
        BY <3>1
      <3>3. Messages(v)
        BY <1>0, <3>2, TailMessages
      <3>4. v = SubSeq(comp.source, keep, Len(comp.source))
        OBVIOUS
      <3> HIDE DEF keep, u, v
      <3>5. /\ comp'.source = comp.source /\ comp'.suffix = v /\ comp'.keep = keep
            /\ comp'.salvage = 0
        BY <1>0, <1>4, <2>1, <2>3, CompFields
      <3> QED BY <1>2, <2>1, <2>3, <3>1, <3>3, <3>4, <3>5
    <2> QED BY <2>1, <2>2, <2>3
  <1>6. CASE CompactHookCancels
    BY <1>0, <1>6, NotCompactedPrompt DEF CompactHookCancels
  <1>7. CASE CompactHookSummarises
    <2>1. /\ Compacted(<<Summary>>, 0, Len(comp.source)) /\ pc = "before_compact"
          /\ UNCHANGED <<turn, comp>>
      BY <1>7 DEF CompactHookSummarises, hostVars
    <2>2. Messages(<<Summary>>)
      BY MessageFields, TellsSingle DEF Summary
    <2>3. ~(comp.keep > 0)
      BY <1>4, <2>1
    <2> QED BY <2>1, <2>2, <2>3, CompactedPrompt
  <1>8. CASE CompactHookFails \/ SummaryFails
    BY <1>1, <1>8 DEF CompactHookFails, SummaryFails
  <1>9. CASE Trim
    <2>1. pc = "fit" /\ UNCHANGED <<live, ghost>>
          /\ (\/ Fail(<<>>) /\ UNCHANGED comp
              \/ pc' = "summarise" /\ UNCHANGED <<comp, pending, sinkVars>>
              \/ /\ comp' = [comp EXCEPT !.prefix = DropOldestUnit(comp.prefix)]
                 /\ UNCHANGED <<pc, pending, sinkVars>>)
      BY <1>9 DEF Trim
    <2>2. CASE Fail(<<>>) /\ UNCHANGED comp
      BY <1>1, <2>1, <2>2
    <2>3. CASE pc' = "summarise" /\ UNCHANGED <<comp, pending, sinkVars>>
      BY <1>2, <1>3, <2>1, <2>3
    <2>4. CASE /\ comp' = [comp EXCEPT !.prefix = DropOldestUnit(comp.prefix)]
               /\ UNCHANGED <<pc, pending, sinkVars>>
      <3>1. /\ comp'.source = comp.source /\ comp'.suffix = comp.suffix
            /\ comp'.keep = comp.keep /\ comp'.salvage = comp.salvage
        BY <1>0, <2>4, CompFields
      <3> QED BY <1>2, <1>3, <2>1, <2>4, <3>1
    <2> QED BY <2>1, <2>2, <2>3, <2>4
  <1>10. CASE Summarised
    <2>1. PICK digest \in BOOLEAN :
             Compacted(CompactedMessages(RecentUsers(comp.source), comp.keep, comp.suffix, digest),
                       PreservedTurns, comp.keep - 1)
      BY <1>10 DEF Summarised
    <2>2. pc = "summarise" /\ UNCHANGED <<turn, comp>>
      BY <1>10 DEF Summarised, hostVars
    <2> DEFINE messages == CompactedMessages(RecentUsers(comp.source), comp.keep, comp.suffix, digest)
    <2>3. Messages(messages)
      BY <1>0, <1>3, <2>2, RecentUsersList, CompactedMessagesAre
    <2>4. ghost.compacted = 0 /\ comp.salvage = 0 => OneOurs(messages, turn)
      <3> SUFFICES ASSUME ghost.compacted = 0, comp.salvage = 0 PROVE OneOurs(messages, turn)
        OBVIOUS
      <3>1. Prompted(comp.source, turn)
        BY <1>0 DEF PromptInv, Stands
      <3> HIDE DEF messages
      <3>2. comp.keep \in 1..Len(comp.source)
            /\ comp.suffix = SubSeq(comp.source, comp.keep, Len(comp.source))
        BY <1>3, <2>2
      <3> QED BY <1>0, <3>1, <3>2, CompactedHasPrompt DEF messages
    <2> HIDE DEF messages
    <2>5. Compacted(messages, PreservedTurns, comp.keep - 1)
      BY <2>1 DEF messages
    <2> QED BY <2>2, <2>3, <2>4, <2>5, CompactedPrompt, PreservedIs
  <1>11. CASE SummaryViolatesContract
    <2>1. /\ pc = "summarise" /\ pc' = "fit" /\ UNCHANGED <<live, pending, sinkVars, ghost>>
          /\ comp' = [comp EXCEPT !.contract = comp.contract + 1]
      BY <1>11 DEF SummaryViolatesContract
    <2>2. /\ comp'.source = comp.source /\ comp'.suffix = comp.suffix
          /\ comp'.keep = comp.keep /\ comp'.salvage = comp.salvage
      BY <1>0, <2>1, CompFields
    <2> QED BY <1>2, <1>3, <2>1, <2>2
  <1>12. CASE SummaryTooLong
    <2> DEFINE u == comp.salvage + 1
               v == DropOldestUnit(comp.prefix)
               w == Len(DropOldestUnit(comp.prefix)) + 1
    <2>1. pc = "summarise" /\ UNCHANGED <<live, ghost>>
          /\ (\/ /\ pc' = "fit" /\ UNCHANGED <<pending, sinkVars>>
                 /\ comp' = [comp EXCEPT !.salvage = u, !.prefix = v, !.keep = w]
              \/ Fail(<<>>) /\ UNCHANGED comp)
      BY <1>12 DEF SummaryTooLong
    <2>2. CASE /\ pc' = "fit" /\ UNCHANGED <<pending, sinkVars>>
               /\ comp' = [comp EXCEPT !.salvage = u, !.prefix = v, !.keep = w]
      <3>1. u \in Nat /\ u # 0
        BY <1>3, <2>1
      <3> HIDE DEF u, v, w
      <3>2. comp'.source = comp.source /\ comp'.suffix = comp.suffix /\ comp'.salvage = u
        BY <1>0, <2>2, CompFields
      <3> QED BY <1>2, <1>3, <2>1, <2>2, <3>1, <3>2
    <2>3. CASE Fail(<<>>) /\ UNCHANGED comp
      BY <1>1, <2>1, <2>3
    <2> QED BY <2>1, <2>2, <2>3
  <1> QED BY <1>5, <1>6, <1>7, <1>8, <1>9, <1>10, <1>11, <1>12 DEF Compaction

\* The request was too long, and what was sent is to be compacted.
LEMMA TooLongPrompt ==
    ASSUME SinkInv, HeardInv, Work, PromptInv, ReplyTooLong, ~Fail(<<>>) PROVE PromptInv'
  <1>1. /\ pc = "generate" /\ pc' = "before_compact"
        /\ UNCHANGED <<live, turn, ghost, pending, sinkVars>>
        /\ comp' = [NoCompaction EXCEPT !.source = live, !.reactive = TRUE]
    BY DEF ReplyTooLong, hostVars
  <1>2. comp'.source = live /\ comp'.keep = 0 /\ comp'.salvage = 0
    BY <1>1 DEF NoCompaction
  <1>3. Dates'
    BY <1>1, DatesSame DEF PromptInv, sinkVars
  <1>4. Messages(live) /\ (ghost.compacted = 0 => Prompted(live, turn))
    BY <1>1 DEF PromptInv, Stands
  <1>5. Stands'
    BY <1>1, <1>2, <1>4 DEF Stands, Comps
  <1> QED BY <1>3, <1>5 DEF PromptInv

\* A turn begins with its prompt at the end of what the projector rebuilds.
LEMMA NewTurnPrompt ==
    ASSUME SinkInv, HeardInv, Shape, PromptInv, NewTurn PROVE PromptInv'
  <1> DEFINE e == UserEvent("User", turn + 1)
             m == UserMsg("User", turn + 1)
             f == FlushPending(proj)
             t == turn + 1
             n == Len(f.messages) + 1
  <1>1. /\ proj' = ApplyEvent(proj, e) /\ live' = Append(f.messages, m)
        /\ pending' = <<>> /\ pc' = "turn_start" /\ turn' = t
        /\ ghost' = [ghost EXCEPT !["compacted"] = 0]
    BY DEF NewTurn, Snapshot
  <1>2. ghost'.compacted = 0
    BY <1>1 DEF Shape, GhostFields
  <1>3. /\ e.type = "UserMessage" /\ e.origin = "User" /\ e.n = t /\ Proper(e)
        /\ m.kind = "user" /\ m.origin = "User" /\ m.n = t /\ IsMessage(m)
    BY MessageFields DEF UserEvent, Proper
  <1>4. /\ ProjSound(proj) /\ Messages(proj.messages) /\ IsList(proj.messages)
        /\ turn \in Nat /\ Ages(proj.messages, turn)
    BY DEF SinkInv, HeardInv, PromptInv, Dates, Messages
  <1>5. Messages(f.messages) /\ IsList(f.messages)
    BY <1>4, FlushTells DEF Messages
  <1>6. Ages(f.messages, turn)
    <2>1. Proper(TurnDone("Completed")) /\ Dated(TurnDone("Completed"), turn)
      BY DEF TurnDone, Proper, Dated
    <2> QED BY <1>4, <2>1, ApplyDates
  <1> HIDE DEF e, m, f
  <1>7. t \in Nat /\ Ages(proj.messages, t) /\ t \in 0..t /\ t \notin 0..turn
    BY <1>4, AgesKept
  <1> HIDE DEF t
  <1>8. Dates'
    <2>1. Dated(e, t)
      BY <1>3, <1>7 DEF Dated
    <2>2. Ages(ApplyEvent(proj, e).messages, t)
      BY <1>3, <1>4, <1>7, <2>1, ApplyDates
    <2>3. DatedList(<<>>, t)
      BY Single DEF DatedList
    <2> QED BY <1>1, <1>7, <2>2, <2>3 DEF Dates
  <1>9. /\ DOMAIN live' = DOMAIN f.messages \cup {n} /\ n \notin DOMAIN f.messages
        /\ \A i \in DOMAIN f.messages : i \in Nat /\ i <= n /\ live'[i] = f.messages[i]
        /\ live'[n] = m /\ n \in Nat
    <2>1. /\ Len(f.messages) \in Nat /\ n \notin DOMAIN f.messages
          /\ \A i \in DOMAIN f.messages : i \in Nat /\ i < n
          /\ DOMAIN Append(f.messages, m) = DOMAIN f.messages \cup {n}
          /\ \A i \in DOMAIN f.messages : Append(f.messages, m)[i] = f.messages[i]
          /\ Append(f.messages, m)[n] = m
      BY <1>5, OneMore
    <2> QED BY <1>1, <2>1
  <1> HIDE DEF n
  <1>10. Prompted(live', t)
    <2>1. \A i \in DOMAIN f.messages : ~Ours(f.messages[i], t)
      BY <1>6, <1>7 DEF Ages, Ours
    <2>2. \A i \in DOMAIN live' : Ours(live'[i], t) => i = n
      BY <1>9, <2>1
    <2>3. \A i \in RealUsers(live') : i <= n
      BY <1>9 DEF RealUsers
    <2>4. IsRealUser(live'[n]) /\ live'[n].n = t /\ n \in DOMAIN live'
      BY <1>3, <1>9 DEF IsRealUser
    <2> QED BY <2>2, <2>3, <2>4 DEF Prompted, PromptAt
  <1>11. Messages(live')
    BY <1>1, <1>3, <1>5, TellsOneMore
  <1>12. Stands'
    BY <1>1, <1>2, <1>10, <1>11 DEF Stands, Comps
  <1> QED BY <1>8, <1>12 DEF PromptInv

\* The session begins without messages.
LEMMA PromptInit == ASSUME Init PROVE PromptInv
  <1>1. /\ pc = "idle" /\ turn = 0 /\ pending = <<>> /\ live = <<>> /\ proj = EmptyProjector
        /\ ghost = [calls |-> 0, prompts |-> 0, loose |-> {}, inexact |-> FALSE, compacted |-> 0]
    BY DEF Init
  <1>2. proj.messages = <<>> /\ ghost.compacted = 0
    BY <1>1 DEF EmptyProjector
  <1>3. Messages(<<>>) /\ DOMAIN <<>> = {}
    BY Single, TellsSingle
  <1>4. Dates
    BY <1>1, <1>2, <1>3 DEF Dates, Ages, DatedList
  <1>5. Stands
    BY <1>1, <1>2, <1>3 DEF Stands, Comps
  <1> QED BY <1>4, <1>5 DEF PromptInv

\* Steps that change nothing of it.
LEMMA PromptSame ==
    ASSUME PromptInv, UNCHANGED <<pc, turn, live, pending, proj, comp, ghost>> PROVE PromptInv'
  BY DEF PromptInv, Dates, Stands

\* Every step keeps it.
LEMMA PromptKeeps == ASSUME LoopInv, HeardInv, PromptInv, Next PROVE PromptInv'
  <1>0. Shape /\ SinkInv /\ Work /\ Fields
    BY DEF LoopInv, HeardInv, Fields
  <1>1. CASE NewTurn
    BY <1>0, <1>1, NewTurnPrompt
  <1>2. CASE Hooks
    BY <1>0, <1>2, HooksSay, SpeakingNow, SaysPrompt
  <1>3. CASE Requests
    BY <1>0, <1>3, RequestsSay, SpeakingNow, SaysPrompt, AssemblePrompt
  <1>4. CASE Compaction
    BY <1>0, <1>4, CompactionPrompt
  <1>5. CASE Reply
    BY <1>0, <1>5, RepliesSay, SpeakingNow, SaysPrompt, TooLongPrompt
  <1>6. CASE ToolCalls
    BY <1>0, <1>6, ToolCallsSay, SpeakingNow, SaysPrompt
  <1>7. CASE Rest
    BY <1>7, PromptSame DEF Rest, vars
  <1> QED
    BY <1>1, <1>2, <1>3, <1>4, <1>5, <1>6, <1>7, GroupsCover DEF Next

\* In a request the prompt is counted once.
LEMMA PromptGives == ASSUME HeardInv, PromptInv PROVE PromptKept
  <1> SUFFICES ASSUME pc = "generate", ghost.compacted <= 1,
                      ghost.compacted = 1 => comp.keep > 0 /\ comp.salvage = 0
               PROVE  Cardinality({i \in DOMAIN live :
                         /\ live[i].kind = "user" /\ live[i].n = turn
                         /\ live[i].origin \in {"User", "RecentUserContext"}}) = 1
    BY DEF PromptKept
  <1> DEFINE S == {i \in DOMAIN live : /\ live[i].kind = "user" /\ live[i].n = turn
                                       /\ live[i].origin \in {"User", "RecentUserContext"}}
  <1>1. ghost.compacted = 0 \/ ghost.compacted = 1
    BY DEF HeardInv
  <1>2. CASE ghost.compacted = 0
    <2>1. Prompted(live, turn)
      BY <1>2 DEF PromptInv, Stands
    <2>2. PICK i \in DOMAIN live : PromptAt(live, i, turn)
      BY <2>1 DEF Prompted
    <2>3. S = {i}
      BY <2>2 DEF PromptAt, Ours, IsRealUser
    <2> QED BY <2>3, FS_Singleton
  <1>3. CASE ghost.compacted = 1
    <2>1. OneOurs(live, turn)
      BY <1>3 DEF PromptInv, Stands, Comps
    <2>2. PICK i \in DOMAIN live : Ours(live[i], turn) /\ \A j \in DOMAIN live : Ours(live[j], turn) => j = i
      BY <2>1 DEF OneOurs
    <2>3. S = {i}
      BY <2>2 DEF Ours
    <2> QED BY <2>3, FS_Singleton
  <1> QED BY <1>1, <1>2, <1>3

\* Every request of a turn has the prompt of the turn exactly once, in its place
\* or as recent user context: before the first compaction by the model and after
\* it, unless a retry of the compaction moved keep_start; whatever the settings of
\* the window keep, however often the request was assembled, and whatever hooks,
\* replies and results were added (loop.rs, collect_recent_user_context_messages
\* in protocol.rs and compacted_messages in compaction.rs of the context window).
THEOREM PromptKeptHolds == Spec => []PromptKept
  <1>1. Init => HeardInv /\ PromptInv
    BY HeardInit, PromptInit
  <1>2. ASSUME LoopInv, HeardInv, PromptInv, [Next]_vars PROVE HeardInv' /\ PromptInv'
    <2>1. CASE UNCHANGED vars
      BY <1>2, <2>1, HeardSame, PromptSame DEF vars
    <2> QED BY <1>2, <2>1, HeardKeeps, PromptKeeps
  <1>3. HeardInv /\ PromptInv => PromptKept
    BY PromptGives
  <1> QED BY LoopIsSound, <1>1, <1>2, <1>3, PTL DEF Spec

-----------------------------------------------------------------------------
\* What has been moved to files stays moved.

\* A result that stays moved is never seen in full again: it is in a file, or a
\* pass of the context window has put a short text in its place.
Short == {"persisted", "cleared", "micro"}
Stored == {"persisted"}

\* What holds of the results in a list of messages: their calls have been made
\* and are not of those still to be answered, no call has two, and those moved
\* to files are in one of the forms.
ResultFits(m, n, moved, forms, open) ==
  /\ m.call.id \in 1..n /\ m.form \in DOMAIN Weight
  /\ m.call \notin open
  /\ m.call \in moved => m.form \in forms
Kept(ms, n, moved, forms, open) ==
  /\ Messages(ms)
  /\ \A i \in DOMAIN ms : IsTool(ms[i]) => ResultFits(ms[i], n, moved, forms, open)
  /\ \A i, j \in DOMAIN ms : IsTool(ms[i]) /\ IsTool(ms[j]) /\ ms[i].call = ms[j].call => i = j

\* The calls under way that have no result among the messages yet.
Open ==
  IF pc \in Working
  THEN {tools.calls[i] : i \in {j \in DOMAIN tools.calls : pc = "results" => j >= tools.next}}
  ELSE {}

\* What the tools have returned so far.
Returned(t, p) ==
  /\ IsList(t.results)
  /\ p = "call" => t.running = t.allowed /\ t.results = <<>>
  /\ \A call \in t.allowed : call \in t.running \/ \E i \in DOMAIN t.results : t.results[i].call = call
  /\ \A i \in DOMAIN t.results :
        /\ t.results[i].call \in t.allowed \ t.running
        /\ t.results[i].form \in Forms \cup {"error"}
        /\ \A j \in DOMAIN t.results : t.results[j].call = t.results[i].call => j = i
  /\ p = "results" => /\ t.running = {}
                      /\ \A i \in DOMAIN t.results : t.results[i].form \in Forms

\* What the turn asks of the list that the next request is made of, and of the
\* pieces of a compaction.
InUse(ms) == Kept(ms, ghost.calls, exec.replaced, Short, Open)

\* What the turn takes for moved is what the log says or pending references will
\* say; the projector has it in files, and no list in use has it in full.
MovedInv ==
  /\ exec.replaced = replaced \cup References(pending)
  /\ \A call \in exec.replaced : call.id \in 1..ghost.calls
  /\ Open \cap exec.replaced = {}
  /\ Kept(proj.messages, ghost.calls, replaced, Stored, Open)
  /\ pc \notin Comps \cup {"idle"} => InUse(live)
  /\ pc \in Comps => InUse(comp.source)
  /\ pc \in {"fit", "summarise"} => InUse(comp.suffix)
  /\ pc \in Working => Returned(tools, pc)

\* Results taken from a list that is kept, each once.
LEMMA KeptDrawn ==
    ASSUME NEW a, NEW b, NEW n, NEW moved, NEW forms, NEW open, Kept(a, n, moved, forms, open),
           Messages(b), NEW f,
           \A i \in DOMAIN b : IsTool(b[i]) => f[i] \in DOMAIN a /\ b[i] = a[f[i]],
           \A i, j \in DOMAIN b : IsTool(b[i]) /\ IsTool(b[j]) /\ f[i] = f[j] => i = j
    PROVE  Kept(b, n, moved, forms, open)
  <1>1. \A i \in DOMAIN b : IsTool(b[i]) => ResultFits(b[i], n, moved, forms, open)
    BY DEF Kept
  <1>2. ASSUME NEW i \in DOMAIN b, NEW j \in DOMAIN b, IsTool(b[i]), IsTool(b[j]), b[i].call = b[j].call
        PROVE  i = j
    <2>1. f[i] \in DOMAIN a /\ f[j] \in DOMAIN a /\ IsTool(a[f[i]]) /\ IsTool(a[f[j]])
          /\ a[f[i]].call = a[f[j]].call
      BY <1>2
    <2>2. f[i] = f[j]
      BY <2>1 DEF Kept
    <2> QED BY <1>2, <2>2
  <1> QED BY <1>1, <1>2 DEF Kept

\* More calls, fewer of which one asks that they are moved, more forms.
LEMMA KeptWeaker ==
    ASSUME NEW ms, NEW n \in Nat, NEW moved, NEW forms, NEW open, Kept(ms, n, moved, forms, open),
           NEW m \in Nat, n <= m, NEW less \in SUBSET moved, NEW more, forms \subseteq more,
           NEW now, \A call \in now : call \in open \/ call.id \notin 1..n
    PROVE  Kept(ms, m, less, more, now)
  <1>1. ASSUME NEW i \in DOMAIN ms, IsTool(ms[i]) PROVE ResultFits(ms[i], m, less, more, now)
    <2>1. ResultFits(ms[i], n, moved, forms, open)
      BY <1>1 DEF Kept
    <2>2. ms[i].call.id \in 1..m
      BY <2>1 DEF ResultFits
    <2>3. ms[i].call \notin now
      BY <2>1 DEF ResultFits
    <2> QED BY <2>1, <2>2, <2>3 DEF ResultFits
  <1> QED BY <1>1 DEF Kept

\* The end of a list.
LEMMA KeptTail ==
    ASSUME NEW ms, NEW n, NEW moved, NEW forms, NEW open, Kept(ms, n, moved, forms, open),
           NEW i \in 1..(Len(ms) + 1)
    PROVE  Kept(SubSeq(ms, i, Len(ms)), n, moved, forms, open)
  <1> DEFINE b == SubSeq(ms, i, Len(ms))
             f == [k \in DOMAIN b |-> i + k - 1]
  <1>1. Messages(ms) /\ IsList(ms)
    BY DEF Kept, Messages
  <1>2. Messages(b)
    BY <1>1, TailMessages
  <1>3. IsList(b) /\ \A k \in DOMAIN b : i + k - 1 \in DOMAIN ms /\ b[k] = ms[i + k - 1]
    BY <1>1, TailIs
  <1> HIDE DEF b
  <1>4. DOMAIN b = 1..Len(b) /\ Len(b) \in Nat /\ Len(ms) \in Nat
    BY <1>1, <1>3, ListIs
  <1>5. \A k \in DOMAIN b : f[k] \in DOMAIN ms /\ b[k] = ms[f[k]]
    BY <1>3
  <1>6. \A j, k \in DOMAIN b : f[j] = f[k] => j = k
    BY <1>4
  <1> HIDE DEF f
  <1>7. Kept(b, n, moved, forms, open)
    BY <1>2, <1>5, <1>6, KeptDrawn
  <1> QED BY <1>7 DEF b

\* Messages before or after it that are no results.
LEMMA KeptJoined ==
    ASSUME NEW a, NEW b, NEW n, NEW moved, NEW forms, NEW open, Kept(a, n, moved, forms, open),
           Messages(b), \A i \in DOMAIN b : ~IsTool(b[i])
    PROVE  Kept(a \o b, n, moved, forms, open) /\ Kept(b \o a, n, moved, forms, open)
  <1>1. Messages(a) /\ IsList(a) /\ IsList(b)
    BY DEF Kept, Messages
  <1>2. Messages(a \o b) /\ Messages(b \o a)
    BY <1>1, TellsJoined
  <1>3. Kept(a \o b, n, moved, forms, open)
    <2> DEFINE c == a \o b
               f == [i \in DOMAIN c |-> i]
    <2>1. \A i \in DOMAIN c : IsTool(c[i]) => i \in DOMAIN a /\ c[i] = a[i]
      BY <1>1, Elements
    <2> HIDE DEF c
    <2>2. \A i \in DOMAIN c : IsTool(c[i]) => f[i] \in DOMAIN a /\ c[i] = a[f[i]]
      BY <2>1
    <2>3. \A i, j \in DOMAIN c : IsTool(c[i]) /\ IsTool(c[j]) /\ f[i] = f[j] => i = j
      OBVIOUS
    <2>4. Messages(c)
      BY <1>2 DEF c
    <2> HIDE DEF f
    <2>5. Kept(c, n, moved, forms, open)
      BY <2>2, <2>3, <2>4, KeptDrawn
    <2> QED BY <2>5 DEF c
  <1>4. Kept(b \o a, n, moved, forms, open)
    <2> DEFINE c == b \o a
               f == [i \in DOMAIN c |-> i - Len(b)]
    <2>1. \A i \in DOMAIN c : IsTool(c[i]) =>
             i \in Nat /\ \E j \in DOMAIN a : i = Len(b) + j /\ c[i] = a[j]
      <3>1. /\ \A k \in DOMAIN c : \/ k \in DOMAIN b /\ c[k] = b[k]
                                   \/ k \notin DOMAIN b /\ \E j \in DOMAIN a : k = Len(b) + j /\ c[k] = a[j]
            /\ \A j \in DOMAIN a : j \in Nat
            /\ Len(b) \in Nat
        BY <1>1, Elements
      <3> HIDE DEF c
      <3> QED BY <3>1
    <2>2. Len(b) \in Nat /\ \A j \in DOMAIN a : j \in Nat
      BY <1>1, Elements
    <2> HIDE DEF c
    <2>3. \A i \in DOMAIN c : IsTool(c[i]) => f[i] \in DOMAIN a /\ c[i] = a[f[i]]
      <3> SUFFICES ASSUME NEW i \in DOMAIN c, IsTool(c[i]) PROVE f[i] \in DOMAIN a /\ c[i] = a[f[i]]
        OBVIOUS
      <3>1. PICK j \in DOMAIN a : i = Len(b) + j /\ c[i] = a[j]
        BY <2>1
      <3>2. f[i] = j
        BY <2>2, <3>1
      <3> QED BY <3>1, <3>2
    <2>4. \A i, j \in DOMAIN c : IsTool(c[i]) /\ IsTool(c[j]) /\ f[i] = f[j] => i = j
      BY <2>1, <2>2
    <2>5. Messages(c)
      BY <1>2 DEF c
    <2> HIDE DEF f
    <2>6. Kept(c, n, moved, forms, open)
      BY <2>3, <2>4, <2>5, KeptDrawn
    <2> QED BY <2>6 DEF c
  <1> QED BY <1>3, <1>4

\* A selection of its messages.
LEMMA KeptSelected ==
    ASSUME NEW ms, NEW n, NEW moved, NEW forms, NEW open, Kept(ms, n, moved, forms, open),
           NEW K \in SUBSET DOMAIN ms
    PROVE  Kept(Selected(ms, K), n, moved, forms, open)
  <1> DEFINE b == Selected(ms, K)
             f == [i \in 1..Cardinality(K) |-> CHOOSE k \in K : Rank(K, k) = i]
  <1>1. Messages(ms) /\ IsList(ms)
    BY DEF Kept, Messages
  <1>2. DOMAIN ms = 1..Len(ms) /\ Len(ms) \in Nat
    BY <1>1, ListIs
  <1>3. /\ Cardinality(K) \in Nat
        /\ \A i \in 1..Cardinality(K) : \E k \in K : Rank(K, k) = i
    BY <1>2, Ranks
  <1>4. DOMAIN b = 1..Cardinality(K) /\ \A i \in DOMAIN b : b[i] = ms[f[i]]
    BY DEF Selected
  <1>5. \A i \in 1..Cardinality(K) : f[i] \in K /\ Rank(K, f[i]) = i
    BY <1>3
  <1>6. IsList(b)
    BY <1>1, CountSelected
  <1> HIDE DEF b, f
  <1>7. Messages(b)
    BY <1>1, <1>4, <1>5, <1>6 DEF Messages
  <1>8. \A i, j \in DOMAIN b : f[i] = f[j] => i = j
    BY <1>4, <1>5
  <1>9. \A i \in DOMAIN b : f[i] \in DOMAIN ms /\ b[i] = ms[f[i]]
    BY <1>4, <1>5
  <1>10. Kept(b, n, moved, forms, open)
    BY <1>7, <1>8, <1>9, KeptDrawn
  <1> QED BY <1>10 DEF b

\* The result of a call that had none.
LEMMA KeptResult ==
    ASSUME NEW ms, NEW n, NEW moved, NEW forms, NEW open, Kept(ms, n, moved, forms, open),
           NEW call \in open, call.id \in 1..n, call \notin moved, NEW form \in DOMAIN Weight
    PROVE  Kept(Append(ms, ToolMsg(call, form)), n, moved, forms, open \ {call})
  <1> DEFINE m == ToolMsg(call, form)
             b == Append(ms, m)
  <1>1. Messages(ms) /\ IsList(ms)
    BY DEF Kept, Messages
  <1>2. IsMessage(m) /\ m.call = call /\ m.form = form
    BY MessageFields
  <1> HIDE DEF m
  <1>3. /\ Messages(b)
        /\ DOMAIN b = DOMAIN ms \cup {Len(ms) + 1} /\ Len(ms) + 1 \notin DOMAIN ms
        /\ \A i \in DOMAIN ms : b[i] = ms[i]
        /\ b[Len(ms) + 1] = m
    BY <1>1, <1>2, OneMore, TellsOneMore
  <1>4. \A i \in DOMAIN ms : IsTool(ms[i]) => ResultFits(ms[i], n, moved, forms, open)
    BY DEF Kept
  <1> HIDE DEF b
  <1>5. \A i \in DOMAIN b : IsTool(b[i]) => ResultFits(b[i], n, moved, forms, open \ {call})
    BY <1>2, <1>3, <1>4 DEF ResultFits
  <1>6. \A i, j \in DOMAIN b : IsTool(b[i]) /\ IsTool(b[j]) /\ b[i].call = b[j].call => i = j
    <2>1. \A i \in DOMAIN ms : IsTool(ms[i]) => ms[i].call # call
      BY <1>4 DEF ResultFits
    <2>2. \A i, j \in DOMAIN ms : IsTool(ms[i]) /\ IsTool(ms[j]) /\ ms[i].call = ms[j].call => i = j
      BY DEF Kept
    <2> QED BY <1>2, <1>3, <2>1, <2>2
  <1>7. Kept(b, n, moved, forms, open \ {call})
    BY <1>3, <1>5, <1>6 DEF Kept
  <1> QED BY <1>7 DEF b, m

\* Results that take a new form.
LEMMA KeptAlike ==
    ASSUME NEW a, NEW b, NEW n, NEW moved, NEW forms, NEW open, Kept(a, n, moved, forms, open),
           Alike(a, b), NEW now,
           \A i \in DOMAIN a : IsTool(a[i]) =>
              b[i].form \in DOMAIN Weight /\ (a[i].call \in now => b[i].form \in forms)
    PROVE  Kept(b, n, now, forms, open)
  <1>1. Messages(a)
    BY DEF Kept
  <1>2. Messages(b) /\ DOMAIN b = DOMAIN a
    BY <1>1, AlikeTells DEF Alike
  <1>3. \A i \in DOMAIN a : /\ IsTool(b[i]) <=> IsTool(a[i])
                            /\ IsTool(a[i]) => b[i].call = a[i].call
    BY <1>1, AlikeFields
  <1>4. \A i \in DOMAIN b : IsTool(b[i]) => ResultFits(b[i], n, now, forms, open)
    BY <1>2, <1>3 DEF Kept, ResultFits
  <1>5. \A i, j \in DOMAIN b : IsTool(b[i]) /\ IsTool(b[j]) /\ b[i].call = b[j].call => i = j
    BY <1>2, <1>3 DEF Kept
  <1> QED BY <1>2, <1>4, <1>5 DEF Kept

-----------------------------------------------------------------------------
\* The projector keeps the results.

\* What an event moves to a file.
Moves(e) == IF e.type = "ToolResultReferenceApplied" THEN {e.call} ELSE {}
MovedBy(events, k) == UNION {Moves(events[j]) : j \in 1..k}

\* The result of one call is given another form, the only one that call has.
LEMMA ReferencedKept ==
    ASSUME NEW ms, NEW n, NEW moved, NEW open, Kept(ms, n, moved, Stored, open), NEW call
    PROVE  Kept(Referenced(ms, call), n, moved \cup {call}, Stored, open)
  <1> DEFINE b == Referenced(ms, call)
             at == {i \in DOMAIN ms : IsTool(ms[i]) /\ ms[i].call = call}
             last == NthFromEnd(at, 1)
  <1>1. Messages(ms) /\ Alike(ms, b)
    BY ReferencedAlike DEF Kept
  <1>2. b = IF at = {} THEN ms ELSE [ms EXCEPT ![last].form = "persisted"]
    BY DEF Referenced
  <1>3. at \in SUBSET DOMAIN ms /\ DOMAIN ms = 1..Len(ms) /\ Len(ms) \in Nat /\ IsFiniteSet(DOMAIN ms)
    BY <1>1, ListIs DEF Messages
  <1>4. at # {} => last \in at
    <2> HIDE DEF at
    <2>1. IsFiniteSet(at) /\ Cardinality(at) \in Nat /\ (at # {} => Cardinality(at) # 0)
      BY <1>3, FS_Subset, FS_CardinalityType, FS_EmptySet
    <2>2. at # {} => 1 \in 1..Cardinality(at)
      BY <2>1
    <2> QED BY <1>3, <2>2, FromEnd
  <1>5. \A i \in at : i = last
    BY <1>4 DEF Kept
  <1> HIDE DEF b, last
  <1>6. \A i \in DOMAIN ms : IsTool(ms[i]) =>
           IF ms[i].call = call THEN b[i].form = "persisted" ELSE b[i] = ms[i]
    <2> SUFFICES ASSUME NEW i \in DOMAIN ms, IsTool(ms[i])
                 PROVE  IF ms[i].call = call THEN b[i].form = "persisted" ELSE b[i] = ms[i]
      OBVIOUS
    <2>1. CASE ms[i].call = call
      <3>1. i = last /\ at # {}
        BY <1>5, <2>1
      <3>2. b[i] = Reform(ms[i], "persisted")
        BY <1>2, <3>1 DEF Reform
      <3>3. IsMessage(ms[i])
        BY <1>1 DEF Messages
      <3>4. b[i] = ToolMsg(ms[i].call, "persisted")
        BY <3>2, <3>3, Reformed
      <3> QED BY <2>1, <3>4, MessageFields
    <2>2. CASE ms[i].call # call
      <3>1. i \notin at
        BY <2>2
      <3>2. at # {} => i # last
        BY <1>4, <3>1
      <3> QED BY <1>2, <2>2, <3>2
    <2> QED BY <2>1, <2>2
  <1>7. "persisted" \in DOMAIN Weight /\ "persisted" \in Stored
    BY DEF Weight, Stored
  <1>8. \A i \in DOMAIN ms : IsTool(ms[i]) =>
           /\ b[i].form \in DOMAIN Weight
           /\ ms[i].call \in moved \cup {call} => b[i].form \in Stored
    BY <1>6, <1>7 DEF Kept, ResultFits
  <1>9. Kept(b, n, moved \cup {call}, Stored, open)
    BY <1>1, <1>8, KeptAlike
  <1> QED BY <1>9 DEF b

\* One more message, not a result.
LEMMA KeptOneMore ==
    ASSUME NEW ms, NEW n, NEW moved, NEW forms, NEW open, Kept(ms, n, moved, forms, open),
           NEW m, IsMessage(m), ~IsTool(m)
    PROVE  Kept(Append(ms, m), n, moved, forms, open)
  <1>1. IsList(ms) /\ Append(ms, m) = ms \o <<m>>
    BY Appended DEF Kept, Messages
  <1>2. Messages(<<m>>) /\ \A i \in DOMAIN <<m>> : ~IsTool(<<m>>[i])
    BY TellsSingle, Single
  <1> QED BY <1>1, <1>2, KeptJoined

\* The open text and calls become a message.
LEMMA FlushKept ==
    ASSUME NEW p, NEW n, NEW moved, NEW forms, NEW open, Kept(p.messages, n, moved, forms, open)
    PROVE  Kept(FlushPending(p).messages, n, moved, forms, open)
  <1>1. CASE p.content = <<>> /\ p.calls = <<>>
    BY <1>1 DEF FlushPending
  <1>2. CASE ~(p.content = <<>> /\ p.calls = <<>>)
    <2> DEFINE m == AssistantMsg(IF p.content = <<>> THEN 0 ELSE p.content[1], p.calls)
    <2>1. FlushPending(p).messages = Append(p.messages, m)
      BY <1>2 DEF FlushPending
    <2>2. IsMessage(m) /\ ~IsTool(m)
      BY MessageFields
    <2> HIDE DEF m
    <2> QED BY <2>1, <2>2, KeptOneMore
  <1> QED BY <1>1, <1>2

\* One event: close are the calls that get a result.
LEMMA ApplyKept ==
    ASSUME NEW p, ProjSound(p), NEW e, Proper(e), NEW n \in Nat, NEW moved, NEW open,
           Kept(p.messages, n, moved, Stored, open), NEW close \in SUBSET open,
           e.type = "ToolResult" => /\ e.call \in close /\ e.call.id \in 1..n
                                    /\ e.call \notin moved /\ e.form \in DOMAIN Weight
    PROVE  Kept(ApplyEvent(p, e).messages, n, moved \cup Moves(e), Stored, open \ close)
  <1> DEFINE f == FlushPending(p)
             q == ApplyEvent(p, e)
             Stay(ms) == Kept(ms, n, moved, Stored, open)
  <1>1. ProjSound(f) /\ Stay(f.messages) /\ Stay(p.messages) /\ IsList(f.messages)
    BY FlushSound, FlushKept DEF Kept, Messages
  <1>2. ASSUME NEW ms, NEW now, Kept(ms, n, now, Stored, open) PROVE Kept(ms, n, now, Stored, open \ close)
    <2>1. Stored \subseteq Stored /\ now \in SUBSET now /\ n <= n
          /\ \A call \in open \ close : call \in open \/ call.id \notin 1..n
      OBVIOUS
    <2> QED BY <1>2, <2>1, KeptWeaker
  <1> HIDE DEF f, q, Stay
  <1>3. ASSUME Moves(e) = {}, Stay(q.messages)
        PROVE  Kept(q.messages, n, moved \cup Moves(e), Stored, open \ close)
    BY <1>2, <1>3 DEF Stay
  <1>4. CASE (e.type = "UserMessage" /\ e.origin \in Internal) \/ e.type = "TurnDone"
    <2>1. q = f /\ Moves(e) = {}
      BY <1>4 DEF q, f, ApplyEvent, Moves
    <2> QED BY <1>1, <1>3, <2>1 DEF q
  <1>5. CASE e.type = "UserMessage" /\ e.origin \notin Internal
    <2> DEFINE m == UserMsg(e.origin, e.n)
    <2>1. q = AddMessage(f, m) /\ Moves(e) = {}
      BY <1>5 DEF q, f, ApplyEvent, Moves
    <2>2. IsMessage(m) /\ ~IsTool(m)
      BY MessageFields
    <2> HIDE DEF m
    <2>3. q.messages = Append(f.messages, m)
      BY <1>1, <2>1, ProjFields
    <2>4. Stay(q.messages)
      BY <1>1, <2>2, <2>3, KeptOneMore DEF Stay
    <2> QED BY <1>3, <2>1, <2>4 DEF q
  <1>6. CASE e.type = "ToolResult"
    <2> DEFINE m == ToolMsg(e.call, e.form)
    <2>1. q = AddMessage(f, m) /\ Moves(e) = {}
      BY <1>6 DEF q, f, ApplyEvent, Moves
    <2>2. q.messages = Append(f.messages, m)
      BY <1>1, <2>1, ProjFields
    <2>3. Kept(q.messages, n, moved, Stored, open \ {e.call})
      BY <1>1, <1>6, <2>2, KeptResult DEF Stay
    <2>4. Stored \subseteq Stored /\ moved \in SUBSET moved /\ n <= n
          /\ \A call \in open \ close : call \in open \ {e.call} \/ call.id \notin 1..n
      BY <1>6
    <2>5. Kept(q.messages, n, moved, Stored, open \ close)
      BY <2>3, <2>4, KeptWeaker
    <2>6. moved \cup Moves(e) = moved
      BY <2>1
    <2> QED BY <2>5, <2>6 DEF q
  <1>7. CASE e.type = "AssistantFinal"
    <2>1. q = [f EXCEPT !.content = <<e.text>>] /\ Moves(e) = {}
      BY <1>7 DEF q, f, ApplyEvent, Moves
    <2>2. q.messages = f.messages
      BY <1>1, <2>1, ProjFields
    <2> QED BY <1>1, <1>3, <2>1, <2>2 DEF q
  <1>8. CASE e.type = "ToolCall"
    <2>1. q = [p EXCEPT !.calls = Append(@, e.call)] /\ Moves(e) = {}
      BY <1>8 DEF q, ApplyEvent, Moves
    <2>2. q.messages = p.messages
      BY <2>1, ProjFields
    <2> QED BY <1>1, <1>3, <2>1, <2>2 DEF q
  <1>9. CASE e.type = "ToolResultReferenceApplied"
    <2> DEFINE ms == Referenced(p.messages, e.call)
    <2>1. q = [p EXCEPT !.messages = ms] /\ Moves(e) = {e.call}
      BY <1>9 DEF q, ApplyEvent, Moves
    <2>2. Kept(ms, n, moved \cup {e.call}, Stored, open)
      BY ReferencedKept
    <2> HIDE DEF ms
    <2>3. q.messages = ms
      BY <2>1, ProjFields
    <2> QED BY <1>2, <2>1, <2>2, <2>3 DEF q
  <1>10. CASE e.type = "CompactApplied"
    <2> DEFINE ms == ApplyCompaction(f.messages, e.preserved, e.removed)
               start == RecentTurnStart(f.messages, e.preserved)
               gone == IF e.removed \in 1..Len(f.messages) THEN e.removed ELSE start - 1
               rest == SubSeq(f.messages, gone + 1, Len(f.messages))
    <2>1. q = [f EXCEPT !.messages = ms] /\ Moves(e) = {}
      BY <1>10 DEF q, f, ApplyEvent, Moves
    <2>2. start \in 1..(Len(f.messages) + 1) /\ Len(f.messages) \in Nat
      <3>1. e.preserved \in Nat
        BY <1>10 DEF Proper
      <3> QED BY <1>1, <3>1, RecentTurnStartIn, ListIs
    <2>3. ms = IF gone = 0 THEN f.messages ELSE <<Summary>> \o rest
      BY DEF ApplyCompaction
    <2> HIDE DEF ms, start
    <2>4. gone + 1 \in 1..(Len(f.messages) + 1)
      BY <2>2
    <2> HIDE DEF gone
    <2>5. Stay(rest)
      BY <1>1, <2>4, KeptTail DEF Stay
    <2>6. Messages(<<Summary>>) /\ \A i \in DOMAIN <<Summary>> : ~IsTool(<<Summary>>[i])
      BY MessageFields, TellsSingle, Single DEF Summary
    <2> HIDE DEF rest
    <2>7. Stay(<<Summary>> \o rest)
      BY <2>5, <2>6, KeptJoined DEF Stay
    <2>8. q.messages = ms
      BY <1>1, <2>1, ProjFields
    <2> QED BY <1>1, <1>3, <2>1, <2>3, <2>7, <2>8 DEF q
  <1>11. CASE e.type \notin {"UserMessage", "ToolResult", "AssistantFinal", "ToolCall",
                             "ToolResultReferenceApplied", "CompactApplied", "TurnDone"}
    <2>1. q = p /\ Moves(e) = {}
      BY <1>11 DEF q, ApplyEvent, Moves
    <2> QED BY <1>1, <1>3, <2>1 DEF q
  <1> QED BY <1>4, <1>5, <1>6, <1>7, <1>8, <1>9, <1>10, <1>11

\* What the events of a list move.
LEMMA MovedIs ==
    ASSUME NEW events, IsList(events)
    PROVE  /\ References(events) = MovedBy(events, Len(events)) /\ MovedBy(events, 0) = {}
           /\ \A k \in 1..Len(events) :
                 MovedBy(events, k) = MovedBy(events, k - 1) \cup Moves(events[k])
  <1>1. DOMAIN events = 1..Len(events) /\ Len(events) \in Nat
    BY ListIs
  <1>2. \A x : x \in References(events) <=> \E k \in DOMAIN events : x \in Moves(events[k])
    BY DEF References, Moves
  <1>3. \A k \in Nat : \A x : x \in MovedBy(events, k) <=> \E j \in 1..k : x \in Moves(events[j])
    BY DEF MovedBy
  <1>4. References(events) = MovedBy(events, Len(events))
    BY <1>1, <1>2, <1>3
  <1>5. MovedBy(events, 0) = {}
    BY <1>3
  <1>6. ASSUME NEW k \in 1..Len(events)
        PROVE  MovedBy(events, k) = MovedBy(events, k - 1) \cup Moves(events[k])
    <2>1. k \in Nat /\ k - 1 \in Nat /\ \A j : j \in 1..k <=> j \in 1..(k - 1) \/ j = k
      BY <1>1
    <2>2. \A x : x \in MovedBy(events, k) <=> x \in MovedBy(events, k - 1) \/ x \in Moves(events[k])
      <3>1. \A x : x \in MovedBy(events, k) <=> \E j \in 1..k : x \in Moves(events[j])
        BY <1>3, <2>1
      <3>2. \A x : x \in MovedBy(events, k - 1) <=> \E j \in 1..(k - 1) : x \in Moves(events[j])
        BY <1>3, <2>1
      <3> QED BY <2>1, <3>1, <3>2
    <2> QED BY <2>2
  <1> QED BY <1>4, <1>5, <1>6

\* The results among the events: at most the first, of a call that has none.
Closing(events, n, moved, close) ==
  \A k \in DOMAIN events : events[k].type = "ToolResult" =>
     /\ k = 1
     /\ events[k].call \in close /\ events[k].call.id \in 1..n
     /\ events[k].call \notin moved /\ events[k].form \in DOMAIN Weight

\* Events in a row.
LEMMA ProjectKept ==
    ASSUME NEW p, ProjSound(p), NEW events, ProperList(events), NEW n \in Nat, NEW moved, NEW open,
           Kept(p.messages, n, moved, Stored, open), NEW close \in SUBSET open,
           Closing(events, n, moved, close)
    PROVE  Kept(Project(p, events).messages, n, moved \cup References(events), Stored, open \ close)
  <1> DEFINE m == Len(events)
  <1>1. m \in Nat /\ DOMAIN events = 1..m /\ IsList(events)
    BY ListIs DEF ProperList
  <1>2. PICK h : /\ h[0] = p /\ Project(p, events) = h[m]
                 /\ \A k \in 1..m : h[k] = ApplyEvent(h[k - 1], events[k])
    <2>1. PICK h : Passed(h, p, events)
      BY ProjectRuns DEF ProperList
    <2>2. /\ h[0] = p /\ Project(p, events) = h[m]
          /\ \A k \in 1..m : h[k] = ApplyEvent(h[k - 1], events[k])
      BY <2>1 DEF Passed
    <2> QED BY ONLY <2>2
  <1>3. /\ References(events) = MovedBy(events, m) /\ MovedBy(events, 0) = {}
        /\ \A k \in 1..m : MovedBy(events, k) = MovedBy(events, k - 1) \cup Moves(events[k])
    BY <1>1, MovedIs
  <1> HIDE DEF m
  <1> DEFINE OpenAt(k) == IF k = 0 THEN open ELSE open \ close
             G == {k \in 0..m : /\ ProjSound(h[k])
                                /\ Kept(h[k].messages, n, moved \cup MovedBy(events, k), Stored, OpenAt(k))}
  <1>4. 0 \in G
    <2>1. moved \cup MovedBy(events, 0) = moved
      BY <1>3
    <2>2. OpenAt(0) = open
      OBVIOUS
    <2>3. ProjSound(h[0]) /\ 0 \in 0..m
      BY <1>1, <1>2
    <2> HIDE DEF OpenAt
    <2>4. Kept(h[0].messages, n, moved \cup MovedBy(events, 0), Stored, OpenAt(0))
      BY <1>2, <2>1, <2>2
    <2> QED BY <2>3, <2>4
  <1>5. ASSUME NEW k \in 1..m, k - 1 \in G PROVE k \in G
    <2> DEFINE g == h[k - 1]
               gone == moved \cup MovedBy(events, k - 1)
               o == OpenAt(k - 1)
               c == o \cap close
    <2>1. Proper(events[k]) /\ k \in 0..m /\ k # 0
      BY <1>1 DEF ProperList
    <2>2. ProjSound(g) /\ Kept(g.messages, n, gone, Stored, o)
      BY <1>5
    <2>3. h[k] = ApplyEvent(g, events[k])
      BY <1>2
    <2>4. events[k].type = "ToolResult" =>
             /\ events[k].call \in c /\ events[k].call.id \in 1..n
             /\ events[k].call \notin gone /\ events[k].form \in DOMAIN Weight
      <3> SUFFICES ASSUME events[k].type = "ToolResult"
                   PROVE  /\ events[k].call \in c /\ events[k].call.id \in 1..n
                          /\ events[k].call \notin gone /\ events[k].form \in DOMAIN Weight
        OBVIOUS
      <3>1. /\ k = 1 /\ events[k].call \in close /\ events[k].call.id \in 1..n
            /\ events[k].call \notin moved /\ events[k].form \in DOMAIN Weight
        BY <1>1 DEF Closing
      <3>2. k - 1 = 0
        BY <3>1
      <3>3. gone = moved /\ o = open
        BY <1>3, <3>2
      <3> QED BY <3>1, <3>3
    <2>5. o \ c = OpenAt(k)
      BY <2>1
    <2>6. gone \cup Moves(events[k]) = moved \cup MovedBy(events, k)
      BY <1>3
    <2>7. c \in SUBSET o
      OBVIOUS
    <2> HIDE DEF g, gone, o, c, OpenAt
    <2>8. ProjSound(h[k])
      BY <2>1, <2>2, <2>3, ApplySound
    <2>9. Kept(ApplyEvent(g, events[k]).messages, n, gone \cup Moves(events[k]), Stored, o \ c)
      BY <2>1, <2>2, <2>4, <2>7, ApplyKept
    <2>10. Kept(h[k].messages, n, moved \cup MovedBy(events, k), Stored, OpenAt(k))
      BY <2>3, <2>5, <2>6, <2>9
    <2> QED BY <2>1, <2>8, <2>10 DEF OpenAt
  <1>6. m \in G
    <2> HIDE DEF G
    <2> QED BY <1>1, <1>4, <1>5, Climb
  <1>7. CASE m = 0
    <2>1. \A call \in open \ close : call \in open \/ call.id \notin 1..n
      OBVIOUS
    <2>2. Kept(h[m].messages, n, moved \cup MovedBy(events, m), Stored, open)
      BY <1>6, <1>7
    <2>3. n <= n /\ moved \cup MovedBy(events, m) \in SUBSET (moved \cup MovedBy(events, m)) /\ Stored \subseteq Stored
      OBVIOUS
    <2>4. Kept(h[m].messages, n, moved \cup MovedBy(events, m), Stored, open \ close)
      BY <2>1, <2>2, <2>3, KeptWeaker
    <2> QED BY <1>2, <1>3, <2>4
  <1>8. CASE m # 0
    BY <1>2, <1>3, <1>6, <1>8
  <1> QED BY <1>7, <1>8

\* What lists of events move.
LEMMA MovedJoined ==
    ASSUME NEW a, NEW b, ProperList(a), ProperList(b)
    PROVE  /\ References(a \o b) = References(a) \cup References(b)
           /\ References(Delayed(a)) = References(a)
           /\ Urgent(b) \/ Tame(b) => References(b) = {}
           /\ References(<<>>) = {}
  <1> DEFINE Is(e, x) == e.type = "ToolResultReferenceApplied" /\ e.call = x
  <1>1. \A q, x : x \in References(q) <=> \E k \in DOMAIN q : Is(q[k], x)
    BY DEF References
  <1>2. IsList(a) /\ IsList(b)
    BY DEF ProperList
  <1>3. \A k \in DOMAIN a : \A x : Is(a[k], x) => ~Immediate(a[k])
    BY DEF Immediate
  <1>4. Urgent(b) \/ Tame(b) => \A k \in DOMAIN b : \A x : ~Is(b[k], x)
    BY DEF Urgent, Tame, Immediate
  <1> HIDE DEF Is
  <1>5. References(a \o b) = References(a) \cup References(b)
    <2> DEFINE q == a \o b
    <2>1. /\ \A k \in DOMAIN q : \/ k \in DOMAIN a /\ q[k] = a[k]
                                 \/ k \notin DOMAIN a /\ \E j \in DOMAIN b : k = Len(a) + j /\ q[k] = b[j]
          /\ \A k \in DOMAIN a : k \in DOMAIN q /\ q[k] = a[k]
          /\ \A j \in DOMAIN b : Len(a) + j \in DOMAIN q /\ q[Len(a) + j] = b[j]
      BY <1>2, Elements
    <2> HIDE DEF q
    <2>2. \A x : (\E k \in DOMAIN q : Is(q[k], x))
                    <=> (\E k \in DOMAIN a : Is(a[k], x)) \/ (\E k \in DOMAIN b : Is(b[k], x))
      BY <2>1
    <2>3. \A x : x \in References(q) <=> x \in References(a) \/ x \in References(b)
      BY <1>1, <2>2
    <2>4. References(q) = References(a) \cup References(b)
      BY <2>3
    <2> QED BY <2>4 DEF q
  <1>6. References(Delayed(a)) = References(a)
    <2> DEFINE K == {k \in DOMAIN a : ~Immediate(a[k])}
               s == Selected(a, K)
    <2>1. K \in SUBSET DOMAIN a /\ Delayed(a) = s
      BY DEF Delayed
    <2>2. \A k \in DOMAIN a : ~Immediate(a[k]) => k \in K
      OBVIOUS
    <2> HIDE DEF K
    <2>3. \A i \in DOMAIN s : \E k \in K : s[i] = a[k]
      BY <1>2, <2>1, CountSelected
    <2>4. \A k \in K : \E i \in DOMAIN s : s[i] = a[k]
      BY <1>2, <2>1, SelectedAll
    <2> HIDE DEF s
    <2>5. \A x : (\E k \in DOMAIN s : Is(s[k], x)) <=> (\E k \in DOMAIN a : Is(a[k], x))
      BY <1>3, <2>1, <2>2, <2>3, <2>4
    <2>6. \A x : x \in References(s) <=> x \in References(a)
      BY <1>1, <2>5
    <2> QED BY <2>1, <2>6
  <1>7. Urgent(b) \/ Tame(b) => References(b) = {}
    BY <1>1, <1>4
  <1>8. References(<<>>) = {}
    BY <1>1, Single
  <1> QED BY <1>5, <1>6, <1>7, <1>8

\* Whichever way the events go, the projector keeps the results, and what is or
\* will be moved is what the events move.
LEMMA SinkMoved ==
    ASSUME SinkInv, NEW n \in Nat, NEW open, NEW close \in SUBSET open,
           Kept(proj.messages, n, replaced, Stored, open),
           NEW now, NEW events, Urgent(now), Plain(events), Speech(now, events),
           Closing(now, n, replaced, close)
    PROVE  /\ Kept(proj'.messages, n, replaced', Stored, open \ close)
           /\ replaced' \cup References(pending')
                = replaced \cup References(pending) \cup References(events)
  <1>1. /\ ProjSound(proj) /\ ProperList(pending) /\ ProperList(now) /\ ProperList(events)
    BY UrgentIsProper DEF SinkInv, Plain
  <1>2. References(now) = {} /\ References(<<>>) = {}
        /\ References(pending \o now) = References(pending)
    <2>1. References(now) = {} /\ References(<<>>) = {}
      BY <1>1, MovedJoined
    <2>2. References(pending \o now) = References(pending) \cup References(now)
      BY <1>1, MovedJoined
    <2> QED BY <2>1, <2>2
  <1>3. Kept(proj.messages, n, replaced, Stored, open \ close)
    <2>1. /\ Stored \subseteq Stored /\ replaced \in SUBSET replaced /\ n <= n
          /\ \A call \in open \ close : call \in open \/ call.id \notin 1..n
      OBVIOUS
    <2> QED BY <2>1, KeptWeaker
  <1>4. CASE now = <<>> /\ events = <<>> /\ UNCHANGED <<pending, sinkVars>>
    <2>1. pending' = pending /\ proj' = proj /\ replaced' = replaced
      BY <1>4 DEF sinkVars
    <2>2. References(events) = {}
      BY <1>2, <1>4
    <2> QED BY <1>3, <2>1, <2>2
  <1>5. CASE now = <<>> /\ Push(events)
    <2>1. pending' = pending \o events /\ proj' = proj /\ replaced' = replaced
      BY <1>5 DEF Push, sinkVars
    <2>2. References(pending \o events) = References(pending) \cup References(events)
      BY <1>1, MovedJoined
    <2> QED BY <1>3, <2>1, <2>2
  <1>6. CASE events = <<>> /\ PushImmediate(now)
    <2>1. pending' = pending \o now /\ proj' = Project(proj, now) /\ replaced' = replaced
      BY <1>6 DEF PushImmediate
    <2>2. References(pending \o now) = References(pending) /\ References(events) = {}
      BY <1>2, <1>6
    <2>3. Kept(Project(proj, now).messages, n, replaced \cup References(now), Stored, open \ close)
      BY <1>1, ProjectKept
    <2>4. replaced \cup References(now) = replaced
      BY <1>2
    <2> QED BY <2>1, <2>2, <2>3, <2>4
  <1>7. CASE FlushAfter(now, events)
    <2> DEFINE q == pending \o events
               rest == Delayed(q)
               late == now \o rest
               all == pending \o now \o events
    <2>1. pending' = <<>> /\ proj' = Project(proj, late) /\ replaced' = replaced \cup References(all)
      BY <1>7 DEF FlushAfter
    <2>2. References(all) = References(pending) \cup References(events)
      <3>1. ProperList(pending \o now)
        BY <1>1, ProperJoined
      <3>2. References(all) = References(pending \o now) \cup References(events)
        BY <1>1, <3>1, MovedJoined
      <3> QED BY <1>2, <3>2
    <2> HIDE DEF all
    <2>3. ProperList(q) /\ References(q) = References(pending) \cup References(events)
      BY <1>1, ProperJoined, MovedJoined
    <2> HIDE DEF q
    <2>4. ProperList(rest) /\ References(rest) = References(q) /\ Plain(rest)
      BY <2>3, DelayedTells, MovedJoined, DelayedIs
    <2> HIDE DEF rest
    <2>5. ProperList(late) /\ References(late) = References(all)
      BY <1>1, <1>2, <2>2, <2>3, <2>4, ProperJoined, MovedJoined
    <2>6. Closing(late, n, replaced, close)
      <3>1. \A k \in DOMAIN late : \/ k \in DOMAIN now /\ late[k] = now[k]
                                   \/ \E j \in DOMAIN rest : late[k] = rest[j]
        BY <1>1, <2>4, Elements DEF ProperList
      <3> HIDE DEF late
      <3>2. \A j \in DOMAIN rest : rest[j].type # "ToolResult"
        BY <2>4 DEF Plain, Immediate
      <3> QED BY <3>1, <3>2 DEF Closing
    <2> HIDE DEF late
    <2>7. Kept(Project(proj, late).messages, n, replaced \cup References(late), Stored, open \ close)
      BY <1>1, <2>5, <2>6, ProjectKept
    <2>8. Kept(proj'.messages, n, replaced', Stored, open \ close)
      BY <2>1, <2>5, <2>7
    <2>9. replaced' \cup References(pending')
                = replaced \cup References(pending) \cup References(events)
      BY <1>2, <2>1, <2>2
    <2> QED BY <2>8, <2>9
  <1> QED BY <1>4, <1>5, <1>6, <1>7 DEF Speech

-----------------------------------------------------------------------------
\* The steps of the loop keep the results, and those moved stay so.

\* A step whose events move what the turn has taken for moved, and leave the
\* messages, or those of a compaction, with results of calls that had none.
LEMMA PassesMoved ==
    ASSUME MovedInv, SinkInv, ghost.calls \in Nat, NEW close \in SUBSET Open,
           NEW now, NEW events, Urgent(now), Plain(events), Speech(now, events),
           Closing(now, ghost.calls, replaced, close),
           ghost'.calls \in Nat, ghost.calls <= ghost'.calls,
           exec'.replaced = exec.replaced \cup References(events),
           \A call \in References(events) : call.id \in 1..ghost.calls /\ call \notin Open',
           \A call \in Open' : call \in Open \ close \/ call.id \notin 1..ghost.calls,
           pc' \notin Comps \cup {"idle"} =>
              Kept(live', ghost.calls, exec'.replaced, Short, Open \ close),
           pc' \in Comps => Kept(comp'.source, ghost.calls, exec'.replaced, Short, Open \ close),
           pc' \in {"fit", "summarise"} =>
              Kept(comp'.suffix, ghost.calls, exec'.replaced, Short, Open \ close),
           pc' \in Working => Returned(tools', pc')
    PROVE  MovedInv'
  <1>1. /\ exec.replaced = replaced \cup References(pending)
        /\ \A call \in exec.replaced : call.id \in 1..ghost.calls
        /\ Open \cap exec.replaced = {}
        /\ Kept(proj.messages, ghost.calls, replaced, Stored, Open)
    BY DEF MovedInv
  <1>2. /\ Kept(proj'.messages, ghost.calls, replaced', Stored, Open \ close)
        /\ replaced' \cup References(pending')
             = replaced \cup References(pending) \cup References(events)
    BY <1>1, SinkMoved
  <1>3. exec'.replaced = replaced' \cup References(pending')
    BY <1>1, <1>2
  <1>4. \A call \in exec'.replaced : call.id \in 1..ghost'.calls
    <2>1. \A call \in exec'.replaced : call.id \in 1..ghost.calls
      BY <1>1
    <2> QED BY <2>1
  <1>5. Open' \cap exec'.replaced = {}
    BY <1>1
  <1>6. ASSUME NEW ms, NEW moved, NEW forms, Kept(ms, ghost.calls, moved, forms, Open \ close)
        PROVE  Kept(ms, ghost'.calls, moved, forms, Open')
    <2>1. moved \in SUBSET moved /\ forms \subseteq forms
      OBVIOUS
    <2> QED BY <1>6, <2>1, KeptWeaker
  <1>7. Kept(proj'.messages, ghost'.calls, replaced', Stored, Open')
    BY <1>2, <1>6
  <1>8. pc' \notin Comps \cup {"idle"} => Kept(live', ghost'.calls, exec'.replaced, Short, Open')
    BY <1>6
  <1>9. pc' \in Comps => Kept(comp'.source, ghost'.calls, exec'.replaced, Short, Open')
    BY <1>6
  <1>10. pc' \in {"fit", "summarise"} => Kept(comp'.suffix, ghost'.calls, exec'.replaced, Short, Open')
    BY <1>6
  <1> QED BY <1>3, <1>4, <1>5, <1>7, <1>8, <1>9, <1>10 DEF MovedInv, InUse

\* The calls that a step leaves open were so, or are new.
Opens == /\ ghost'.calls \in Nat /\ ghost.calls <= ghost'.calls
         /\ \A call \in Open' : call \in Open \/ call.id \notin 1..ghost.calls
         /\ pc' \in Working => Returned(tools', pc')

\* The call whose result is recorded.
LEMMA ResultOpen ==
    ASSUME MovedInv, ToolInv, pc = "results", tools.next <= Len(tools.calls)
    PROVE  /\ Call \in Open /\ Call.id \in 1..ghost.calls /\ Call \notin exec.replaced
           /\ ResultForm \in DOMAIN Weight
           /\ pc' = pc /\ ToolsSound(tools) /\ tools' = [tools EXCEPT !.next = @ + 1] =>
                 Open' \subseteq Open \ {Call}
  <1>1. /\ IsList(tools.calls) /\ tools.next \in Nat \ {0}
        /\ \A i \in DOMAIN tools.calls : tools.calls[i].id \in 1..ghost.calls
        /\ \A i, j \in DOMAIN tools.calls : tools.calls[i] = tools.calls[j] => i = j
    BY DEF ToolInv, BatchOf, Working
  <1>2. DOMAIN tools.calls = 1..Len(tools.calls) /\ Len(tools.calls) \in Nat
    BY <1>1, ListIs
  <1>3. tools.next \in DOMAIN tools.calls
    BY <1>1, <1>2
  <1>4. Open = {tools.calls[i] : i \in {j \in DOMAIN tools.calls : j >= tools.next}}
    BY DEF Open, Working
  <1>5. Call \in Open /\ Call.id \in 1..ghost.calls
    BY <1>1, <1>3, <1>4 DEF Call
  <1>6. Call \notin exec.replaced
    BY <1>5 DEF MovedInv
  <1>7. ResultForm \in DOMAIN Weight
    <2>1. CASE Call \notin tools.allowed
      BY <2>1 DEF ResultForm, Weight
    <2>2. CASE Call \in tools.allowed
      <3>1. /\ \A call \in tools.allowed : call \in tools.running
                  \/ \E i \in DOMAIN tools.results : tools.results[i].call = call
            /\ tools.running = {} /\ \A i \in DOMAIN tools.results : tools.results[i].form \in Forms
        BY DEF MovedInv, Returned, Working
      <3>2. \E r \in Range(tools.results) : r.call = Call
        BY <2>2, <3>1 DEF Range
      <3>3. ResultOf(Call) \in Range(tools.results)
        BY <3>2 DEF ResultOf
      <3>4. ResultOf(Call).form \in Forms
        BY <3>1, <3>3 DEF Range
      <3> QED BY <2>2, <3>4, LoopSettings DEF ResultForm
    <2> QED BY <2>1, <2>2
  <1>8. ASSUME pc' = pc, ToolsSound(tools), tools' = [tools EXCEPT !.next = @ + 1]
        PROVE  Open' \subseteq Open \ {Call}
    <2>1. tools'.calls = tools.calls /\ tools'.next = tools.next + 1
      <3> DEFINE u == [tools EXCEPT !.next = tools.next + 1]
      <3>1. ToolsAre(tools, u, tools.next + 1, tools.allowed, tools.running, tools.channel)
        BY <1>8, ToolsUpdates
      <3>2. tools' = u
        BY <1>8
      <3> HIDE DEF u
      <3> QED BY <3>1, <3>2 DEF ToolsAre
    <2>2. Open' = {tools.calls[i] : i \in {j \in DOMAIN tools.calls : j >= tools.next + 1}}
      BY <1>8, <2>1 DEF Open, Working
    <2>3. \A j \in DOMAIN tools.calls : j >= tools.next + 1 => j >= tools.next /\ j # tools.next
      BY <1>1, <1>2
    <2>4. \A j \in DOMAIN tools.calls : j >= tools.next + 1 => tools.calls[j] # Call
      BY <1>1, <1>3, <2>3 DEF Call
    <2> QED BY <1>4, <2>2, <2>3, <2>4
  <1> QED BY <1>5, <1>6, <1>7, <1>8

\* Steps that add messages.
LEMMA SaysMoved ==
    ASSUME SinkInv, Work, ToolInv, MovedInv, Says, Opens, pc \notin Comps \cup {"idle"}
    PROVE  MovedInv'
  <1>1. PICK new, now, events : Adds(new) /\ Urgent(now) /\ Utters(now, events) /\ Answers(new, now) /\ Steady
    BY DEF Says
  <1>2. PICK all : Tame(all) /\ Speech(now, all) /\ pc' \notin Comps
    BY <1>1 DEF Utters
  <1>3. Plain(all) /\ exec'.replaced = exec.replaced /\ ghost.calls \in Nat /\ pc' \notin {"fit", "summarise"}
    BY <1>1, <1>2 DEF Tame, Steady, ToolInv, Comps
  <1>4. References(all) = {}
    <2>1. ProperList(all)
      BY <1>3 DEF Plain
    <2> QED BY <1>2, <2>1, MovedJoined
  <1>5. Kept(live, ghost.calls, exec.replaced, Short, Open) /\ replaced \subseteq exec.replaced
    BY DEF MovedInv, InUse
  <1>6. Messages(new) /\ live' = live \o new /\ IsList(live)
    BY <1>1 DEF Adds, Work
  <1>7. CASE /\ \A i \in DOMAIN new : ~IsTool(new[i])
             /\ \A k \in DOMAIN now : now[k].type # "ToolResult"
    <2>1. Kept(live', ghost.calls, exec.replaced, Short, Open)
      BY <1>5, <1>6, <1>7, KeptJoined
    <2>2. Closing(now, ghost.calls, replaced, {})
      BY <1>7 DEF Closing
    <2>3. Open \ {} = Open /\ {} \in SUBSET Open /\ exec.replaced \cup {} = exec.replaced
      OBVIOUS
    <2>4. Kept(live', ghost.calls, exec'.replaced, Short, Open \ {})
      BY <1>3, <2>1, <2>3
    <2>5. exec'.replaced = exec.replaced \cup References(all)
      BY <1>3, <1>4
    <2>6. \A call \in References(all) : call.id \in 1..ghost.calls /\ call \notin Open'
      BY <1>4
    <2>7. \A call \in Open' : call \in Open \ {} \/ call.id \notin 1..ghost.calls
      BY DEF Opens
    <2> QED BY <1>1, <1>2, <1>3, <2>2, <2>3, <2>4, <2>5, <2>6, <2>7, PassesMoved DEF Opens
  <1>8. CASE /\ pc = "results" /\ tools.next <= Len(tools.calls) /\ pc' = pc
             /\ tools' = [tools EXCEPT !.next = @ + 1]
             /\ new = <<ToolMsg(Call, ResultForm)>> /\ now = <<ToolResult(Call, ResultForm)>>
    <2>1. /\ Call \in Open /\ Call.id \in 1..ghost.calls /\ Call \notin exec.replaced
          /\ ResultForm \in DOMAIN Weight /\ Open' \subseteq Open \ {Call}
      BY <1>8, ResultOpen DEF Work
    <2>2. live' = Append(live, ToolMsg(Call, ResultForm))
      BY <1>6, <1>8, Appended
    <2>3. Kept(live', ghost.calls, exec.replaced, Short, Open \ {Call})
      BY <1>5, <2>1, <2>2, KeptResult
    <2>4. Closing(now, ghost.calls, replaced, {Call})
      <3> DEFINE e == ToolResult(Call, ResultForm)
      <3>1. e.call = Call /\ e.form = ResultForm
        BY DEF ToolResult
      <3>2. now = <<e>> /\ DOMAIN now = {1} /\ now[1] = e
        BY <1>8, Single
      <3> HIDE DEF e
      <3>3. Call \notin replaced
        BY <1>5, <2>1
      <3> QED BY <2>1, <3>1, <3>2, <3>3 DEF Closing
    <2>5. {Call} \in SUBSET Open
      BY <2>1
    <2>6. exec'.replaced = exec.replaced \cup References(all)
      BY <1>3, <1>4
    <2>7. \A call \in References(all) : call.id \in 1..ghost.calls /\ call \notin Open'
      BY <1>4
    <2>8. \A call \in Open' : call \in Open \ {Call} \/ call.id \notin 1..ghost.calls
      BY <2>1
    <2>9. Kept(live', ghost.calls, exec'.replaced, Short, Open \ {Call})
      BY <1>3, <2>3
    <2> QED BY <1>1, <1>2, <1>3, <2>4, <2>5, <2>6, <2>7, <2>8, <2>9, PassesMoved DEF Opens
  <1> QED BY <1>1, <1>7, <1>8 DEF Answers

\* Changes of the tool calls, as to what has been returned.
LEMMA ResultsUpdates ==
    ASSUME NEW t, ToolsSound(t)
    PROVE  /\ \A next, allowed, running :
                 [t EXCEPT !.next = next, !.allowed = allowed, !.running = running].results = t.results
           /\ \A next : [t EXCEPT !.next = next].results = t.results
           /\ \A channel, deltas : [t EXCEPT !.channel = channel, !.deltas = deltas].results = t.results
           /\ \A running, results : [t EXCEPT !.running = running, !.results = results].results = results
           /\ \A channel : [t EXCEPT !.channel = channel].results = t.results
           /\ \A channel, next : [t EXCEPT !.channel = channel, !.next = next].results = t.results
  <1>1. DOMAIN t = {"calls", "next", "allowed", "running", "results", "channel", "deltas"}
    BY DEF ToolsSound
  <1>2. \A next, allowed, running :
           [t EXCEPT !.next = next, !.allowed = allowed, !.running = running].results = t.results
    BY <1>1
  <1>3. \A next : [t EXCEPT !.next = next].results = t.results
    BY <1>1
  <1>4. \A channel, deltas : [t EXCEPT !.channel = channel, !.deltas = deltas].results = t.results
    BY <1>1
  <1>5. \A running, results : [t EXCEPT !.running = running, !.results = results].results = results
    BY <1>1
  <1>6. \A channel : [t EXCEPT !.channel = channel].results = t.results
    BY <1>1
  <1>7. \A channel, next : [t EXCEPT !.channel = channel, !.next = next].results = t.results
    BY <1>1
  <1> QED BY <1>2, <1>3, <1>4, <1>5, <1>6, <1>7

\* Before the results are recorded all calls of the batch are open.
LEMMA AllOpen ==
    ASSUME pc \in {"call", "dispatch"}, tools'.calls = tools.calls PROVE Open' \subseteq Open
  <1>1. Open = {tools.calls[i] : i \in DOMAIN tools.calls}
    BY DEF Open, Working
  <1>2. pc' \in Working => Open' = {tools.calls[i] : i \in {j \in DOMAIN tools.calls :
                                                  pc' = "results" => j >= tools'.next}}
    BY DEF Open
  <1>3. pc' \notin Working => Open' = {}
    BY DEF Open
  <1> QED BY <1>1, <1>2, <1>3

\* What has been returned stays so when these parts do not change.
LEMMA ReturnedSame ==
    ASSUME NEW t, NEW u, NEW p, Returned(t, p), u.results = t.results, u.allowed = t.allowed,
           u.running = t.running
    PROVE  Returned(u, p)
  BY DEF Returned

\* A step without calls under way.
LEMMA OpensCalm == ASSUME ToolInv, Calm PROVE Opens
  <1>1. pc' \notin Working /\ ghost'.calls = ghost.calls /\ ghost.calls \in Nat
    BY DEF Calm, ToolInv, Working
  <1>2. Open' = {}
    BY <1>1 DEF Open
  <1> QED BY <1>1, <1>2 DEF Opens

\* A hook allows or blocks a call.
LEMMA OpensCall ==
    ASSUME Work, Shape, ToolInv, MovedInv, CallAllowed \/ CallBlocked PROVE Opens
  <1>1. /\ pc = "call" /\ pc' \in {"call", "dispatch"}
        /\ ghost.calls \in Nat /\ Returned(tools, "call")
    BY DEF CallAllowed, CallBlocked, AfterCallHook, ToolInv, MovedInv, Working
  <1>2. ghost'.calls = ghost.calls
    <2>1. ghost' = [ghost EXCEPT !.loose = ghost.loose \cup {Call}]
      BY DEF CallAllowed, CallBlocked
    <2> QED BY <2>1, LooseIs
  <1>3. CASE CallAllowed
    <2> DEFINE u == [tools EXCEPT !.next = tools.next + 1, !.allowed = tools.allowed \cup {Call},
                                  !.running = tools.running \cup {Call}]
    <2>1. tools' = u
      BY <1>3 DEF CallAllowed
    <2>2. ToolsAre(tools, u, tools.next + 1, tools.allowed \cup {Call}, tools.running \cup {Call},
                   tools.channel)
      BY ToolsUpdates DEF Work
    <2>3. u.results = tools.results
      BY ResultsUpdates DEF Work
    <2> HIDE DEF u
    <2>4. /\ u.calls = tools.calls /\ u.allowed = tools.allowed \cup {Call}
          /\ u.running = tools.running \cup {Call}
      BY <2>2 DEF ToolsAre
    <2>5. Open' \subseteq Open
      BY <1>1, <2>1, <2>4, AllOpen
    <2>6. tools.results = <<>> /\ tools.running = tools.allowed /\ DOMAIN tools.results = {}
      BY <1>1 DEF Returned
    <2>7. Returned(u, pc')
      BY <1>1, <2>3, <2>4, <2>6 DEF Returned
    <2> QED BY <1>1, <1>2, <2>1, <2>5, <2>7 DEF Opens
  <1>4. CASE CallBlocked
    <2> DEFINE u == [tools EXCEPT !.next = tools.next + 1]
    <2>1. tools' = u
      BY <1>4 DEF CallBlocked
    <2>2. ToolsAre(tools, u, tools.next + 1, tools.allowed, tools.running, tools.channel)
      BY ToolsUpdates DEF Work
    <2>3. u.results = tools.results
      BY ResultsUpdates DEF Work
    <2> HIDE DEF u
    <2>4. u.calls = tools.calls /\ u.allowed = tools.allowed /\ u.running = tools.running
      BY <2>2 DEF ToolsAre
    <2>5. Open' \subseteq Open
      BY <1>1, <2>1, <2>4, AllOpen
    <2>6. Returned(tools, pc')
      BY <1>1 DEF Returned
    <2>7. Returned(u, pc')
      BY <2>3, <2>4, <2>6, ReturnedSame
    <2> QED BY <1>1, <1>2, <2>1, <2>5, <2>7 DEF Opens
  <1> QED BY <1>3, <1>4

\* A tool sends output, or its output is received.
LEMMA OpensOutput ==
    ASSUME Work, ToolInv, MovedInv, ToolSends \/ DeltaReceived PROVE Opens
  <1>1. /\ pc = "dispatch" /\ pc' = pc /\ ghost' = ghost
        /\ ghost.calls \in Nat /\ Returned(tools, "dispatch")
    BY DEF ToolSends, DeltaReceived, ToolInv, MovedInv, Working
  <1>2. \E channel : /\ IsList(channel)
                     /\ \/ tools' = [tools EXCEPT !.channel = channel, !.deltas = tools.deltas + 1]
                        \/ tools' = [tools EXCEPT !.channel = channel]
    <2>1. IsList(tools.channel)
      BY DEF Work, ToolsSound
    <2>2. CASE ToolSends
      <3>1. PICK call \in tools.running :
               tools' = [tools EXCEPT !.channel = Append(tools.channel, call),
                                      !.deltas = tools.deltas + 1]
        BY <2>2 DEF ToolSends
      <3>2. IsList(Append(tools.channel, call))
        BY <2>1, Appended
      <3> QED BY <3>1, <3>2
    <2>3. CASE DeltaReceived
      <3>1. tools.channel # <<>> /\ tools' = [tools EXCEPT !.channel = Tail(tools.channel)]
        BY <2>3 DEF DeltaReceived
      <3>2. IsList(Tail(tools.channel))
        BY <2>1, <3>1, TailOfList
      <3> QED BY <3>1, <3>2
    <2> QED BY <2>2, <2>3
  <1>3. PICK channel : /\ IsList(channel)
                       /\ \/ tools' = [tools EXCEPT !.channel = channel, !.deltas = tools.deltas + 1]
                          \/ tools' = [tools EXCEPT !.channel = channel]
    BY <1>2
  <1>4. ToolsAre(tools, tools', tools.next, tools.allowed, tools.running, channel)
    BY <1>3, ToolsUpdates DEF Work
  <1>5. tools'.results = tools.results
    <2>1. /\ [tools EXCEPT !.channel = channel, !.deltas = tools.deltas + 1].results = tools.results
          /\ [tools EXCEPT !.channel = channel].results = tools.results
      BY ResultsUpdates DEF Work
    <2> QED BY <1>3, <2>1
  <1>6. tools'.calls = tools.calls /\ tools'.allowed = tools.allowed /\ tools'.running = tools.running
    BY <1>4 DEF ToolsAre
  <1>7. Open' \subseteq Open
    BY <1>1, <1>6, AllOpen
  <1>8. Returned(tools', pc')
    BY <1>1, <1>5, <1>6, ReturnedSame
  <1> QED BY <1>1, <1>7, <1>8 DEF Opens

\* A tool returns, for the first time.
LEMMA OpensReturn ==
    ASSUME Work, ToolInv, MovedInv, NEW form \in Forms \cup {"error"}, ReturnsAs(form)
    PROVE  Opens
  <1>1. /\ pc = "dispatch" /\ pc' = pc /\ ghost' = ghost
        /\ ghost.calls \in Nat /\ Returned(tools, "dispatch") /\ tools.running \subseteq tools.allowed
    BY DEF ReturnsAs, ToolInv, MovedInv, Working, BatchOf
  <1>2. PICK call \in tools.running :
           tools' = [tools EXCEPT !.running = tools.running \ {call},
                                  !.results = Append(tools.results, [call |-> call, form |-> form])]
    BY DEF ReturnsAs
  <1> DEFINE r == [call |-> call, form |-> form]
             results == Append(tools.results, r)
             running == tools.running \ {call}
             u == [tools EXCEPT !.running = running, !.results = results]
  <1>3. tools' = u
    BY <1>2
  <1>4. ToolsAre(tools, u, tools.next, tools.allowed, running, tools.channel)
    BY ToolsUpdates DEF Work
  <1>5. u.results = results
    BY ResultsUpdates DEF Work
  <1>6. r.call = call /\ r.form = form
    OBVIOUS
  <1> HIDE DEF u, r
  <1>7. u.calls = tools.calls /\ u.allowed = tools.allowed /\ u.running = running
    BY <1>4 DEF ToolsAre
  <1>8. Open' \subseteq Open
    BY <1>1, <1>3, <1>7, AllOpen
  <1>9. /\ IsList(tools.results)
        /\ \A c \in tools.allowed : c \in tools.running \/ \E i \in DOMAIN tools.results : tools.results[i].call = c
        /\ \A i \in DOMAIN tools.results :
              /\ tools.results[i].call \in tools.allowed \ tools.running
              /\ tools.results[i].form \in Forms \cup {"error"}
              /\ \A j \in DOMAIN tools.results : tools.results[j].call = tools.results[i].call => j = i
    BY <1>1 DEF Returned
  <1>10. /\ IsList(results) /\ Len(tools.results) + 1 \notin DOMAIN tools.results
         /\ DOMAIN results = DOMAIN tools.results \cup {Len(tools.results) + 1}
         /\ \A i \in DOMAIN tools.results : results[i] = tools.results[i]
         /\ results[Len(tools.results) + 1] = r
    BY <1>9, OneMore
  <1> HIDE DEF results
  <1>11. \A c \in tools.allowed : c \in running \/ \E i \in DOMAIN results : results[i].call = c
    BY <1>6, <1>9, <1>10
  <1>12. \A i \in DOMAIN results : /\ results[i].call \in tools.allowed \ running
                                   /\ results[i].form \in Forms \cup {"error"}
    BY <1>1, <1>6, <1>9, <1>10
  <1>13. \A i, j \in DOMAIN results : results[j].call = results[i].call => j = i
    <2>1. \A i \in DOMAIN tools.results : tools.results[i].call # call
      BY <1>9
    <2> QED BY <1>6, <1>9, <1>10, <2>1
  <1>14. Returned(u, "dispatch")
    BY <1>5, <1>7, <1>10, <1>11, <1>12, <1>13 DEF Returned
  <1> QED BY <1>1, <1>3, <1>8, <1>14 DEF Opens

\* When no tool has failed, all results have come as results do.
LEMMA NoErrorForms ==
    ASSUME MovedInv, pc = "dispatch", ~SomeFailed
    PROVE  \A i \in DOMAIN tools.results : tools.results[i].form \in Forms
  BY DEF MovedInv, Returned, Working, SomeFailed, Range

\* All tools have returned.
LEMMA OpensAllReturned == ASSUME Work, ToolInv, MovedInv, AllReturned PROVE Opens
  <1>1. /\ pc = "dispatch" /\ ghost' = ghost /\ ghost.calls \in Nat /\ Returned(tools, "dispatch")
        /\ tools.running = {}
        /\ pc' \in {"turn_end", "idle", "results"}
        /\ pc' = "results" => ~SomeFailed
    BY DEF AllReturned, FinalizeAfter, ToolInv, MovedInv, Working
  <1> DEFINE u == [tools EXCEPT !.channel = <<>>, !.next = 1]
  <1>2. tools' = u
    BY DEF AllReturned
  <1>3. ToolsAre(tools, u, 1, tools.allowed, tools.running, <<>>)
    BY ToolsUpdates, EmptyUrgent DEF Work, Urgent
  <1>4. u.results = tools.results
    BY ResultsUpdates DEF Work
  <1> HIDE DEF u
  <1>5. u.calls = tools.calls /\ u.allowed = tools.allowed /\ u.running = tools.running
    BY <1>3 DEF ToolsAre
  <1>6. Open' \subseteq Open
    BY <1>1, <1>2, <1>5, AllOpen
  <1>7. pc' = "results" => Returned(u, "results")
    <2> SUFFICES ASSUME pc' = "results" PROVE Returned(u, "results")
      OBVIOUS
    <2>1. \A i \in DOMAIN tools.results : tools.results[i].form \in Forms
      BY <1>1, NoErrorForms
    <2>2. Returned(tools, "results")
      BY <1>1, <2>1 DEF Returned
    <2> QED BY <1>4, <1>5, <2>2, ReturnedSame
  <1> QED BY <1>1, <1>2, <1>6, <1>7 DEF Opens, Working

\* A result is recorded.
LEMMA OpensRecorded == ASSUME Work, Shape, ToolInv, MovedInv, ResultRecorded PROVE Opens
  <1>1. /\ pc = "results" /\ pc' = pc /\ tools.next <= Len(tools.calls)
        /\ ghost.calls \in Nat /\ Returned(tools, "results") /\ ToolsSound(tools)
        /\ tools' = [tools EXCEPT !.next = @ + 1]
    BY DEF ResultRecorded, ToolInv, MovedInv, Working, Work
  <1>2. ghost'.calls = ghost.calls
    <2>1. ghost' = [ghost EXCEPT !.loose = IF Call \in tools.allowed THEN ghost.loose \ {Call}
                                           ELSE ghost.loose]
      BY DEF ResultRecorded
    <2> QED BY <2>1, LooseIs
  <1>3. Open' \subseteq Open
    BY <1>1, ResultOpen
  <1> DEFINE u == [tools EXCEPT !.next = tools.next + 1]
  <1>4. tools' = u
    BY <1>1
  <1>5. ToolsAre(tools, u, tools.next + 1, tools.allowed, tools.running, tools.channel)
    BY ToolsUpdates DEF Work
  <1>6. u.results = tools.results
    BY ResultsUpdates DEF Work
  <1> HIDE DEF u
  <1>7. u.allowed = tools.allowed /\ u.running = tools.running
    BY <1>5 DEF ToolsAre
  <1>8. Returned(u, "results")
    BY <1>1, <1>6, <1>7, ReturnedSame
  <1> QED BY <1>1, <1>2, <1>3, <1>4, <1>8 DEF Opens

\* The calls of a reply are new.
LEMMA OpensReply == ASSUME Shape, ToolInv, ReplyTools PROVE Opens
  <1>0. PICK n \in 1..MaxBatch : \E used \in [1..n -> Tools] :
           LET calls == [k \in 1..n |-> [id |-> ghost.calls + k, tool |-> used[k]]]
               text == ghost.calls + exec.replies + 1
           IN  /\ Replied(n)
               /\ IF surface.tools
                  THEN /\ pc' = "call"
                       /\ tools' = [NoTools EXCEPT !.calls = calls]
                  ELSE Completed("Completed", <<AssistantFinal(text)>>)
    BY DEF ReplyTools
  <1>1. PICK used \in [1..n -> Tools] :
           LET calls == [k \in 1..n |-> [id |-> ghost.calls + k, tool |-> used[k]]]
               text == ghost.calls + exec.replies + 1
           IN  /\ Replied(n)
               /\ IF surface.tools
                  THEN /\ pc' = "call"
                       /\ tools' = [NoTools EXCEPT !.calls = calls]
                  ELSE Completed("Completed", <<AssistantFinal(text)>>)
    BY <1>0
  <1> DEFINE calls == [k \in 1..n |-> [id |-> ghost.calls + k, tool |-> used[k]]]
  <1>2. /\ Replied(n)
        /\ pc' = "turn_end" \/ (pc' = "call" /\ tools' = [NoTools EXCEPT !.calls = calls])
    BY <1>1 DEF Completed
  <1>3. n \in Nat /\ n >= 1 /\ ghost.calls \in Nat
    <2>1. MaxBatch \in Nat
      BY LoopSettings
    <2> QED BY <2>1 DEF ToolInv
  <1>4. ghost'.calls = ghost.calls + n
    BY <1>2, <1>3, RepliedIs
  <1>5. DOMAIN calls = 1..n /\ \A k \in 1..n : calls[k].id = ghost.calls + k
    OBVIOUS
  <1> HIDE DEF calls
  <1>6. \A k \in DOMAIN calls : calls[k].id \notin 1..ghost.calls
    BY <1>3, <1>5
  <1>7. CASE pc' = "turn_end"
    <2>1. Open' = {} /\ pc' \notin Working
      BY <1>7 DEF Open, Working
    <2> QED BY <1>3, <1>4, <2>1 DEF Opens
  <1>8. CASE pc' = "call" /\ tools' = [NoTools EXCEPT !.calls = calls]
    <2>1. tools' = [calls |-> calls, next |-> 1, allowed |-> {}, running |-> {},
                    results |-> <<>>, channel |-> <<>>, deltas |-> 0]
      BY <1>8 DEF NoTools
    <2>2. tools'.calls = calls /\ tools'.allowed = {} /\ tools'.running = {} /\ tools'.results = <<>>
      BY <2>1
    <2>3. Open' = {calls[i] : i \in DOMAIN calls}
      BY <1>8, <2>2 DEF Open, Working
    <2>4. \A call \in Open' : call.id \notin 1..ghost.calls
      BY <1>6, <2>3
    <2>5. IsList(<<>>) /\ DOMAIN <<>> = {}
      BY Single
    <2>6. Returned(tools', "call")
      BY <2>2, <2>5 DEF Returned
    <2> QED BY <1>3, <1>4, <1>8, <2>4, <2>6 DEF Opens
  <1> QED BY <1>2, <1>7, <1>8

-----------------------------------------------------------------------------
\* The passes keep the results, and those moved stay so.

\* The place of a result that is the k-th largest is one of those it is among.
LEMMA LargestIn ==
    ASSUME NEW ms, IsList(ms), NEW S \in SUBSET DOMAIN ms, \A i \in S : MessageWeight(ms[i]) \in Nat
    PROVE  /\ Cardinality(S) \in Nat /\ DOMAIN LargestFirst(ms, S) = 1..Cardinality(S)
           /\ \A k \in 1..Cardinality(S) : LargestFirst(ms, S)[k] \in S
  <1> DEFINE W(i) == MessageWeight(ms[i])
             Upto(i) == {j \in S : Larger(ms, j, i)}
             f == [i \in S |-> Cardinality(Upto(i))]
  <1>1. IsFiniteSet(S) /\ Cardinality(S) \in Nat /\ \A i \in S : i \in Nat
    <2>1. IsFiniteSet(DOMAIN ms) /\ DOMAIN ms = 1..Len(ms) /\ Len(ms) \in Nat
      BY ListIs
    <2> QED BY <2>1, FS_Subset, FS_CardinalityType
  <1>2. \A i, j \in S : Larger(ms, j, i) <=> W(j) > W(i) \/ (W(j) = W(i) /\ j <= i)
    BY DEF Larger
  <1>3. \A i \in S : W(i) \in Nat
    OBVIOUS
  <1> HIDE DEF W
  <1>4. ASSUME NEW i \in S
        PROVE  /\ IsFiniteSet(Upto(i)) /\ Cardinality(Upto(i)) \in 1..Cardinality(S)
               /\ i \in Upto(i)
    <2>1. Upto(i) \in SUBSET S
      OBVIOUS
    <2>2. i \in Upto(i)
      BY <1>1, <1>2, <1>3
    <2> HIDE DEF Upto
    <2>3. IsFiniteSet(Upto(i)) /\ Cardinality(Upto(i)) \in Nat /\ Cardinality(Upto(i)) <= Cardinality(S)
      BY <1>1, <2>1, FS_Subset, FS_CardinalityType
    <2>4. Cardinality(Upto(i)) # 0
      BY <2>2, <2>3, FS_EmptySet
    <2> QED BY <1>1, <2>2, <2>3, <2>4
  <1>5. ASSUME NEW i \in S, NEW j \in S, Cardinality(Upto(i)) = Cardinality(Upto(j)), Larger(ms, i, j)
        PROVE  i = j
    <2>1. Upto(i) \subseteq Upto(j)
      <3> SUFFICES ASSUME NEW x \in S, Larger(ms, x, i) PROVE Larger(ms, x, j)
        OBVIOUS
      <3>1. /\ W(x) > W(i) \/ (W(x) = W(i) /\ x <= i)
            /\ W(i) > W(j) \/ (W(i) = W(j) /\ i <= j)
        BY <1>2, <1>5
      <3>2. /\ W(x) \in Nat /\ W(i) \in Nat /\ W(j) \in Nat
            /\ x \in Nat /\ i \in Nat /\ j \in Nat
        BY <1>1, <1>3
      <3>3. W(x) > W(j) \/ (W(x) = W(j) /\ x <= j)
        BY <3>1, <3>2
      <3> QED BY <1>2, <3>3
    <2>2. IsFiniteSet(Upto(j)) /\ j \in Upto(j)
      BY <1>4
    <2> HIDE DEF Upto
    <2>3. Upto(i) = Upto(j)
      BY <1>5, <2>1, <2>2, FS_Subset
    <2>4. j \in Upto(i)
      BY <2>2, <2>3
    <2>5. Larger(ms, j, i)
      BY <2>4 DEF Upto
    <2>6. /\ W(j) > W(i) \/ (W(j) = W(i) /\ j <= i)
          /\ W(i) > W(j) \/ (W(i) = W(j) /\ i <= j)
      BY <1>2, <1>5, <2>5
    <2>7. W(i) \in Nat /\ W(j) \in Nat /\ i \in Nat /\ j \in Nat
      BY <1>1, <1>3
    <2> QED BY <2>6, <2>7
  <1>6. \A i, j \in S : Larger(ms, i, j) \/ Larger(ms, j, i)
    <2> SUFFICES ASSUME NEW i \in S, NEW j \in S PROVE Larger(ms, i, j) \/ Larger(ms, j, i)
      OBVIOUS
    <2>1. W(i) \in Nat /\ W(j) \in Nat /\ i \in Nat /\ j \in Nat
      BY <1>1, <1>3
    <2> QED BY <1>2, <2>1
  <1>7. \A i, j \in S : Cardinality(Upto(i)) = Cardinality(Upto(j)) => i = j
    <2> HIDE DEF Upto
    <2> QED BY <1>5, <1>6
  <1>8. \A i \in S : f[i] = Cardinality(Upto(i)) /\ f[i] \in 1..Cardinality(S)
    <2> HIDE DEF Upto
    <2> QED BY <1>4
  <1>9. f \in [S -> 1..Cardinality(S)]
    BY <1>8
  <1>10. \A k \in 1..Cardinality(S) : LargestFirst(ms, S)[k] = CHOOSE i \in S : Cardinality(Upto(i)) = k
    BY DEF LargestFirst
  <1>11. DOMAIN LargestFirst(ms, S) = 1..Cardinality(S)
    BY DEF LargestFirst
  <1> HIDE DEF Upto, f
  <1>12. f \in Injection(S, 1..Cardinality(S))
    BY <1>7, <1>8, <1>9 DEF Injection, IsInjective
  <1>13. IsFiniteSet(1..Cardinality(S)) /\ Cardinality(1..Cardinality(S)) = Cardinality(S)
    BY <1>1, FS_Interval
  <1>14. f \in Surjection(S, 1..Cardinality(S))
    BY <1>1, <1>12, <1>13, FS_Injection
  <1>15. \A k \in 1..Cardinality(S) : \E i \in S : f[i] = k
    BY <1>14 DEF Surjection
  <1>16. \A k \in 1..Cardinality(S) : \E i \in S : Cardinality(Upto(i)) = k
    BY <1>8, <1>15
  <1> QED BY <1>1, <1>10, <1>11, <1>16

\* The results that are moved now are of the trailing batch.
LEMMA PersistedIn ==
    ASSUME NEW ms, IsList(ms), \A i \in DOMAIN ms : IsTool(ms[i]) => ms[i].form \in DOMAIN Weight,
           NEW calls, NEW frozen
    PROVE  \A k \in DOMAIN PersistedNow(ms, calls, frozen) :
              \E i \in TrailingBatch(ms) : /\ IsTool(ms[i])
                                           /\ PersistedNow(ms, calls, frozen)[k] = ms[i].call
  <1> DEFINE fresh == FreshResults(ms, calls, frozen)
             order == LargestFirst(ms, fresh)
             now == PersistedNow(ms, calls, frozen)
  <1>1. DOMAIN ms = 1..Len(ms) /\ Len(ms) \in Nat
    BY ListIs
  <1>2. \A i \in TrailingBatch(ms) : i \in DOMAIN ms /\ IsTool(ms[i])
    BY <1>1 DEF TrailingBatch
  <1>3. fresh \subseteq TrailingBatch(ms) /\ fresh \in SUBSET DOMAIN ms
    BY <1>2 DEF FreshResults
  <1>4. \E S \in SUBSET DOMAIN order :
           /\ DOMAIN now = 1..Cardinality(S)
           /\ \A k \in DOMAIN now : now[k] = ms[order[k]].call
    BY DEF PersistedNow
  <1>5. PICK S \in SUBSET DOMAIN order :
           /\ DOMAIN now = 1..Cardinality(S)
           /\ \A k \in DOMAIN now : now[k] = ms[order[k]].call
    BY <1>4
  <1> HIDE DEF order, fresh, now
  <1>6. \A i \in fresh : MessageWeight(ms[i]) \in Nat
    <2>1. \A form \in DOMAIN Weight : Weight[form] \in Nat
      BY DEF Weight
    <2> QED BY <1>2, <1>3, <2>1 DEF MessageWeight
  <1>7. /\ Cardinality(fresh) \in Nat /\ DOMAIN order = 1..Cardinality(fresh)
        /\ \A k \in 1..Cardinality(fresh) : order[k] \in fresh
    BY <1>3, <1>6, LargestIn DEF order
  <1>8. Cardinality(S) \in Nat /\ Cardinality(S) <= Cardinality(fresh)
    <2>1. IsFiniteSet(DOMAIN order) /\ Cardinality(DOMAIN order) = Cardinality(fresh)
      BY <1>7, FS_Interval
    <2> QED BY <2>1, FS_Subset, FS_CardinalityType
  <1>9. ASSUME NEW k \in DOMAIN now
        PROVE  \E i \in TrailingBatch(ms) : IsTool(ms[i]) /\ now[k] = ms[i].call
    <2>1. k \in 1..Cardinality(fresh)
      BY <1>5, <1>7, <1>8
    <2>2. order[k] \in TrailingBatch(ms)
      BY <1>3, <1>7, <2>1
    <2> QED BY <1>2, <1>5, <2>2
  <1> QED BY <1>9 DEF now

\* A result with another form.
LEMMA ReformedForm ==
    ASSUME NEW m, IsMessage(m), IsTool(m), NEW form PROVE Reform(m, form).form = form
  <1>1. Reform(m, form) = ToolMsg(m.call, form)
    BY Reformed
  <1> QED BY <1>1, MessageFields

\* The references of earlier requests, and those of this one, are put in place.
LEMMA ReappliedKept ==
    ASSUME NEW ms, NEW n, NEW moved, NEW open, Kept(ms, n, moved, Short, open), NEW calls,
           \A call \in calls : call \in moved \/ \E i \in TrailingBatch(ms) : IsTool(ms[i]) /\ ms[i].call = call
    PROVE  Kept(Reapplied(ms, calls), n, moved \cup calls, Short, open)
  <1> DEFINE b == Reapplied(ms, calls)
  <1>1. Messages(ms) /\ DOMAIN ms = 1..Len(ms) /\ Len(ms) \in Nat
    BY ListIs DEF Kept, Messages
  <1>2. Alike(ms, b)
    BY <1>1, ReappliedAlike
  <1>3. \A i \in DOMAIN ms :
           b[i] = IF i \in TrailingBatch(ms) /\ ms[i].call \in calls THEN Reform(ms[i], "persisted") ELSE ms[i]
    BY DEF Reapplied, Reform
  <1>4. "persisted" \in DOMAIN Weight /\ "persisted" \in Short /\ TrailingBatch(ms) \subseteq DOMAIN ms
    BY DEF Weight, Short, TrailingBatch
  <1> HIDE DEF b
  <1>5. ASSUME NEW i \in DOMAIN ms, IsTool(ms[i])
        PROVE  b[i].form \in DOMAIN Weight /\ (ms[i].call \in moved \cup calls => b[i].form \in Short)
    <2>1. ms[i].form \in DOMAIN Weight /\ (ms[i].call \in moved => ms[i].form \in Short)
      BY <1>5 DEF Kept, ResultFits
    <2>2. CASE i \in TrailingBatch(ms) /\ ms[i].call \in calls
      <3>1. IsMessage(ms[i])
        BY <1>1 DEF Messages
      <3>2. b[i].form = "persisted"
        BY <1>3, <1>5, <2>2, <3>1, ReformedForm
      <3> QED BY <1>4, <3>2
    <2>3. CASE ~(i \in TrailingBatch(ms) /\ ms[i].call \in calls)
      <3>1. b[i] = ms[i]
        BY <1>3, <2>3
      <3>2. ms[i].call \in calls => ms[i].call \in moved
        <4> SUFFICES ASSUME ms[i].call \in calls, ms[i].call \notin moved PROVE FALSE
          OBVIOUS
        <4>1. PICK j \in TrailingBatch(ms) : IsTool(ms[j]) /\ ms[j].call = ms[i].call
          OBVIOUS
        <4>2. j = i
          BY <1>4, <1>5, <4>1 DEF Kept
        <4> QED BY <2>3, <4>1, <4>2
      <3> QED BY <2>1, <3>1, <3>2
    <2> QED BY <2>2, <2>3
  <1>6. Kept(b, n, moved \cup calls, Short, open)
    BY <1>2, <1>5, KeptAlike
  <1> QED BY <1>6 DEF b

\* The micro compaction.
LEMMA IdleKept ==
    ASSUME NEW ms, NEW n, NEW moved, NEW open, Kept(ms, n, moved, Short, open), NEW micro
    PROVE  Kept(ApplyIfIdle(micro, ms), n, moved, Short, open)
  <1> DEFINE b == ApplyIfIdle(micro, ms)
             tracked == RetainLive(micro, ms).tracked
             stale == {tracked[k].call : k \in {j \in 1..(Len(tracked) - KeepResults) :
                          /\ tracked[j].old
                          /\ tracked[j].call \in CallsNamed(ms)
                          /\ Clearable(tracked[j].call)}}
  <1>1. Messages(ms)
    BY DEF Kept
  <1>2. Alike(ms, b)
    BY <1>1, IdleAlike
  <1>3. b = IF micro.activity # "stale" THEN ms
            ELSE [i \in DOMAIN ms |-> IF IsTool(ms[i]) /\ ms[i].call \in stale
                                      THEN Reform(ms[i], "micro") ELSE ms[i]]
    BY DEF ApplyIfIdle, Reform
  <1> HIDE DEF b, tracked, stale
  <1>4. \A i \in DOMAIN ms : b[i] = ms[i] \/ b[i] = Reform(ms[i], "micro")
    BY <1>3
  <1>5. "micro" \in DOMAIN Weight /\ "micro" \in Short
    BY DEF Weight, Short
  <1>6. ASSUME NEW i \in DOMAIN ms, IsTool(ms[i])
        PROVE  b[i].form \in DOMAIN Weight /\ (ms[i].call \in moved => b[i].form \in Short)
    <2>1. ms[i].form \in DOMAIN Weight /\ (ms[i].call \in moved => ms[i].form \in Short)
      BY <1>6 DEF Kept, ResultFits
    <2>2. IsMessage(ms[i])
      BY <1>1 DEF Messages
    <2>3. Reform(ms[i], "micro").form = "micro"
      BY <1>6, <2>2, ReformedForm
    <2> QED BY <1>4, <1>5, <2>1, <2>3
  <1>7. Kept(b, n, moved, Short, open)
    BY <1>2, <1>6, KeptAlike
  <1> QED BY <1>7 DEF b

\* The prune pass: a short text is not cut.
LEMMA PruneKept ==
    ASSUME NEW ms, NEW n, NEW moved, NEW open, Kept(ms, n, moved, Short, open)
    PROVE  Kept(ApplyPrune(ms), n, moved, Short, open)
  <1> DEFINE b == ApplyPrune(ms)
  <1>1. Messages(ms)
    BY DEF Kept
  <1>2. Alike(ms, b)
    BY <1>1, PruneAlike
  <1>3. ASSUME NEW i \in DOMAIN ms, IsTool(ms[i])
        PROVE  b[i].form \in DOMAIN Weight /\ (ms[i].call \in moved => b[i].form \in Short)
    <2> DEFINE m == ms[i]
               old == i < RecentTurnStart(ms, AtLeast1(KeepTurns))
               named == CallsNamed(ms)
    <2>1. b[i] = Pruned(m, old, named)
      BY DEF ApplyPrune
    <2>2. m.form \in DOMAIN Weight /\ (m.call \in moved => m.form \in Short) /\ IsMessage(m) /\ IsTool(m)
      BY <1>1, <1>3 DEF Kept, ResultFits, Messages
    <2> HIDE DEF b, m, old, named
    <2>3. \/ Pruned(m, old, named) = m
          \/ Pruned(m, old, named) = Reform(m, "cleared")
          \/ Weight[m.form] > ResultMax /\ Pruned(m, old, named) = Reform(m, "truncated")
      BY DEF Pruned, Reform
    <2>4. Reform(m, "cleared").form = "cleared" /\ Reform(m, "truncated").form = "truncated"
      BY <2>2, ReformedForm
    <2>5. {"cleared", "truncated"} \subseteq DOMAIN Weight /\ "cleared" \in Short
      BY DEF Weight, Short
    <2>6. \A form \in Short : ~(Weight[form] > ResultMax)
      <3>1. ResultMax \in Nat /\ ResultMax >= 1
        BY ContextSettings
      <3>2. \A form \in Short : Weight[form] = 1
        BY DEF Short, Weight
      <3> QED BY <3>1, <3>2
    <2>7. b[i].form \in DOMAIN Weight /\ (m.call \in moved => b[i].form \in Short)
      BY <2>1, <2>2, <2>3, <2>4, <2>5, <2>6
    <2> QED BY <2>7 DEF m
  <1> HIDE DEF b
  <1>4. Kept(b, n, moved, Short, open)
    BY <1>2, <1>3, KeptAlike
  <1> QED BY <1>4 DEF b

\* The references that are noted are of the calls whose results are moved.
LEMMA NotedCalls ==
    ASSUME NEW now
    PROVE  References([k \in DOMAIN now |-> ReferenceApplied(now[k])]) = Range(now)
  <1> DEFINE q == [k \in DOMAIN now |-> ReferenceApplied(now[k])]
  <1>1. DOMAIN q = DOMAIN now
        /\ \A k \in DOMAIN q : q[k].type = "ToolResultReferenceApplied" /\ q[k].call = now[k]
    BY DEF ReferenceApplied
  <1> HIDE DEF q
  <1>2. \A x : x \in References(q) <=> \E k \in DOMAIN q : q[k].call = x
    BY <1>1 DEF References
  <1>3. \A x : x \in Range(now) <=> \E k \in DOMAIN now : now[k] = x
    BY DEF Range
  <1>4. References(q) = Range(now)
    BY <1>1, <1>2, <1>3
  <1> QED BY <1>4 DEF q

\* The assembly of a request.
LEMMA AssembleMoved ==
    ASSUME SinkInv, Work, ToolInv, MovedInv, "replaced" \in DOMAIN exec, Assemble PROVE MovedInv'
  <1> DEFINE Changes(ms, now, fitted) ==
               exec' = [exec EXCEPT !.replaced = @ \cup Range(now),
                                    !.frozen = Frozen(ms, exec.replaced, @, now),
                                    !.micro = RetainLive(@, fitted)]
             Ends(now, messages) ==
               /\ Push([k \in DOMAIN now |-> ReferenceApplied(now[k])])
               /\ IF ShouldCompact(messages) /\ AutoCompact
                  THEN /\ pc' = "before_compact"
                       /\ comp' = [NoCompaction EXCEPT !.source = messages]
                       /\ UNCHANGED live
                  ELSE /\ pc' = "before_provider"
                       /\ live' = messages
                       /\ UNCHANGED comp
  <1>0. \E stores \in BOOLEAN :
        \E ms \in {Reapplied(live, exec.replaced)} :
        \E now \in {IF stores THEN PersistedNow(ms, exec.replaced, exec.frozen) ELSE <<>>} :
        \E fitted \in {Reapplied(ms, Range(now))} :
        \E idle \in {ApplyIfIdle(exec.micro, fitted)} :
        \E messages \in {ApplyPrune(idle)} :
           Changes(ms, now, fitted) /\ Ends(now, messages)
    BY Zenon DEF Assemble
  <1> HIDE DEF Changes, Ends
  <1>1. PICK stores, ms, now, fitted, idle, messages :
            /\ ms = Reapplied(live, exec.replaced)
            /\ now = IF stores THEN PersistedNow(ms, exec.replaced, exec.frozen) ELSE <<>>
            /\ fitted = Reapplied(ms, Range(now))
            /\ idle = ApplyIfIdle(exec.micro, fitted)
            /\ messages = ApplyPrune(idle)
            /\ Changes(ms, now, fitted) /\ Ends(now, messages)
    BY <1>0
  <1>2. ghost' = ghost /\ pc = "assemble" /\ ghost.calls \in Nat
    BY DEF Assemble, ToolInv
  <1> DEFINE events == [k \in DOMAIN now |-> ReferenceApplied(now[k])]
             n == ghost.calls
             moved == exec.replaced
             all == moved \cup Range(now)
  <1>3. Kept(live, n, moved, Short, Open)
    BY <1>2 DEF MovedInv, InUse, Comps
  <1>4. Kept(ms, n, moved, Short, Open)
    <2>1. Kept(Reapplied(live, moved), n, moved \cup moved, Short, Open)
      BY <1>3, ReappliedKept
    <2>2. moved \cup moved = moved
      OBVIOUS
    <2> QED BY <1>1, <2>1, <2>2
  <1>5. /\ IsList(now)
        /\ \A call \in Range(now) : \E i \in TrailingBatch(ms) : IsTool(ms[i]) /\ ms[i].call = call
    <2>1. IsList(ms) /\ \A i \in DOMAIN ms : IsTool(ms[i]) => ms[i].form \in DOMAIN Weight
      BY <1>4 DEF Kept, Messages, ResultFits
    <2>2. IsList(now) /\ \A k \in DOMAIN now : \E i \in TrailingBatch(ms) : IsTool(ms[i]) /\ now[k] = ms[i].call
      <3>1. CASE stores
        <4>1. now = PersistedNow(ms, exec.replaced, exec.frozen)
          BY <1>1, <3>1
        <4> QED BY <2>1, <4>1, PersistedIn, PersistedList
      <3>2. CASE ~stores
        <4>1. now = <<>>
          BY <1>1, <3>2
        <4> QED BY <4>1, Single
      <3> QED BY <3>1, <3>2
    <2> QED BY <2>2 DEF Range
  <1>6. Kept(messages, n, all, Short, Open)
    <2>1. Kept(fitted, n, all, Short, Open)
      BY <1>1, <1>4, <1>5, ReappliedKept
    <2> HIDE DEF all, n
    <2>2. Kept(idle, n, all, Short, Open)
      BY <1>1, <2>1, IdleKept
    <2> QED BY <1>1, <2>2, PruneKept
  <1>7. Plain(events) /\ References(events) = Range(now)
    BY <1>5, PlainEvents, NotedCalls
  <1>8. Push(events) /\ pc' \in {"before_compact", "before_provider"}
        /\ (\/ pc' = "before_compact" /\ comp'.source = messages
            \/ pc' = "before_provider" /\ live' = messages)
    BY <1>1 DEF Ends, NoCompaction
  <1>9. exec'.replaced = all
    BY <1>1 DEF Changes
  <1>10. \A call \in Range(now) : call.id \in 1..n
    <2>1. \A i \in TrailingBatch(ms) : i \in DOMAIN ms
      BY DEF TrailingBatch
    <2> QED BY <1>4, <1>5, <2>1 DEF Kept, ResultFits
  <1>11. Open' = {} /\ pc' \notin Working
    BY <1>8 DEF Open, Working
  <1>12. Urgent(<<>>) /\ Speech(<<>>, events) /\ Closing(<<>>, n, replaced, {})
    BY <1>8, EmptyUrgent, Single DEF Speech, Closing
  <1>13. {} \in SUBSET Open /\ Open \ {} = Open
    OBVIOUS
  <1> HIDE DEF events, all
  <1>14. /\ pc' \notin Comps \cup {"idle"} => Kept(live', n, exec'.replaced, Short, Open \ {})
         /\ pc' \in Comps => Kept(comp'.source, n, exec'.replaced, Short, Open \ {})
         /\ pc' \notin {"fit", "summarise"}
    BY <1>6, <1>8, <1>9, <1>13 DEF Comps
  <1>15. exec'.replaced = exec.replaced \cup References(events)
    BY <1>7, <1>9 DEF all
  <1>16. \A call \in References(events) : call.id \in 1..n /\ call \notin Open'
    BY <1>7, <1>10, <1>11
  <1>17. /\ ghost'.calls \in Nat /\ ghost.calls <= ghost'.calls
         /\ \A call \in Open' : call \in Open \ {} \/ call.id \notin 1..ghost.calls
         /\ pc' \in Working => Returned(tools', pc')
    BY <1>2, <1>11
  <1> QED BY <1>2, <1>7, <1>12, <1>13, <1>14, <1>15, <1>16, <1>17, PassesMoved

\* A step without calls under way whose events move nothing.
LEMMA RestsMoved ==
    ASSUME MovedInv, SinkInv, ToolInv, exec'.replaced = exec.replaced, pc' \notin Working,
           ghost'.calls = ghost.calls,
           NEW events, Plain(events), Speech(<<>>, events), References(events) = {},
           pc' \notin Comps \cup {"idle"} => Kept(live', ghost.calls, exec.replaced, Short, Open),
           pc' \in Comps => Kept(comp'.source, ghost.calls, exec.replaced, Short, Open),
           pc' \in {"fit", "summarise"} => Kept(comp'.suffix, ghost.calls, exec.replaced, Short, Open)
    PROVE  MovedInv'
  <1>1. Urgent(<<>>) /\ Closing(<<>>, ghost.calls, replaced, {})
    BY EmptyUrgent, Single DEF Closing
  <1>2. Open' = {} /\ {} \in SUBSET Open /\ Open \ {} = Open
    BY DEF Open
  <1>3. /\ ghost.calls \in Nat /\ ghost'.calls \in Nat /\ ghost.calls <= ghost'.calls
        /\ exec'.replaced = exec.replaced \cup References(events)
        /\ \A call \in References(events) : call.id \in 1..ghost.calls /\ call \notin Open'
        /\ \A call \in Open' : call \in Open \ {} \/ call.id \notin 1..ghost.calls
        /\ pc' \in Working => Returned(tools', pc')
    BY <1>2 DEF ToolInv
  <1>4. /\ pc' \notin Comps \cup {"idle"} => Kept(live', ghost.calls, exec'.replaced, Short, Open \ {})
        /\ pc' \in Comps => Kept(comp'.source, ghost.calls, exec'.replaced, Short, Open \ {})
        /\ pc' \in {"fit", "summarise"} => Kept(comp'.suffix, ghost.calls, exec'.replaced, Short, Open \ {})
    BY <1>2
  <1> QED BY <1>1, <1>2, <1>3, <1>4, PassesMoved

\* Events that move nothing.
LEMMA MovesNone ==
    /\ Plain(<<>>) /\ References(<<>>) = {}
    /\ \A events : Tame(events) => References(events) = {}
    /\ \A preserved \in Nat : \A removed : References(<<CompactApplied(preserved, removed)>>) = {}
  <1>1. Plain(<<>>) /\ ProperList(<<>>)
    BY EmptyUrgent DEF Plain
  <1>2. References(<<>>) = {}
    BY <1>1, MovedJoined
  <1>3. \A events : Tame(events) => References(events) = {}
    BY <1>1, MovedJoined DEF Tame, Plain
  <1>4. ASSUME NEW preserved \in Nat, NEW removed
        PROVE  References(<<CompactApplied(preserved, removed)>>) = {}
    <2> DEFINE e == CompactApplied(preserved, removed)
               q == <<e>>
    <2>1. e.type = "CompactApplied"
      BY DEF CompactApplied
    <2>2. DOMAIN q = {1} /\ q[1] = e
      BY Single
    <2> HIDE DEF e, q
    <2>3. References(q) = {}
      BY <2>1, <2>2 DEF References
    <2> QED BY <2>3 DEF q, e
  <1> QED BY <1>2, <1>1, <1>3, <1>4

\* The turn ends with an error.
LEMMA FailMoved ==
    ASSUME MovedInv, SinkInv, ToolInv, Fail(<<>>), UNCHANGED <<exec, ghost>> PROVE MovedInv'
  <1>1. Utters(<<>>, <<>>) /\ pc' = "idle"
    BY TameEvents, OutcomeUtters DEF Fail, FinalizeTurn, FinalizeAfter
  <1>2. PICK all : Tame(all) /\ Speech(<<>>, all)
    BY <1>1 DEF Utters
  <1>3. Plain(all) /\ References(all) = {}
    BY <1>2, MovesNone DEF Tame
  <1>4. pc' \notin Working /\ pc' \notin Comps
    BY <1>1 DEF Working, Comps
  <1> QED BY <1>1, <1>2, <1>3, <1>4, RestsMoved

\* A step that tells the sink nothing.
LEMMA StillMoved ==
    ASSUME MovedInv, SinkInv, ToolInv, exec'.replaced = exec.replaced, pc' \notin Working,
           ghost'.calls = ghost.calls, UNCHANGED <<pending, sinkVars>>,
           pc' \notin Comps \cup {"idle"} => Kept(live', ghost.calls, exec.replaced, Short, Open),
           pc' \in Comps => Kept(comp'.source, ghost.calls, exec.replaced, Short, Open),
           pc' \in {"fit", "summarise"} => Kept(comp'.suffix, ghost.calls, exec.replaced, Short, Open)
    PROVE  MovedInv'
  <1>1. Speech(<<>>, <<>>)
    BY DEF Speech
  <1> QED BY <1>1, MovesNone, RestsMoved

\* What a compaction by the model keeps of the results.
LEMMA CompactedKept ==
    ASSUME NEW users, IsList(users), NEW suffix, NEW n, NEW moved, NEW forms, NEW open,
           Kept(suffix, n, moved, forms, open), NEW keep, NEW digest
    PROVE  Kept(CompactedMessages(users, keep, suffix, digest), n, moved, forms, open)
  <1> DEFINE again == {o \in DOMAIN suffix :
                         /\ IsRealUser(suffix[o])
                         /\ \E k \in DOMAIN users : users[k].index = keep + o - 1}
             first == IF digest THEN <<UserMsg("RecentUserContextDigest", 0)>> ELSE <<>>
             recent == [k \in DOMAIN users |-> UserMsg("RecentUserContext", users[k].n)]
             K == DOMAIN suffix \ again
             rest == Selected(suffix, K)
             head == <<Summary>> \o first
             front == head \o recent
             Plainly(ms) == Messages(ms) /\ \A i \in DOMAIN ms : ~IsTool(ms[i])
  <1>1. CompactedMessages(users, keep, suffix, digest) = front \o rest
    BY DEF CompactedMessages
  <1>2. Plainly(<<Summary>>) /\ Plainly(first)
    <2>1. \A m : IsMessage(m) /\ ~IsTool(m) => Plainly(<<m>>)
      BY TellsSingle, Single
    <2>2. Plainly(<<>>)
      BY TellsSingle, Single
    <2>3. IsMessage(Summary) /\ ~IsTool(Summary)
      BY MessageFields DEF Summary
    <2> HIDE DEF Plainly
    <2> QED BY <2>1, <2>2, <2>3, MessageFields
  <1>3. Plainly(recent)
    <2>1. DOMAIN recent = DOMAIN users /\ recent = [k \in DOMAIN recent |-> recent[k]]
          /\ \A k \in DOMAIN recent : recent[k] = UserMsg("RecentUserContext", users[k].n)
      OBVIOUS
    <2> HIDE DEF recent
    <2> QED BY <2>1, SameDomain, MessageFields DEF Messages
  <1>4. Kept(rest, n, moved, forms, open)
    <2>1. K \in SUBSET DOMAIN suffix
      OBVIOUS
    <2> HIDE DEF K
    <2> QED BY <2>1, KeptSelected
  <1>5. \A a, b : Plainly(a) /\ Plainly(b) => Plainly(a \o b)
    <2> SUFFICES ASSUME NEW a, NEW b, Plainly(a), Plainly(b) PROVE Plainly(a \o b)
      OBVIOUS
    <2>1. Messages(a \o b) /\ IsList(a) /\ IsList(b)
      BY TellsJoined DEF Messages
    <2> DEFINE c == a \o b
    <2>2. \A k \in DOMAIN c : \/ k \in DOMAIN a /\ c[k] = a[k]
                              \/ \E j \in DOMAIN b : c[k] = b[j]
      BY <2>1, Elements
    <2> HIDE DEF c
    <2>3. \A k \in DOMAIN c : ~IsTool(c[k])
      BY <2>2
    <2> QED BY <2>1, <2>3 DEF c
  <1> HIDE DEF first, recent, rest, Plainly
  <1>6. Plainly(front)
    BY <1>2, <1>3, <1>5
  <1> HIDE DEF head, front
  <1>7. Kept(front \o rest, n, moved, forms, open)
    BY <1>4, <1>6, KeptJoined DEF Plainly
  <1> QED BY <1>1, <1>7

\* A compaction is put in place of the messages.
LEMMA CompactedMoved ==
    ASSUME MovedInv, SinkInv, ToolInv, NEW messages, NEW preserved \in Nat, NEW removed,
           Compacted(messages, preserved, removed), UNCHANGED exec, ghost'.calls = ghost.calls,
           Kept(messages, ghost.calls, exec.replaced, Short, Open)
    PROVE  MovedInv'
  <1> DEFINE events == <<CompactApplied(preserved, removed)>>
  <1>1. Continued(events) \/ (pc' = "before_provider" /\ Push(events))
    BY DEF Compacted
  <1>2. Plain(events) /\ References(events) = {}
    BY PlainEvents, MovesNone
  <1> HIDE DEF events
  <1>3. Speech(<<>>, events) /\ pc' \in {"context", "before_provider"}
    BY <1>1 DEF Speech, Continued
  <1>4. \E found \in {FALSE, exec.reads} :
           live' = messages \o (IF found THEN <<UserMsg("ReactivationPrompt", 0)>> ELSE <<>>)
    BY DEF Compacted
  <1>5. PICK found : live' = messages \o (IF found THEN <<UserMsg("ReactivationPrompt", 0)>> ELSE <<>>)
    BY <1>4
  <1> DEFINE q == IF found THEN <<UserMsg("ReactivationPrompt", 0)>> ELSE <<>>
  <1>6. Messages(q) /\ \A i \in DOMAIN q : ~IsTool(q[i])
    <2> DEFINE m == UserMsg("ReactivationPrompt", 0)
    <2>1. IsMessage(m) /\ ~IsTool(m)
      BY MessageFields
    <2> HIDE DEF m
    <2>2. /\ Messages(<<m>>) /\ \A i \in DOMAIN <<m>> : ~IsTool(<<m>>[i])
          /\ Messages(<<>>) /\ DOMAIN <<>> = {}
      BY <2>1, TellsSingle, Single
    <2>3. q = <<m>> \/ q = <<>>
      BY DEF m
    <2> HIDE DEF q
    <2> QED BY <2>2, <2>3
  <1> HIDE DEF q
  <1>7. Kept(live', ghost.calls, exec.replaced, Short, Open)
    <2>1. live' = messages \o q
      BY <1>5 DEF q
    <2> QED BY <1>6, <2>1, KeptJoined
  <1>8. pc' \notin Working /\ pc' \notin Comps
    BY <1>3 DEF Working, Comps
  <1> QED BY <1>2, <1>3, <1>7, <1>8, RestsMoved

\* The request goes on with the messages that were to be compacted.
LEMMA NotCompactedMoved ==
    ASSUME MovedInv, SinkInv, ToolInv, pc \in Comps, NotCompacted, UNCHANGED <<exec, comp, ghost>>
    PROVE  MovedInv'
  <1>1. CASE comp.reactive
    BY <1>1, FailMoved DEF NotCompacted
  <1>2. CASE ~comp.reactive
    <2>1. pc' = "before_provider" /\ live' = comp.source /\ UNCHANGED <<pending, sinkVars>>
      BY <1>2 DEF NotCompacted
    <2>2. Kept(live', ghost.calls, exec.replaced, Short, Open)
      BY <2>1 DEF MovedInv, InUse
    <2>3. pc' \notin Working /\ pc' \notin Comps
      BY <2>1 DEF Working, Comps
    <2> QED BY <2>1, <2>2, <2>3, StillMoved
  <1> QED BY <1>1, <1>2

\* The steps of a compaction.
LEMMA CompactionMoved ==
    ASSUME SinkInv, Work, Shape, ToolInv, MovedInv, Compaction PROVE MovedInv'
  <1> DEFINE Stay(ms) == Kept(ms, ghost.calls, exec.replaced, Short, Open)
  <1>1. /\ UNCHANGED <<exec, turn>> /\ pc \in Comps
    BY DEF Compaction, BeforeCompact, CompactHookCancels, CompactHookSummarises,
           CompactHookFails, Trim, Summarised, SummaryViolatesContract, SummaryTooLong,
           SummaryFails, Comps, hostVars
  <1>2. pc' \notin Working /\ ghost'.calls = ghost.calls /\ CompSound(comp)
    BY CompactionCalm DEF Calm, Working, Work
  <1>3. /\ Stay(comp.source) /\ IsList(comp.source)
        /\ pc \in {"fit", "summarise"} => Stay(comp.suffix)
    BY <1>1 DEF MovedInv, InUse, Work, CompSound
  <1> HIDE DEF Stay
  <1>4. ASSUME UNCHANGED <<pending, sinkVars>>, pc' \in {"fit", "summarise"},
               comp'.source = comp.source, Stay(comp'.suffix)
        PROVE  MovedInv'
    <2>1. pc' \in Comps
      BY <1>4 DEF Comps
    <2>2. exec'.replaced = exec.replaced /\ Stay(comp'.source)
      BY <1>1, <1>3, <1>4
    <2> QED BY <1>2, <1>4, <2>1, <2>2, StillMoved DEF Stay
  <1>5. CASE BeforeCompact
    <2> DEFINE keep == KeepStart(comp.source)
               u == SubSeq(comp.source, 1, keep - 1)
               v == SubSeq(comp.source, keep, Len(comp.source))
    <2>1. UNCHANGED ghost
          /\ (\/ NotCompacted /\ UNCHANGED comp
              \/ /\ pc' = "fit" /\ UNCHANGED <<live, pending, sinkVars>> /\ keep # 0
                 /\ comp' = [comp EXCEPT !.prefix = u, !.suffix = v, !.keep = keep])
      BY <1>5 DEF BeforeCompact
    <2>2. CASE NotCompacted /\ UNCHANGED comp
      BY <1>1, <2>1, <2>2, NotCompactedMoved
    <2>3. CASE /\ pc' = "fit" /\ UNCHANGED <<live, pending, sinkVars>> /\ keep # 0
               /\ comp' = [comp EXCEPT !.prefix = u, !.suffix = v, !.keep = keep]
      <3>1. keep \in 1..Len(comp.source) /\ Len(comp.source) \in Nat
        BY <1>3, <2>3, KeepStartIn, ListIs
      <3>2. keep \in 1..(Len(comp.source) + 1)
        BY <3>1
      <3>3. Stay(v)
        BY <1>3, <3>2, KeptTail DEF Stay
      <3> HIDE DEF keep, u, v
      <3>4. comp'.source = comp.source /\ comp'.suffix = v
        BY <1>2, <2>3, CompFields
      <3> QED BY <1>4, <2>3, <3>3, <3>4
    <2> QED BY <2>1, <2>2, <2>3
  <1>6. CASE CompactHookCancels
    BY <1>1, <1>6, NotCompactedMoved DEF CompactHookCancels
  <1>7. CASE CompactHookSummarises
    <2>1. Compacted(<<Summary>>, 0, Len(comp.source))
      BY <1>7 DEF CompactHookSummarises
    <2>2. Stay(<<Summary>>)
      <3>1. IsMessage(Summary) /\ ~IsTool(Summary)
        BY MessageFields DEF Summary
      <3>2. Messages(<<Summary>>) /\ \A i \in DOMAIN <<Summary>> : ~IsTool(<<Summary>>[i])
        BY <3>1, TellsSingle, Single
      <3> QED BY <3>2 DEF Stay, Kept
    <2> QED BY <1>1, <1>2, <2>1, <2>2, CompactedMoved DEF Stay
  <1>8. CASE CompactHookFails \/ SummaryFails
    <2>1. Fail(<<>>) /\ UNCHANGED <<exec, ghost>>
      BY <1>8 DEF CompactHookFails, SummaryFails
    <2> QED BY <2>1, FailMoved
  <1>9. CASE Trim
    <2>1. pc = "fit" /\ UNCHANGED <<live, ghost>>
          /\ (\/ Fail(<<>>) /\ UNCHANGED comp
              \/ pc' = "summarise" /\ UNCHANGED <<comp, pending, sinkVars>>
              \/ /\ comp' = [comp EXCEPT !.prefix = DropOldestUnit(comp.prefix)]
                 /\ UNCHANGED <<pc, pending, sinkVars>>)
      BY <1>9 DEF Trim
    <2>2. CASE Fail(<<>>)
      BY <1>1, <2>1, <2>2, FailMoved
    <2>3. CASE pc' = "summarise" /\ UNCHANGED <<comp, pending, sinkVars>>
      BY <1>3, <1>4, <2>1, <2>3
    <2>4. CASE /\ comp' = [comp EXCEPT !.prefix = DropOldestUnit(comp.prefix)]
               /\ UNCHANGED <<pc, pending, sinkVars>>
      <3>1. comp'.source = comp.source /\ comp'.suffix = comp.suffix
        BY <1>2, <2>4, CompFields
      <3> QED BY <1>3, <1>4, <2>1, <2>4, <3>1
    <2> QED BY <2>1, <2>2, <2>3, <2>4
  <1>10. CASE Summarised
    <2>1. PICK digest \in BOOLEAN :
             Compacted(CompactedMessages(RecentUsers(comp.source), comp.keep, comp.suffix, digest),
                       PreservedTurns, comp.keep - 1)
      BY <1>10 DEF Summarised
    <2>2. pc = "summarise"
      BY <1>10 DEF Summarised
    <2> DEFINE messages == CompactedMessages(RecentUsers(comp.source), comp.keep, comp.suffix, digest)
    <2>3. Stay(messages)
      BY <1>3, <2>2, RecentUsersList, CompactedKept DEF Stay
    <2> HIDE DEF messages
    <2>4. Compacted(messages, PreservedTurns, comp.keep - 1)
      BY <2>1 DEF messages
    <2> QED BY <1>1, <1>2, <2>3, <2>4, CompactedMoved, PreservedIs DEF Stay
  <1>11. CASE SummaryViolatesContract
    <2>1. /\ pc = "summarise" /\ pc' = "fit" /\ UNCHANGED <<live, pending, sinkVars, ghost>>
          /\ comp' = [comp EXCEPT !.contract = comp.contract + 1]
      BY <1>11 DEF SummaryViolatesContract
    <2>2. comp'.source = comp.source /\ comp'.suffix = comp.suffix
      BY <1>2, <2>1, CompFields
    <2> QED BY <1>3, <1>4, <2>1, <2>2
  <1>12. CASE SummaryTooLong
    <2> DEFINE u == comp.salvage + 1
               v == DropOldestUnit(comp.prefix)
               w == Len(DropOldestUnit(comp.prefix)) + 1
    <2>1. pc = "summarise" /\ UNCHANGED <<live, ghost>>
          /\ (\/ /\ pc' = "fit" /\ UNCHANGED <<pending, sinkVars>>
                 /\ comp' = [comp EXCEPT !.salvage = u, !.prefix = v, !.keep = w]
              \/ Fail(<<>>) /\ UNCHANGED comp)
      BY <1>12 DEF SummaryTooLong
    <2>2. CASE /\ pc' = "fit" /\ UNCHANGED <<pending, sinkVars>>
               /\ comp' = [comp EXCEPT !.salvage = u, !.prefix = v, !.keep = w]
      <3> HIDE DEF u, v, w
      <3>1. comp'.source = comp.source /\ comp'.suffix = comp.suffix
        BY <1>2, <2>2, CompFields
      <3> QED BY <1>3, <1>4, <2>1, <2>2, <3>1
    <2>3. CASE Fail(<<>>)
      BY <1>1, <2>1, <2>3, FailMoved
    <2> QED BY <2>1, <2>2, <2>3
  <1> QED BY <1>5, <1>6, <1>7, <1>8, <1>9, <1>10, <1>11, <1>12 DEF Compaction

\* The request was too long, and what was sent is to be compacted.
LEMMA TooLongMoved ==
    ASSUME SinkInv, ToolInv, MovedInv, "replaced" \in DOMAIN exec, ReplyTooLong, ~Fail(<<>>)
    PROVE  MovedInv'
  <1>1. /\ pc = "generate" /\ pc' = "before_compact"
        /\ UNCHANGED <<live, ghost, pending, sinkVars>>
        /\ comp' = [NoCompaction EXCEPT !.source = live, !.reactive = TRUE]
        /\ exec' = [exec EXCEPT !.attempts = @ + 1]
    BY DEF ReplyTooLong
  <1>2. comp'.source = live /\ exec'.replaced = exec.replaced
    BY <1>1 DEF NoCompaction
  <1>3. Kept(comp'.source, ghost.calls, exec.replaced, Short, Open)
    BY <1>1, <1>2 DEF MovedInv, InUse, Comps
  <1>4. pc' \notin Working /\ pc' \in Comps /\ pc' \notin {"fit", "summarise"} /\ ghost'.calls = ghost.calls
    BY <1>1 DEF Working, Comps
  <1> QED BY <1>1, <1>2, <1>3, <1>4, StillMoved

-----------------------------------------------------------------------------
\* The invariant holds.

\* The session begins without results.
LEMMA MovedInit == ASSUME Init PROVE MovedInv
  <1>1. /\ pc = "idle" /\ pending = <<>> /\ replaced = {} /\ proj = EmptyProjector
        /\ exec = NewContext(<<>>, FALSE)
    BY DEF Init
  <1>2. proj.messages = <<>> /\ exec.replaced = {}
    BY <1>1 DEF EmptyProjector, NewContext
  <1>3. Messages(<<>>) /\ DOMAIN <<>> = {}
    BY Single, TellsSingle
  <1>4. Kept(proj.messages, ghost.calls, replaced, Stored, Open)
    BY <1>2, <1>3 DEF Kept
  <1>5. References(pending) = {}
    BY <1>1, MovesNone
  <1> QED BY <1>1, <1>2, <1>4, <1>5 DEF MovedInv, Comps, Working

\* A turn begins with the results the projector has, those of the log that are
\* moved being in files.
LEMMA NewTurnMoved ==
    ASSUME SinkInv, HeardInv, Shape, ToolInv, MovedInv, NewTurn PROVE MovedInv'
  <1> DEFINE e == UserEvent("User", turn + 1)
             m == UserMsg("User", turn + 1)
             f == FlushPending(proj)
             n == ghost.calls
  <1>1. /\ proj' = ApplyEvent(proj, e) /\ live' = Append(f.messages, m)
        /\ pc = "idle" /\ pending' = <<>> /\ pc' = "turn_start" /\ replaced' = replaced
        /\ ghost' = [ghost EXCEPT !["compacted"] = 0]
    BY DEF NewTurn, Snapshot
  <1>2. exec'.replaced = replaced
    <2>1. PICK gap \in BOOLEAN : exec' = NewContext(live', gap)
      BY DEF NewTurn
    <2> QED BY <2>1 DEF NewContext
  <1>3. ghost'.calls = n /\ n \in Nat
    BY <1>1 DEF Shape, GhostFields, ToolInv
  <1>4. /\ e.type = "UserMessage" /\ Proper(e) /\ Moves(e) = {}
        /\ IsMessage(m) /\ ~IsTool(m)
    BY MessageFields DEF UserEvent, Proper, Moves
  <1>5. ProjSound(proj) /\ Kept(proj.messages, n, replaced, Stored, Open)
    BY DEF SinkInv, MovedInv
  <1>6. Kept(f.messages, n, replaced, Stored, Open)
    BY <1>5, FlushKept
  <1>7. References(pending) = {} /\ References(pending') = {}
    <2>1. pending = <<>>
      BY <1>1 DEF HeardInv
    <2> QED BY <1>1, <2>1, MovesNone
  <1>8. Open' = {} /\ pc' \notin Working /\ pc' \notin Comps
    BY <1>1 DEF Open, Working, Comps
  <1> HIDE DEF e, m, f
  <1>9. Kept(proj'.messages, n, replaced, Stored, Open')
    <2> DEFINE q == ApplyEvent(proj, e)
    <2>1. Kept(q.messages, n, replaced \cup Moves(e), Stored, Open \ {})
      <3>1. {} \in SUBSET Open
        OBVIOUS
      <3> HIDE DEF n
      <3> QED BY <1>3, <1>4, <1>5, <3>1, ApplyKept
    <2> HIDE DEF q
    <2>2. replaced \cup Moves(e) = replaced /\ Open \ {} = Open'
      BY <1>1, <1>4, <1>8 DEF Open, Working
    <2>3. proj' = q
      BY <1>1 DEF q
    <2> QED BY <2>1, <2>2, <2>3
  <1>10. Kept(live', n, replaced, Short, Open')
    <2>1. Kept(live', n, replaced, Stored, Open)
      BY <1>1, <1>4, <1>6, KeptOneMore
    <2>2. Stored \subseteq Short /\ replaced \in SUBSET replaced /\ n <= n
          /\ \A call \in Open' : call \in Open \/ call.id \notin 1..n
      BY <1>3, <1>8 DEF Stored, Short
    <2> HIDE DEF n
    <2> QED BY <1>3, <2>1, <2>2, KeptWeaker
  <1>11. exec'.replaced \subseteq exec.replaced
    BY <1>2 DEF MovedInv
  <1>12. \A call \in exec'.replaced : call.id \in 1..ghost'.calls
    BY <1>3, <1>11 DEF MovedInv
  <1>13. exec'.replaced = replaced' \cup References(pending') /\ Open' \cap exec'.replaced = {}
    BY <1>1, <1>2, <1>7, <1>8
  <1>14. Kept(proj'.messages, ghost'.calls, replaced', Stored, Open')
    BY <1>1, <1>3, <1>9
  <1>15. Kept(live', ghost'.calls, exec'.replaced, Short, Open')
    BY <1>2, <1>3, <1>10
  <1>16. pc' \notin {"fit", "summarise"}
    BY <1>1
  <1> QED BY <1>8, <1>12, <1>13, <1>14, <1>15, <1>16 DEF MovedInv, InUse

\* Steps that change nothing of it.
LEMMA MovedSame ==
    ASSUME MovedInv, UNCHANGED <<pc, live, exec, pending, proj, replaced, comp, tools, ghost>>
    PROVE  MovedInv'
  <1>1. Open' = Open
    BY DEF Open
  <1> QED BY <1>1 DEF MovedInv, InUse

\* Every step keeps it.
LEMMA MovedKeeps == ASSUME LoopInv, HeardInv, MovedInv, Next PROVE MovedInv'
  <1>0. Shape /\ SinkInv /\ Work /\ ToolInv /\ Fields /\ "replaced" \in DOMAIN exec
    BY DEF LoopInv, HeardInv, Fields
  <1>1. CASE NewTurn
    BY <1>0, <1>1, NewTurnMoved
  <1>2. CASE Hooks
    <2>1. Says /\ Opens
      BY <1>0, <1>2, HooksSay, HooksCalm, OpensCalm
    <2> QED BY <1>0, <1>2, <2>1, SpeakingNow, SaysMoved
  <1>3. CASE Requests
    <2>1. CASE Assemble
      BY <1>0, <2>1, AssembleMoved
    <2>2. CASE ~Assemble
      <3>1. Says /\ Opens
        BY <1>0, <1>3, <2>2, RequestsSay, RequestsCalm, OpensCalm
      <3> QED BY <1>0, <1>3, <3>1, SpeakingNow, SaysMoved
    <2> QED BY <2>1, <2>2
  <1>4. CASE Compaction
    BY <1>0, <1>4, CompactionMoved
  <1>5. CASE Reply
    <2>1. CASE ReplyTooLong /\ ~Fail(<<>>)
      BY <1>0, <2>1, TooLongMoved
    <2>2. CASE ~ReplyTooLong \/ Fail(<<>>)
      <3>1. Says
        BY <1>0, <1>5, <2>2, RepliesSay
      <3>2. Opens
        BY <1>0, <1>5, ReplyCalm, OpensCalm, OpensReply
      <3> QED BY <1>0, <1>5, <3>1, <3>2, SpeakingNow, SaysMoved
    <2> QED BY <2>1, <2>2
  <1>6. CASE ToolCalls
    <2>1. Says
      BY <1>0, <1>6, ToolCallsSay
    <2>2. CASE CallStops \/ ResultHookStops \/ ToolCycleCompleted
      <3>1. Calm
        BY <1>0, <2>2, ToolsEndCalm
      <3>2. Opens
        BY <1>0, <3>1, OpensCalm
      <3> QED BY <1>0, <1>6, <2>1, <3>2, SpeakingNow, SaysMoved
    <2>3. CASE CallAllowed \/ CallBlocked
      <3>1. Opens
        BY <1>0, <2>3, OpensCall
      <3> QED BY <1>0, <1>6, <2>1, <3>1, SpeakingNow, SaysMoved
    <2>4. CASE ToolSends \/ DeltaReceived
      <3>1. Opens
        BY <1>0, <2>4, OpensOutput
      <3> QED BY <1>0, <1>6, <2>1, <3>1, SpeakingNow, SaysMoved
    <2>5. CASE \E form \in Forms \cup {"error"} : ReturnsAs(form)
      <3>1. Opens
        BY <1>0, <2>5, OpensReturn
      <3> QED BY <1>0, <1>6, <2>1, <3>1, SpeakingNow, SaysMoved
    <2>6. CASE AllReturned
      <3>1. Opens
        BY <1>0, <2>6, OpensAllReturned
      <3> QED BY <1>0, <1>6, <2>1, <3>1, SpeakingNow, SaysMoved
    <2>7. CASE ResultRecorded
      <3>1. Opens
        BY <1>0, <2>7, OpensRecorded
      <3> QED BY <1>0, <1>6, <2>1, <3>1, SpeakingNow, SaysMoved
    <2> QED BY <1>6, <2>2, <2>3, <2>4, <2>5, <2>6, <2>7 DEF ToolCalls
  <1>7. CASE Rest
    BY <1>7, MovedSame DEF Rest, vars
  <1> QED
    BY <1>1, <1>2, <1>3, <1>4, <1>5, <1>6, <1>7, GroupsCover DEF Next

\* What is sent has no moved result in full.
LEMMA MovedGives == ASSUME MovedInv PROVE ReplacedStays
  <1> SUFFICES ASSUME pc = "generate", NEW i \in DOMAIN live, IsTool(live[i]),
                      live[i].call \in replaced \cup exec.replaced
               PROVE  live[i].form \in {"persisted", "cleared", "micro"}
    BY DEF ReplacedStays
  <1>1. live[i].call \in exec.replaced
    BY DEF MovedInv
  <1>2. Kept(live, ghost.calls, exec.replaced, Short, Open)
    BY DEF MovedInv, InUse, Comps
  <1> QED BY <1>1, <1>2 DEF Kept, ResultFits, Short

\* A tool result that has been moved to a file is never sent in full again, in
\* this turn or a later one: whichever passes the request goes through and how
\* often, whether it is compacted, and whether the next turn begins from what the
\* projector rebuilt; for a reference that is noted but not stored yet too
\* (tool_result_budget.rs, micro_compact.rs and prune_pass.rs of context-window,
\* ToolResultReferenceApplied in the projector).
THEOREM ReplacedStaysHolds == Spec => []ReplacedStays
  <1>1. Init => HeardInv /\ MovedInv
    BY HeardInit, MovedInit
  <1>2. ASSUME LoopInv, HeardInv, MovedInv, [Next]_vars PROVE HeardInv' /\ MovedInv'
    <2>1. CASE UNCHANGED vars
      BY <1>2, <2>1, HeardSame, MovedSame DEF vars
    <2> QED BY <1>2, <2>1, HeardKeeps, MovedKeeps
  <1>3. MovedInv => ReplacedStays
    BY MovedGives
  <1> QED BY LoopIsSound, <1>1, <1>2, <1>3, PTL DEF Spec
=============================================================================
