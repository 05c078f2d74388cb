------------------------------ MODULE Selection ------------------------------
(***************************************************************************)
(* What a filter leaves of a sequence (retain and filter of Rust), said    *)
(* by the places that are kept, so that it can be reasoned about.          *)
(***************************************************************************)
EXTENDS Naturals, FiniteSets

\* The elements of q at the places K, in their order.
Rank(K, k) == Cardinality({j \in K : j <= k})
Selected(q, K) == [i \in 1..Cardinality(K) |-> q[CHOOSE k \in K : Rank(K, k) = i]]
=============================================================================
