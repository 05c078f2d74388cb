----------------------------- MODULE MCTurnLock -----------------------------
(* Three turns in two processes: a and b share one, so that a crash takes a  *)
(* holder and a contender together, and c contends from another process.     *)
EXTENDS TurnLock

CONSTANTS a, b, c, p, q

MCTurns == {a, b, c}
MCPids == {p, q}
MCPidOf == [t \in MCTurns |-> IF t = c THEN q ELSE p]
=============================================================================
