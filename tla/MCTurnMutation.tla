--------------------------- MODULE MCTurnMutation ---------------------------
(* Two turns of one session, the second of a sub-agent, an interrupt and a   *)
(* compact request.                                                          *)
EXTENDS TurnMutation

CONSTANTS a, b, i, r

MCTurns == {a, b}
MCInputs == [t \in Turns |-> IF t = b THEN 2 ELSE 1]
MCSubRuns == {b}
MCInterrupts == {i}
MCRequests == {r}
=============================================================================
