--------------------------- MODULE MCSessionBranch ---------------------------
(* Two turns of the source, an interrupt that lets the task of the first one  *)
(* go on writing, and one prompt or fork after another that copies the log.   *)
EXTENDS SessionBranch

CONSTANTS a, b, i, c

MCTurns == {a, b}
MCInputs == [t \in Turns |-> 1]
MCSubRuns == {}
MCInterrupts == {i}
MCRequests == {}
MCCopies == {c}
=============================================================================
