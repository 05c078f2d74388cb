-------------------------- MODULE MCBatchAppender --------------------------
(* Callers: x1 then x2 await one another, y appends on its own.              *)
EXTENDS BatchAppender

CONSTANTS x1, x2, y

MCThree == {x1, x2, y}
MCPrev == [e \in Events |-> IF e = x2 THEN x1 ELSE NoEvent]
=============================================================================
