--------------------------- MODULE MCAgentControl ---------------------------
(* Four tool calls: two launches, the second perhaps below the first, then   *)
(* sends and closes of any order and target.                                 *)
EXTENDS AgentControl

MCKinds == [c \in Calls |-> CASE c = 1 -> {"launch"}
                              [] c = 2 -> {"launch", "send"}
                              [] c = 3 -> {"launch", "send", "close"}
                              [] OTHER -> {"send", "close"}]
=============================================================================
