-------------------------- MODULE DeliveryContract --------------------------
(***************************************************************************)
(* What the parent of a child agent is promised about the child's reports  *)
(* (openspec/specs/agent-delivery-contracts/spec.md): a report, once it is *)
(* written to the parent's session, stays open until a turn of the parent  *)
(* that was given it has succeeded, or until it is withdrawn because the   *)
(* parent is closed.                                                       *)
(***************************************************************************)
CONSTANT Reports

VARIABLES reported,  \* reports written to the parent's session
          open,      \* those not settled yet
          heard,     \* reports given to a turn of the parent that succeeded
          withdrawn  \* reports a close of the parent has withdrawn

vars == <<reported, open, heard, withdrawn>>

Init == reported = {} /\ open = {} /\ heard = {} /\ withdrawn = {}

Report(d) == /\ d \notin reported
             /\ reported' = reported \cup {d}
             /\ open' = open \cup ({d} \ withdrawn)
             /\ UNCHANGED <<heard, withdrawn>>

Hear == /\ heard \subseteq heard'
        /\ UNCHANGED <<reported, open, withdrawn>>

Settle(S) == /\ S \subseteq heard
             /\ open' = open \ S
             /\ UNCHANGED <<reported, heard, withdrawn>>

Withdraw(S) == /\ S \subseteq reported
               /\ withdrawn' = withdrawn \cup S
               /\ open' = open \ S
               /\ UNCHANGED <<reported, heard>>

Next == \/ \E d \in Reports : Report(d)
        \/ Hear
        \/ \E S \in SUBSET open : Settle(S)
        \/ \E S \in SUBSET reported : Withdraw(S)

Spec == Init /\ [][Next]_vars
=============================================================================
