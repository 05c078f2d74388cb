-------------------------- MODULE MCParentDelivery --------------------------
EXTENDS ParentDelivery
MCChild == [d \in Reports |-> IF d = 2 THEN 2 ELSE 1]
=============================================================================
