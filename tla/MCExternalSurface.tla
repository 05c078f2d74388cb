-------------------------- MODULE MCExternalSurface --------------------------
(* One server of the project scope; two requests and the warm-up, two of     *)
(* which may overlap, so that the last may run alone after an overlap.       *)
EXTENDS ExternalSurface, TLC

MCVersions == 1..2
MCDeclarations == {NoConfig, [version |-> 1, enabled |-> FALSE],
                   [version |-> 2, enabled |-> TRUE]}
CallerSymmetry == Permutations(Callers)
=============================================================================
