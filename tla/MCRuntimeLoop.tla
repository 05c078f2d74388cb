--------------------------- MODULE MCRuntimeLoop ---------------------------
EXTENDS RuntimeLoop

\* Tools are of no use to a turn without a model.
AnySurface == [provider : BOOLEAN, tools : BOOLEAN] \ {[provider |-> FALSE, tools |-> TRUE]}
=============================================================================
