------------------------- MODULE MCConnectionActor -------------------------
EXTENDS ConnectionActor
=============================================================================
