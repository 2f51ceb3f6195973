------------------------------ MODULE MCEvents ------------------------------
EXTENDS EventsApi, TLC
Symmetry == Permutations(Writers)
=============================================================================
