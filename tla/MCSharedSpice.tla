--------------------------- MODULE MCSharedSpice ---------------------------
(* Small instances of SharedSpice and of its callers.                      *)
EXTENDS SharedSpiceClients, TLC

Symmetry == Permutations(BgThreads) \cup Permutations(CtThreads)
=============================================================================
