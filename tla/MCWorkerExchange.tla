------------------------- MODULE MCWorkerExchange --------------------------
EXTENDS WorkerExchange, TLC
Symmetry == Permutations(Calls) \cup Permutations(Ops) \cup Permutations(Payloads)
=============================================================================
