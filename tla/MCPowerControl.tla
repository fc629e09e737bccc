--------------------------- MODULE MCPowerControl --------------------------
EXTENDS PowerControl, TLC
Symmetry == Permutations(Calls) \cup Permutations(Ops) \cup Permutations(Payloads)
=============================================================================
