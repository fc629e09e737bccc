--------------------------- MODULE MCJobRegistry ---------------------------
EXTENDS JobRegistry, TLC
Symmetry == Permutations(Jobs) \cup Permutations(Ops)
=============================================================================
