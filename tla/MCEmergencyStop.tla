--------------------------- MODULE MCEmergencyStop -------------------------
EXTENDS EmergencyStop, TLC
Symmetry == Permutations(Threads)
=============================================================================
