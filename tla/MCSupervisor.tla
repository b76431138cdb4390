---------------------------- MODULE MCSupervisor ----------------------------
EXTENDS Supervisor, TLC
Symmetry == Permutations(Agent)
=============================================================================
