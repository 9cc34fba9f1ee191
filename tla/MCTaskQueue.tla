---------------------------- MODULE MCTaskQueue ----------------------------
EXTENDS TaskQueue, TLC

Symmetry == Permutations(Task) \cup Permutations(Launch)
=============================================================================
