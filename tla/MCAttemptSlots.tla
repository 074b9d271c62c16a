--------------------------- MODULE MCAttemptSlots ---------------------------
EXTENDS AttemptSlots, TLC

RequestSymmetry == Permutations(Requests)
=============================================================================
