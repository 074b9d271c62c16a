------------------------------ MODULE MCMarking ------------------------------
EXTENDS Marking, TLC

RequestSymmetry == Permutations(Requests)
=============================================================================
