--------------------------- MODULE MCExamSitting ---------------------------
EXTENDS ExamSitting, TLC

RequestSymmetry == Permutations(Requests)
=============================================================================
