--------------------------- MODULE MCExamWorkflow ---------------------------
EXTENDS ExamWorkflow, TLC

CONSTANTS q1, q2

MarksOf == q1 :> 1 @@ q2 :> 2

RequestSymmetry == Permutations(Requests)
=============================================================================
