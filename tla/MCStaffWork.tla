---------------------------- MODULE MCStaffWork ----------------------------
(***************************************************************************)
(* What staff work on besides the exams themselves: the marks of an        *)
(* attempt, and the question bank. The parts share no variable, so a       *)
(* behaviour follows one of them, the focus, while the others stay in      *)
(* their initial state: the sum of their state spaces is explored, not     *)
(* the product.                                                            *)
(***************************************************************************)
EXTENDS MCMarking, Topics, Levels, Periods, BankStaff, Questions

CONSTANT Parts   \* the parts to explore

VARIABLE focus

bankParts == <<topicVars, levelVars, periodVars, staffVars, itemVars>>

WorkInit ==
  /\ focus \in Parts
  /\ Init
  /\ focus # "marks" => DOMAIN marks = {}
  /\ TopicInit /\ LevelInit /\ PeriodInit /\ StaffInit /\ QuestionInit

BankNext ==
  \/ /\ focus = "topics" /\ TopicNext
     /\ UNCHANGED <<levelVars, periodVars, staffVars, itemVars>>
  \/ /\ focus = "levels" /\ LevelNext
     /\ UNCHANGED <<topicVars, periodVars, staffVars, itemVars>>
  \/ /\ focus = "periods" /\ PeriodNext
     /\ UNCHANGED <<topicVars, levelVars, staffVars, itemVars>>
  \/ /\ focus = "banks" /\ StaffNext
     /\ UNCHANGED <<topicVars, levelVars, periodVars, itemVars>>
  \/ /\ focus = "questions" /\ QuestionNext
     /\ UNCHANGED <<topicVars, levelVars, periodVars, staffVars>>

WorkNext ==
  /\ UNCHANGED focus
  /\ \/ focus = "marks" /\ Next /\ UNCHANGED bankParts
     \/ BankNext /\ UNCHANGED vars

WorkSpec == WorkInit /\ [][WorkNext]_<<focus, vars, bankParts>>

(* Every variable has its type. *)
WorkTypeOK ==
  /\ TypeOK
  /\ TopicTypeOK /\ LevelTypeOK /\ PeriodTypeOK /\ StaffTypeOK /\ QuestionTypeOK

Interchangeable == RequestSymmetry \union Permutations(PeriodIds)
=============================================================================
