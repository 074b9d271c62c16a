------------------------------ MODULE Sittings ------------------------------
(***************************************************************************)
(* What the attempt rows of one student on one exam promise, whoever asks: *)
(* the student sits the exam at most once at a time, and is never handed   *)
(* more attempts than the exam has allowed.  AttemptSlots implements it.   *)
(***************************************************************************)
EXTENDS Integers

VARIABLES
  sitting,  \* the student has an attempt in progress
  handed,   \* how many attempts have been handed out
  allowed   \* the most attempts the exam has ever allowed

view == <<sitting, handed, allowed>>

Init ==
  /\ sitting = FALSE
  /\ handed = 0
  /\ allowed \in Nat \ {0}

(* A new attempt, or one that staff gave back. *)
Sit ==
  /\ ~ sitting
  /\ sitting' = TRUE
  /\ handed' \in {handed, handed + 1}
  /\ handed' <= allowed
  /\ UNCHANGED allowed

(* Submitted, timed out, terminated or reset. *)
Leave ==
  /\ sitting
  /\ sitting' = FALSE
  /\ UNCHANGED <<handed, allowed>>

(* Staff may raise what is allowed; lowering takes nothing back. *)
Allow ==
  /\ allowed' \in Nat
  /\ allowed' > allowed
  /\ UNCHANGED <<sitting, handed>>

Next == Sit \/ Leave \/ Allow

Spec == Init /\ [][Next]_view
=============================================================================
