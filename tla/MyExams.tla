------------------------------ MODULE MyExams ------------------------------
(***************************************************************************)
(* What a student finds on the lists of their exams: whether an exam is    *)
(* set for today or is past, and what its row offers, beside what start()  *)
(* does when the student takes the offer (exam_service.py                  *)
(* get_my_assignments, get_my_past_assignments; attempt_service.py start). *)
(*                                                                         *)
(* One student and one exam. Every request is one step here, for a list is *)
(* read at one moment; how requests interleave on the attempts is          *)
(* AttemptSlots. Time is counted in ticks fine enough to tell two starts   *)
(* apart, and a day has DayLength of them.                                 *)
(***************************************************************************)
EXTENDS Integers, Sequences, FiniteSets

CONSTANTS
  DayLength,   \* ticks in a day
  Horizon,     \* bound: the last tick
  TimeAllowed, \* the exam's duration and extra time
  Windows,     \* the opening and closing times staff may give the exam
  Limits,      \* the numbers of attempts staff may allow
  MaxTaken     \* bound: attempts of the student

Never == -1   \* no time
Ticks == 0..Horizon

ASSUME MyExamsAssumption ==
  /\ DayLength \in Nat \ {0} /\ TimeAllowed \in Nat /\ Horizon \in Nat
  /\ Windows \subseteq [start : Ticks \union {Never}, end : Ticks \union {Never}]
  /\ Limits \subseteq Nat

VARIABLES
  now,       \* the time
  window,    \* exam.start_time and exam.end_time
  moved,     \* assignment.scheduled_at and assignment.deadline_override
  allowed,   \* exam.max_attempts
  taken      \* the student's attempts on the exam

mineVars == <<now, window, moved, allowed, taken>>

Ongoing == {"started", "reset"}
Closed  == {"closed"}            \* submitted, scored or terminated

MineInit ==
  /\ now = 0
  /\ window \in Windows
  /\ moved = [start |-> Never, end |-> Never]
  /\ allowed \in Limits
  /\ taken = <<>>

Among(statuses) == {i \in DOMAIN taken : taken[i].status \in statuses}
LastBy(is, when) == CHOOSE i \in is : \A j \in is : when[j] <= when[i]
OrElse(a, b)     == IF a = Never THEN b ELSE a

StartedAt   == [i \in DOMAIN taken |-> taken[i].started]
SubmittedAt == [i \in DOMAIN taken |-> taken[i].submitted]

(* get_effective_window() *)
Opens  == OrElse(moved.start, window.start)
Closes == OrElse(moved.end, window.end)
InWindow == (Opens = Never \/ now >= Opens) /\ (Closes = Never \/ now <= Closes)

UsedUp == Cardinality(DOMAIN taken \ Among({"reset"}))
Limit  == IF allowed = 0 THEN 1 ELSE allowed

---------------------------------------------------------------------------
(* What start() would do now: go on with an attempt, give one that was     *)
(* reset another start, or begin a new one. Else it refuses.               *)

GoesOn(i)     == InWindow /\ i \in Among({"started"})
StartsOver(i) ==
  /\ InWindow
  /\ Among({"started"}) = {}
  /\ i \in Among({"reset"}) /\ i = LastBy(Among({"reset"}), StartedAt)
StartsNew     == InWindow /\ Among(Ongoing) = {} /\ UsedUp < Limit

StartAccepts == StartsNew \/ \E i \in DOMAIN taken : GoesOn(i) \/ StartsOver(i)

Fresh == [status |-> "started", started |-> now, submitted |-> Never]
NoTwoAtOnce == \A i \in DOMAIN taken : taken[i].started # now

StartAttempt ==
  /\ NoTwoAtOnce
  /\ \/ \E i \in DOMAIN taken : StartsOver(i) /\ taken' = [taken EXCEPT ![i] = Fresh]
     \/ StartsNew /\ Len(taken) < MaxTaken /\ taken' = Append(taken, Fresh)
  /\ UNCHANGED <<now, window, moved, allowed>>

(* _finalize_submission(): handed in now, or closed at a deadline that has *)
(* passed and is noticed now.                                              *)
Finish(i, at) ==
  /\ taken[i].status = "started"
  /\ at = now \/ at \in (taken[i].started + TimeAllowed)..now
  /\ taken' = [taken EXCEPT ![i].status = "closed", ![i].submitted = at]
  /\ UNCHANGED <<now, window, moved, allowed>>

(* Faulty variant, for a mutant: the reset attempt keeps when it was       *)
(* handed in.                                                              *)
ClearsStatus(t) == [t EXCEPT !.status = "reset"]

Clears(t) == [t EXCEPT !.status = "reset", !.submitted = Never]

(* reset_attempt(), with a new time for this student or without one        *)
ResetTo(i, when) ==
  /\ taken' = [taken EXCEPT ![i] = Clears(@)]
  /\ moved' = IF when = Never THEN moved ELSE [start |-> when, end |-> when + TimeAllowed]
  /\ UNCHANGED <<now, window, allowed>>

(* update() while the exam may be edited, and update_max_attempts()        *)
ChangeExam(w, n) ==
  /\ window' = w /\ allowed' = n
  /\ UNCHANGED <<now, moved, taken>>

MineTick ==
  /\ now < Horizon
  /\ now' = now + 1
  /\ UNCHANGED <<window, moved, allowed, taken>>

MineNext ==
  \/ StartAttempt
  \/ \E i \in DOMAIN taken, t \in Ticks : Finish(i, t)
  \/ \E i \in DOMAIN taken, t \in Ticks \union {Never} : ResetTo(i, t)
  \/ \E w \in Windows : ChangeExam(w, allowed)
  \/ \E n \in Limits : ChangeExam(window, n)
  \/ MineTick

MineSpec == MineInit /\ [][MineNext]_mineVars

---------------------------------------------------------------------------
(* What the row offers: _my_assignment_rows() *)

When == [i \in DOMAIN taken |-> OrElse(SubmittedAt[i], StartedAt[i])]

InProgress(i) ==
  \/ i \in Among({"started"})
  \/ Among({"started"}) = {} /\ i \in Among({"reset"}) /\ i = LastBy(Among({"reset"}), When)
Restart(i) == InProgress(i) /\ i \in Among({"reset"})
CanRetake  == Among(Closed) # {} /\ Among(Ongoing) = {} /\ UsedUp < Limit /\ InWindow
Untouched  == taken = <<>>

---------------------------------------------------------------------------
(* Which list it is on: day_bounds(), _my_day_conditions() *)

DayStart == (now \div DayLength) * DayLength
ThisDay  == DayStart..(DayStart + DayLength - 1)

ActiveToday ==
  Among(Ongoing) # {} \/ \E i \in DOMAIN taken : {StartedAt[i], SubmittedAt[i]} \intersect ThisDay # {}
DoneBefore ==
  /\ ~ ActiveToday
  /\ UsedUp >= allowed
  /\ Opens = Never \/ Opens < DayStart
TouchesDay ==
  /\ Opens = Never \/ Opens < DayStart + DayLength
  /\ Closes = Never \/ Closes >= DayStart

SetForToday == (TouchesDay \/ ActiveToday) /\ ~ DoneBefore
IsPast == ~ ActiveToday /\ ((Closes # Never /\ Closes < DayStart) \/ DoneBefore)

---------------------------------------------------------------------------
MineTypeOK ==
  /\ now \in Ticks
  /\ window \in Windows
  /\ moved \in [start : Ticks \union {Never}, end : Nat \union {Never}]
  /\ allowed \in Limits
  /\ taken \in Seq([status : Ongoing \union Closed, started : Ticks, submitted : Ticks \union {Never}])

(* The attempt a row names is the one start() gives, from its beginning    *)
(* only if the row says so, and a new one only where the row offers it.    *)
OffersKept ==
  /\ \A i \in DOMAIN taken :
       /\ InProgress(i) /\ InWindow <=> GoesOn(i) \/ StartsOver(i)
       /\ Restart(i) /\ InWindow <=> StartsOver(i)
  /\ CanRetake \/ (Untouched /\ InWindow) <=> StartsNew

(* What start() accepts now is on today's list, nothing is on both lists,  *)
(* and an exam on neither opens on a later day.                            *)
ListsKept ==
  /\ StartAccepts => SetForToday
  /\ ~ (SetForToday /\ IsPast)
  /\ ~ SetForToday /\ ~ IsPast => Opens >= DayStart + DayLength

(* Only staff bring an exam back that is past. *)
PastKept ==
  IsPast /\ UNCHANGED <<window, moved, allowed>> /\ Among({"reset"})' = {} => IsPast'

(* All this of every exam that allows an attempt at all (exam_service.py   *)
(* counts max_attempts = 0 as none on the lists, and start() as one).      *)
MyExamsKept == [][UNCHANGED mineVars \/ allowed = 0 \/ (OffersKept /\ ListsKept /\ PastKept)]_mineVars

=============================================================================
