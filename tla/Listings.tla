----------------------------- MODULE Listings -----------------------------
(***************************************************************************)
(* What a member of staff finds on the lists of exams, questions and       *)
(* subjects, beside what they may open and change (exam_service.py         *)
(* _list_conditions, _phase_condition, _assert_can_view; item_service.py,  *)
(* scope_service.py, subject_service.py).                                  *)
(*                                                                         *)
(* One member of staff, one exam, one question of its subject. A list is   *)
(* read at one moment, so every request is one step here. The token grants *)
(* what its role granted when it was issued: the service looks nothing up  *)
(* (dependencies.py). Filters and pages are left out.                      *)
(***************************************************************************)
EXTENDS Permissions

CONSTANTS
  LastTick,    \* bound: the last moment
  ExamWindows  \* the opening and closing times an exam may have

Unset   == -1
Moments == 0..LastTick

ASSUME WindowsAssumption ==
  LastTick \in Nat /\ ExamWindows \subseteq [start : Moments \union {Unset}, end : Moments \union {Unset}]

VARIABLES
  clock,
  token,     \* what the token's permissions are
  itsExam,   \* its status and window, and whether this person created it
  onTeam,    \* the person is assigned to the subject
  bankGiven, \* and to the bank
  inBank     \* the question is in the bank

listVars == <<clock, token, itsExam, onTeam, bankGiven, inBank>>

Tokens    == GrantNames \ {"student"}
Unfinished == {"draft", "rejected"}
Running    == {"approved", "active"}
Statuses   == Unfinished \union Running \union {"pending", "closed", "archived"}

ListInit ==
  /\ clock = 0
  /\ token \in Tokens
  /\ itsExam \in [status : {"draft"}, window : ExamWindows, mine : BOOLEAN]
  /\ onTeam = FALSE /\ bankGiven = FALSE /\ inBank = FALSE

---------------------------------------------------------------------------
(* Access *)

(* current_user.reach() and can(): routes ask for any reach first. *)
ReachOf(p) == Effective[token][p]
HasPerm(p) == ReachOf(p) > 0

(* _assert_can_view() under a permission that the route has asked for *)
MayAct(p) ==
  /\ HasPerm(p)
  /\ itsExam.status = "draft" => HasPerm("exams.edit")
  /\ ReachOf(p) = AllReach \/ itsExam.mine \/ (ReachOf(p) # OwnReach /\ onTeam)

(* _assert_subject_access(), assert_bank_access() *)
OnSubject(p)   == HasPerm(p) /\ (ReachOf(p) = AllReach \/ onTeam)
MayQuestion(p) == OnSubject(p) /\ (inBank => ReachOf(p) = AllReach \/ bankGiven)

---------------------------------------------------------------------------
(* Lists *)

(* Faulty variant, for a mutant: only the reach decides. *)
DraftsToo == TRUE

DraftsFor == HasPerm("exams.edit") \/ itsExam.status # "draft"

(* _list_conditions() *)
ExamListed ==
  /\ DraftsFor
  /\ \/ ReachOf("exams.view") = OwnReach /\ itsExam.mine
     \/ ReachOf("exams.view") = AssignedReach /\ (itsExam.mine \/ onTeam)
     \/ ReachOf("exams.view") = AllReach

(* _phase_condition(): the phases whose condition the exam meets *)
InPhase(phase) ==
  LET opens == itsExam.window.start  closes == itsExam.window.end IN
  CASE phase = "drafts"   -> itsExam.status \in Unfinished
    [] phase = "upcoming" -> itsExam.status = "pending" \/ (itsExam.status \in Running /\ opens > clock)
    [] phase = "live"     -> /\ itsExam.status \in Running
                             /\ opens = Unset \/ opens <= clock
                             /\ closes = Unset \/ closes > clock
    [] phase = "past"     -> \/ itsExam.status \in {"closed", "archived"}
                             \/ itsExam.status \in Running /\ closes # Unset /\ closes <= clock

Phases == <<"drafts", "upcoming", "live", "past">>
PhasesOf == {n \in DOMAIN Phases : InPhase(Phases[n])}

(* allowed_bank_ids(), visible_items_condition(): "questions in no bank    *)
(* are always visible to anyone who can see the subject".                  *)
QuestionListed ==
  LET p == "questions.view" IN OnSubject(p) /\ (ReachOf(p) # AllReach => ~ inBank \/ bankGiven)

SubjectListed == HasPerm("subjects.view") /\ (ReachOf("subjects.view") # AllReach => onTeam)

---------------------------------------------------------------------------
(* What changes *)

SignIn(t) == token' = t /\ UNCHANGED <<clock, itsExam, onTeam, bankGiven, inBank>>

ListTick ==
  /\ clock < LastTick
  /\ clock' = clock + 1
  /\ UNCHANGED <<token, itsExam, onTeam, bankGiven, inBank>>

ExamChanges(x) == itsExam' = x /\ UNCHANGED <<clock, token, onTeam, bankGiven, inBank>>

(* Submitted, approved or rejected, archived instead of deleted; and       *)
(* update_status() takes it from any status but archived to any other.     *)
StatusMoves(new) ==
  /\ itsExam.status # "archived" /\ new # itsExam.status
  /\ ExamChanges([itsExam EXCEPT !.status = new])

(* update(): the two times are not compared. *)
WindowMoves(w) == itsExam.status \in Unfinished /\ ExamChanges([itsExam EXCEPT !.window = w])

(* The subject's staff, and the bank's among them; whoever leaves the      *)
(* subject loses its banks.                                                *)
StaffMoves ==
  /\ \/ onTeam' = ~ onTeam /\ bankGiven' = FALSE
     \/ onTeam /\ UNCHANGED onTeam /\ bankGiven' = ~ bankGiven
  /\ UNCHANGED <<clock, token, itsExam, inBank>>

(* The question is put into the bank, or taken out. *)
QuestionMoves == inBank' = ~ inBank /\ UNCHANGED <<clock, token, itsExam, onTeam, bankGiven>>

ListNext ==
  \/ \E t \in Tokens : SignIn(t)
  \/ ListTick
  \/ \E s \in Statuses : StatusMoves(s)
  \/ \E w \in ExamWindows : WindowMoves(w)
  \/ StaffMoves
  \/ QuestionMoves

ListSpec == ListInit /\ [][ListNext]_listVars

---------------------------------------------------------------------------
(* What holds *)

ListTypeOK ==
  /\ clock \in Moments
  /\ token \in Tokens
  /\ itsExam \in [status : Statuses, window : ExamWindows, mine : BOOLEAN]
  /\ {onTeam, bankGiven, inBank} \subseteq BOOLEAN

(* What is done to an exam as an exam; marking, results and violations     *)
(* have permissions that do not imply seeing it on the list.               *)
OnExams == {"exams.view", "exams.edit", "exams.submit", "exams.approve", "exams.assign",
            "exams.release_results", "exams.change_attempts"}

(* "Same rules as _assert_can_view, as query conditions": a person finds   *)
(* what they may open, what they may change, and nothing else.             *)
FindsExams ==
  /\ ExamListed <=> MayAct("exams.view")
  /\ \A p \in OnExams : MayAct(p) => ExamListed
FindsQuestions ==
  /\ QuestionListed <=> MayQuestion("questions.view")
  /\ MayQuestion("questions.manage") => QuestionListed
  /\ QuestionListed => SubjectListed

(* The tabs' counts add up to all: an exam is in exactly one phase, unless *)
(* it closes before it opens, which update() allows.                       *)
Ordered  == itsExam.window.end = Unset \/ itsExam.window.start < itsExam.window.end
OnePhase == Ordered => Cardinality(PhasesOf) = 1

(* Time takes an exam from phase to phase, never back.                     *)
TimeMovesOn == UNCHANGED itsExam /\ Ordered => \A n \in PhasesOf, m \in PhasesOf' : n <= m

(* The lists agree with what can be opened and changed, whatever roles,    *)
(* assignments, statuses and times come to be.                             *)
ViewsKept == [][UNCHANGED listVars \/ (FindsExams /\ FindsQuestions /\ OnePhase /\ TimeMovesOn)]_listVars
=============================================================================
