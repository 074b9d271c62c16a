--------------------------- MODULE MarkingQueue ---------------------------
(***************************************************************************)
(* The marking queue of one exam: its answers question by question and     *)
(* script by script (marking/marking_service.py), beside what the rest of  *)
(* the service says of the same answers: awaiting_marking(), what          *)
(* recompute_score() holds undecided, and what manual_review() lets a      *)
(* person mark (attempt_service.py).                                       *)
(*                                                                         *)
(* Every request is one step here; how requests race on the marks of one   *)
(* script is Marking. The counts of a list are the sizes of the sets that  *)
(* this module defines.                                                    *)
(***************************************************************************)
EXTENDS Integers, FiniteSets

CONSTANTS
  Scripts,  \* attempts on the exam, one per student
  Asked     \* questions that the exam may have

VARIABLES
  written,  \* those that a person marks; the others have an answer key
  draft,    \* the exam's questions may be changed
  paper,    \* the exam's questions
  script,   \* attempt.status: a closed one was submitted, scored or terminated
  answer,   \* the answers' rows
  lateOne   \* late answers that wait for a decision

asked     == <<written, draft, paper>>
queueVars == <<asked, script, answer, lateOne>>

(* An answer has marks from the machine, or from a person (reviewed_at),   *)
(* or none: marks_awarded is NULL, and what was written may be blank.      *)
Unmarked == {"text", "blank"}
Answers  == Unmarked \union {"norow", "auto", "marked"}
NoRows   == [q \in Asked |-> "norow"]

QueueInit ==
  /\ written \in SUBSET Asked
  /\ draft = FALSE
  /\ paper = Asked
  /\ script = [s \in Scripts |-> "open"]
  /\ answer = [s \in Scripts |-> NoRows]
  /\ lateOne = [s \in Scripts |-> {}]

Submitted == {s \in Scripts : script[s] = "closed"}   \* CLOSED_STATUSES
RowsOf(s) == {q \in Asked : answer[s][q] # "norow"}

---------------------------------------------------------------------------
(* Sitting and handing in *)

(* save_response() *)
SaveAnswer(s, q, what) ==
  /\ script[s] = "open" /\ q \in paper
  /\ answer' = [answer EXCEPT ![s][q] = what]
  /\ UNCHANGED <<asked, script, lateOne>>

(* score_answer(): a person marks what is written, unless it is blank or a *)
(* short answer that is marked automatically.                              *)
Outcomes(q, what) == IF q \in written /\ what = "text" THEN {"text", "auto"} ELSE {"auto"}

(* _finalize_submission(): what is not on the exam scores nothing.         *)
HandIn(s) ==
  /\ script[s] = "open"
  /\ script' = [script EXCEPT ![s] = "closed"]
  /\ \E scored \in [Asked -> Answers] :
       /\ \A q \in Asked : scored[q] \in
            IF q \notin RowsOf(s) THEN {"norow"}
            ELSE IF q \in paper THEN Outcomes(q, answer[s][q]) ELSE {"auto"}
       /\ answer' = [answer EXCEPT ![s] = scored]
  /\ UNCHANGED <<asked, lateOne>>

(* _keep_late_answer() *)
LateArrives(s, q) ==
  /\ script[s] = "closed" /\ q \in paper
  /\ lateOne' = [lateOne EXCEPT ![s] = @ \union {q}]
  /\ UNCHANGED <<asked, script, answer>>

(* decide_late_answer(): an accepted one replaces the answer and its mark. *)
DecideLate(s, q) ==
  /\ q \in lateOne[s]
  /\ lateOne' = [lateOne EXCEPT ![s] = @ \ {q}]
  /\ \/ UNCHANGED answer
     \/ /\ q \in paper
        /\ \E what \in Unmarked, scored \in Answers :
             scored \in Outcomes(q, what) /\ answer' = [answer EXCEPT ![s][q] = scored]
  /\ UNCHANGED <<asked, script>>

(* manual_review() *)
MayMark(s, q) == script[s] = "closed" /\ q \in RowsOf(s) \intersect paper

Review(s, q) ==
  /\ MayMark(s, q)
  /\ answer' = [answer EXCEPT ![s][q] = "marked"]
  /\ UNCHANGED <<asked, script, lateOne>>

(* reset_attempt(), and start() after it *)
GiveBack(s) ==
  /\ script[s] # "reset"
  /\ script' = [script EXCEPT ![s] = "reset"]
  /\ answer' = [answer EXCEPT ![s] = NoRows]
  /\ lateOne' = [lateOne EXCEPT ![s] = {}]
  /\ UNCHANGED asked
SitAgain(s) ==
  /\ script[s] = "reset"
  /\ script' = [script EXCEPT ![s] = "open"]
  /\ UNCHANGED <<asked, answer, lateOne>>

(* update_status() takes the exam back to a draft, whoever has sat it, and *)
(* then add_items() and remove_item() change it.                           *)
ToAndFro == draft' = ~ draft /\ UNCHANGED <<written, paper, script, answer, lateOne>>
ChangePaper(q) ==
  /\ draft
  /\ paper' \in {paper \union {q}, paper \ {q}}
  /\ UNCHANGED <<written, draft, script, answer, lateOne>>

QueueNext ==
  \/ \E s \in Scripts, q \in Asked :
       \/ \E what \in Unmarked : SaveAnswer(s, q, what)
       \/ LateArrives(s, q) \/ DecideLate(s, q) \/ Review(s, q)
  \/ \E s \in Scripts : HandIn(s) \/ GiveBack(s) \/ SitAgain(s)
  \/ ToAndFro
  \/ \E q \in Asked : ChangePaper(q)

QueueSpec == QueueInit /\ [][QueueNext]_queueVars

---------------------------------------------------------------------------
(* What is shown *)

(* overview(), answers(): per written question on the exam, the answers of *)
(* closed scripts.                                                         *)
OnQueue == written \intersect paper
Answered(q)   == {s \in Submitted : q \in RowsOf(s)}
PendingOf(q)  == {s \in Answered(q) : answer[s][q] \in Unmarked}
MarkedOf(q)   == {s \in Answered(q) : answer[s][q] = "marked"}
WaitingScripts == UNION {PendingOf(q) : q \in OnQueue}

(* Faulty variant, for a mutant: a script waits while it has no mark from  *)
(* a person.                                                               *)
NotReviewed(s) == {q \in OnQueue \intersect RowsOf(s) : answer[s][q] # "marked"}

(* _script_counts(), script_list() *)
ScriptPending(s) == {q \in OnQueue \intersect RowsOf(s) : answer[s][q] \in Unmarked}

(* awaiting_marking(), on attempts, reviews and statistics                 *)
Awaiting(s) == {q \in Asked : answer[s][q] \in Unmarked}

(* recompute_score(): what keeps passed undecided *)
Undecided(s) == Awaiting(s) \intersect paper

---------------------------------------------------------------------------
QueueTypeOK ==
  /\ written \subseteq Asked /\ draft \in BOOLEAN
  /\ paper \subseteq Asked
  /\ script \in [Scripts -> {"open", "closed", "reset"}]
  /\ answer \in [Scripts -> [Asked -> Answers]]
  /\ lateOne \in [Scripts -> SUBSET Asked]

(* By question and by script the queue holds the same answers, those that  *)
(* keep a result undecided and nothing else, and each can be marked there. *)
(* awaiting_marking() counts them too, unless the exam's questions changed *)
(* after it was sat: it goes on counting an answer nobody can mark.        *)
QueueAgrees ==
  /\ WaitingScripts = {s \in Submitted : ScriptPending(s) # {}}
  /\ \A s \in Submitted :
       /\ ScriptPending(s) = {q \in OnQueue : s \in PendingOf(q)}
       /\ ScriptPending(s) = Undecided(s)
       /\ \A q \in ScriptPending(s) : MayMark(s, q)
       /\ RowsOf(s) \subseteq paper => ScriptPending(s) = Awaiting(s)

(* Nothing leaves the queue unmarked, but by a decision on a late answer,  *)
(* a reset, or a change of the exam's questions.                           *)
LeavesMarked == \A q \in OnQueue, s \in Scripts :
  s \in PendingOf(q) /\ s \notin PendingOf(q)' =>
    \/ s \in MarkedOf(q)'
    \/ q \in lateOne[s] \ lateOne'[s] \/ script'[s] = "reset" \/ q \notin paper'

(* Whoever marks until the queue is empty has marked all there is. *)
QueueKept == [][UNCHANGED queueVars \/ (QueueAgrees /\ LeavesMarked)]_queueVars
=============================================================================
