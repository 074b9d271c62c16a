------------------------------ MODULE Marking ------------------------------
(***************************************************************************)
(* The marks of one attempt that has been handed in: staff mark answers,   *)
(* decide on late ones and reset the attempt, at the same time             *)
(* (attempt_service.py, marking/scoring.py).                               *)
(*                                                                         *)
(* Each request is one READ COMMITTED transaction. None of those that mark *)
(* locks what it loads; an UPDATE that has been flushed locks its row to   *)
(* the commit. The ORM writes a column only if the new value differs from  *)
(* the one it LOADED, and keeps answering from the rows it loaded. A reset *)
(* locks the attempt first, then deletes its answers and late answers.     *)
(*                                                                         *)
(* How the attempt came to be handed in: ExamSitting.                      *)
(***************************************************************************)
EXTENDS Integers, FiniteSets, Functions

CONSTANTS
  Requests,    \* the requests in flight
  Reviewers,   \* the staff who mark
  None,        \* no value
  Objective,   \* the exam's questions with an answer key
  Written,     \* the exam's questions that a person marks
  Worth,       \* exam_item.marks
  Penalty,     \* exam_item.negative_marks
  PassMark,    \* exam.pass_mark, in percent, or None
  LateItems,   \* bound: the questions that late answers arrive for
  MaxResets    \* bound: how often the attempt is reset

Items == Objective \union Written

ASSUME MarksAssumption ==
  Worth \in Nat \ {0} /\ Penalty \in Nat /\ MaxResets \in Nat /\ PassMark \in Nat \union {None}
ASSUME NoneAssumption == None \notin Int \union Requests \union Reviewers \union BOOLEAN

VARIABLES
  status,    \* attempt.status: "closed" for submitted or terminated
  final,     \* attempt.final_score
  passed,    \* attempt.passed
  scoredBy,  \* attempt.scored_by, None for a machine
  marks,     \* the answers' marks_awarded, None while a person has to mark
  late,      \* the late answers' status, "none" where there is none
  life,      \* how often the attempt was reset: each reset deletes all rows
  pc,        \* per request: how far its transaction is
  task,      \* per request: what it does, and what it loaded
  alone      \* history, per request: nothing else has run beside it

attempt == <<status, final, passed, scoredBy>>
vars    == <<attempt, marks, late, life, pc, task, alone>>

Marks    == (-Penalty)..Worth \union {None}
Rows     == Items \X (Requests \union {None})
Sheets   == UNION {[S -> Marks] : S \in SUBSET Rows}
Verdicts == BOOLEAN \union {None}
Scorers  == Reviewers \union {None}
Late     == {"none", "pending", "accepted", "rejected"}
Phases   == {"idle", "loaded", "written", "summed", "holding"}

(* score_answer(): nothing for a blank, and a person for what is written. *)
AutoMarks(i) == IF i \in Written THEN {0, None} ELSE {Worth, -Penalty, 0}

(* An answer sheet as an attempt is handed in with: one row per question. *)
HandedIn ==
  {m \in UNION {[S \X {None} -> Marks] : S \in SUBSET Items} :
     \A x \in DOMAIN m : m[x] \in AutoMarks(x[1])}

---------------------------------------------------------------------------
(* recompute_score() *)

Awarded(m) == {x \in DOMAIN m : m[x] # None}

Positive(n) == IF n < 0 THEN 0 ELSE n

FinalOf(m) == Positive(SumFunctionOnSet(m, Awarded(m)))

(* Undecided while answers wait; the percentage is out of the whole exam. *)
PassedOf(m) ==
  IF PassMark = None \/ Awarded(m) # DOMAIN m THEN None
  ELSE FinalOf(m) * 100 >= PassMark * Worth * Cardinality(Items)

Finals == {FinalOf(m) : m \in Sheets} \union {None}

Rescored == final = FinalOf(marks) /\ passed = PassedOf(marks)

(* What a reviewer may give for an answer. *)
OneMore == 0..Worth + 1  \* faulty variant
Awardable == 0..Worth

(* A column is written if its new value is not the one that was loaded. *)
Stored(new, loaded, stored) == IF new = loaded THEN stored ELSE new

With(m, x, mark) == [y \in DOMAIN m \union {x} |-> IF y = x THEN mark ELSE m[y]]

Tasks == [kind : {"none", "review", "accept", "reject", "reset"},
          row : Rows \union {None}, mark : Marks, by : Scorers, life : Nat,
          seen : Marks, final : Finals, passed : Verdicts, scoredBy : Scorers,
          newFinal : Finals, newPassed : Verdicts]
Idle == [kind |-> "none", row |-> None, mark |-> None, by |-> None, life |-> 0,
         seen |-> None, final |-> None, passed |-> None, scoredBy |-> None,
         newFinal |-> None, newPassed |-> None]

Init ==
  /\ status = "closed"
  /\ marks \in HandedIn
  /\ Rescored
  /\ scoredBy = None
  /\ late = [i \in Items |-> "none"]
  /\ life = 0
  /\ pc = [r \in Requests |-> "idle"]
  /\ task = [r \in Requests |-> Idle]
  /\ alone = [r \in Requests |-> FALSE]

(* A reset has deleted what the request loaded. *)
NeverGone(r) == FALSE  \* faulty variant
Gone(r) == task[r].life # life

(* r has flushed an UPDATE of the attempt, or has it FOR UPDATE. *)
ReviewerChanges(r) == task[r].kind = "review" /\ task[r].by # task[r].scoredBy
LocksAttempt(r) ==
  \/ pc[r] = "holding"
  \/ pc[r] = "summed" /\ ReviewerChanges(r)
AttemptFree(r) == \A q \in Requests \ {r} : ~ LocksAttempt(q)

(* r has flushed an UPDATE or an INSERT of an answer. *)
LocksRow(r) == pc[r] \in {"written", "summed"}
RowFree(r, x) == \A q \in Requests \ {r} : LocksRow(q) => task[q].row # x

Begin(r, t, phase) ==
  /\ pc' = [pc EXCEPT ![r] = phase]
  /\ task' = [task EXCEPT ![r] = t]
  /\ alone' = [q \in Requests |->
                 IF q = r THEN \A p \in Requests \ {r} : pc[p] = "idle" ELSE FALSE]
  /\ UNCHANGED <<attempt, marks, late, life>>

End(r) ==
  /\ pc' = [pc EXCEPT ![r] = "idle"]
  /\ task' = [task EXCEPT ![r] = Idle]
  /\ alone' = [alone EXCEPT ![r] = FALSE]

(* The attempt as it is loaded, and the answer. *)
Load(kind, x, by) ==
  [Idle EXCEPT !.kind = kind, !.row = x, !.by = by, !.life = life,
     !.seen = IF x \in DOMAIN marks THEN marks[x] ELSE None,
     !.final = final, !.passed = passed, !.scoredBy = scoredBy]

---------------------------------------------------------------------------
(* manual_review() *)

(* Any answer of an attempt that is closed. *)
ReviewLoad(r, x, by) ==
  /\ pc[r] = "idle"
  /\ status = "closed"
  /\ Begin(r, Load("review", x, by), "loaded")

(* session.flush(): the answer's row is updated with a mark within the     *)
(* question's, and locked.                                                 *)
ReviewWrite(r, mark) ==
  /\ pc[r] = "loaded"
  /\ task[r].kind = "review"
  /\ ~ Gone(r)
  /\ RowFree(r, task[r].row)
  /\ pc' = [pc EXCEPT ![r] = "written"]
  /\ task' = [task EXCEPT ![r].mark = mark]
  /\ UNCHANGED <<attempt, marks, late, life, alone>>

(* The answers as r reads them, with the mark it has given. *)
SheetBefore(r, mark) == marks  \* faulty variant
SheetOf(r, mark) == With(marks, task[r].row, mark)

Sum(r, mark) ==
  LET sheet == SheetOf(r, mark) IN
  /\ pc' = [pc EXCEPT ![r] = "summed"]
  /\ task' = [task EXCEPT ![r].mark = mark, ![r].newFinal = FinalOf(sheet),
                          ![r].newPassed = PassedOf(sheet)]
  /\ UNCHANGED <<attempt, marks, late, life, alone>>

(* recompute_score() selects the answers, which first flushes scored_by:   *)
(* if that is another reviewer than the one loaded, the attempt is updated *)
(* and locked, and the answers are only read when others have committed.   *)
ReviewSum(r) ==
  /\ pc[r] = "written"
  /\ ReviewerChanges(r) => AttemptFree(r)
  /\ Sum(r, task[r].mark)

---------------------------------------------------------------------------
(* decide_late_answer() *)

(* The saved answer the late one would replace, or the row it would add. *)
Target(r, i) ==
  LET saved == {x \in DOMAIN marks : x[1] = i}
  IN IF saved = {} THEN {<<i, r>>} ELSE saved

(* Nothing but the late answer's own status is looked at. *)
AcceptLoad(r, i) ==
  /\ pc[r] = "idle"
  /\ late[i] = "pending"
  /\ \E x \in Target(r, i) :
       Begin(r, Load("accept", x, None), "loaded")

RejectLoad(r, i) ==
  /\ pc[r] = "idle"
  /\ late[i] = "pending"
  /\ Begin(r, [Idle EXCEPT !.kind = "reject", !.row = <<i, None>>, !.life = life], "loaded")

(* The flush of the answer and the SELECT of them all. Inserting a row     *)
(* waits for whoever has the attempt FOR UPDATE.                           *)
AcceptWrite(r, mark) ==
  /\ pc[r] = "loaded"
  /\ task[r].kind = "accept"
  /\ mark \in AutoMarks(task[r].row[1])
  /\ ~ Gone(r)
  /\ IF task[r].row[2] = r
       THEN \A q \in Requests : pc[q] # "holding"
       ELSE RowFree(r, task[r].row)
  /\ Sum(r, mark)

---------------------------------------------------------------------------
(* The commits *)

(* The attempt's columns, and the mark, are written where they differ from *)
(* what was loaded.                                                        *)
CommitMark(r) ==
  LET t == task[r] IN
  /\ pc[r] = "summed"
  /\ t.kind \in {"review", "accept"}
  /\ ~ Gone(r)
  /\ AttemptFree(r)
  /\ marks' = With(marks, t.row,
                   IF t.row \in DOMAIN marks THEN Stored(t.mark, t.seen, marks[t.row]) ELSE t.mark)
  /\ final' = Stored(t.newFinal, t.final, final)
  /\ passed' = Stored(t.newPassed, t.passed, passed)
  /\ scoredBy' = IF ReviewerChanges(r) THEN t.by ELSE scoredBy
  /\ late' = IF t.kind = "accept" THEN [late EXCEPT ![t.row[1]] = "accepted"] ELSE late
  /\ End(r)
  /\ UNCHANGED <<status, life>>

CommitReject(r) ==
  /\ pc[r] = "loaded"
  /\ task[r].kind = "reject"
  /\ ~ Gone(r)
  /\ late' = [late EXCEPT ![task[r].row[1]] = "rejected"]
  /\ End(r)
  /\ UNCHANGED <<attempt, marks, life>>

(* A row that was loaded is gone, the worker dies, or the database ends a  *)
(* deadlock: nothing of the transaction remains.                           *)
Rollback(r) ==
  /\ pc[r] # "idle"
  /\ End(r)
  /\ UNCHANGED <<attempt, marks, late, life>>

---------------------------------------------------------------------------
(* reset_attempt(), and the next time the attempt is handed in *)

(* FOR UPDATE waits for flushed updates of the attempt, and for answers    *)
(* that were inserted: they refer to it.                                   *)
ResetLock(r) ==
  /\ pc[r] = "idle"
  /\ life < MaxResets
  /\ AttemptFree(r)
  /\ \A q \in Requests : pc[q] = "summed" /\ task[q].kind = "accept" => task[q].row[2] # q
  /\ Begin(r, [Idle EXCEPT !.kind = "reset"], "holding")

(* Deleting the answers waits for those that are being updated. *)
ResetCommit(r) ==
  /\ pc[r] = "holding"
  /\ \A x \in DOMAIN marks : RowFree(r, x)
  /\ status' = "reset"
  /\ final' = None /\ passed' = None /\ scoredBy' = None
  /\ marks' = <<>>
  /\ late' = [i \in Items |-> "none"]
  /\ life' = life + 1
  /\ End(r)

(* start(), the sitting, and submit(): not while the attempt is locked. *)
HandIn ==
  /\ status = "reset"
  /\ \A q \in Requests : ~ LocksAttempt(q)
  /\ status' = "closed"
  /\ marks' \in HandedIn
  /\ final' = FinalOf(marks')
  /\ passed' = PassedOf(marks')
  /\ scoredBy' = None
  /\ alone' = [r \in Requests |-> FALSE]
  /\ UNCHANGED <<late, life, pc, task>>

(* _keep_late_answer(): within the late window, and while no reset has the *)
(* attempt. Bound: one late answer for a question of a sitting.            *)
LateArrives(i) ==
  /\ i \in LateItems
  /\ status = "closed"
  /\ late[i] = "none"
  /\ \A q \in Requests : pc[q] # "holding"
  /\ late' = [late EXCEPT ![i] = "pending"]
  /\ UNCHANGED <<attempt, marks, life, pc, task, alone>>

Request(r) ==
  \/ \E x \in DOMAIN marks, by \in Reviewers : ReviewLoad(r, x, by)
  \/ \E m \in Awardable : ReviewWrite(r, m)
  \/ ReviewSum(r)
  \/ \E i \in Items : AcceptLoad(r, i) \/ RejectLoad(r, i)
  \/ \E m \in Marks : AcceptWrite(r, m)
  \/ CommitMark(r) \/ CommitReject(r) \/ Rollback(r)
  \/ ResetLock(r) \/ ResetCommit(r)

Next ==
  \/ HandIn
  \/ \E i \in Items : LateArrives(i)
  \/ \E r \in Requests : Request(r)

Spec == Init /\ [][Next]_vars

---------------------------------------------------------------------------
(* Properties *)

TypeOK ==
  /\ status \in {"closed", "reset"}
  /\ final \in Finals
  /\ passed \in Verdicts
  /\ scoredBy \in Scorers
  /\ marks \in Sheets
  /\ late \in [Items -> Late]
  /\ life \in Nat
  /\ pc \in [Requests -> Phases]
  /\ task \in [Requests -> Tasks]
  /\ alone \in [Requests -> BOOLEAN]

(* A reset attempt stays the clean slate the student restarts from: no     *)
(* mark, decision or total that staff were about to commit when it was     *)
(* reset reaches it, in whatever order they loaded, flushed and committed. *)
NothingSurvivesReset ==
  status = "reset" =>
    /\ final = None /\ passed = None /\ scoredBy = None
    /\ marks = <<>>
    /\ \A i \in Items : late[i] = "none"

(* A mark or an accepted late answer that nobody else's request overlaps   *)
(* leaves totals and pass/fail that follow from the answers' marks, also   *)
(* when earlier requests that did overlap had left them wrong.             *)
SoloRescores ==
  [][\A r \in Requests : CommitMark(r) /\ alone[r] => Rescored']_vars

(* "Totals, percentage and pass/fail from the answers' marks": whenever an *)
(* attempt is closed.                                                      *)
RescoredAlways == status = "closed" => Rescored
=============================================================================
