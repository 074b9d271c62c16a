---------------------------- MODULE ExamWorkflow ----------------------------
(***************************************************************************)
(* One exam from draft to archive: its questions and total marks, its      *)
(* approval, its assignments, the status override and its deletion         *)
(* (cbt_service/services/exam_service.py).                                 *)
(*                                                                         *)
(* Every handler loads the exam WITHOUT a lock, checks the status it       *)
(* loaded, may read more, and commits: one step each here. A column is     *)
(* written only if its new value is not the one that was loaded, and a     *)
(* write to an exam that is gone fails, as does a row that refers to one:  *)
(* questions, topics, assignments and the audit log have a foreign key to  *)
(* the exam, attempts have none.                                           *)
(*                                                                         *)
(* Who may call what is left out: any request may come from someone who    *)
(* may make it.                                                            *)
(***************************************************************************)
EXTENDS Integers, FiniteSetsExt

CONSTANTS
  Requests,   \* the staff requests in flight
  Questions,  \* the questions of the subject
  Marks,      \* the marks of each question
  Students,   \* the students
  None,       \* no value
  MaxAdds     \* bound: how often a question is added

ASSUME MarksAssumption == Marks \in [Questions -> Nat] /\ MaxAdds \in Nat

VARIABLES
  status,      \* exam.status, "gone" when the row is deleted
  items,       \* the exam's questions: rows <<question, serial number>>
  total,       \* exam.total_marks
  topics,      \* whether the exam is limited to topics (exam_topics rows)
  assigned,    \* the students with an assignment
  attempted,   \* the students with an attempt
  added,       \* how many rows were ever added (names new rows)
  pc,          \* per request: "idle", or the transaction's progress
  task,        \* per request: what it does and what it loaded
  overlapped   \* history: two requests have run side by side

exam == <<status, total, topics>>
rows == <<items, assigned, attempted, added>>
vars == <<exam, rows, pc, task, overlapped>>

Editable   == {"draft", "rejected"}
Assignable == {"approved", "active"}
Live       == {"draft", "pending", "approved", "rejected", "active", "closed", "archived"}
Kinds      == {"none", "limit", "widen", "add", "remove", "submit", "decide", "override",
               "assign", "delete"}
Rows       == Questions \X Nat
Args       == {None} \union Questions \union Rows \union Students
Tasks      == [kind : Kinds, arg : Args, status : Live, total : Nat,
               rows : SUBSET Rows, attempts : BOOLEAN]
NoTask     == [kind |-> "none", arg |-> None, status |-> "draft", total |-> 0,
               rows |-> {}, attempts |-> FALSE]

TypeOK ==
  /\ status \in Live \union {"gone"}
  /\ items \subseteq Rows
  /\ total \in Nat
  /\ topics \in BOOLEAN
  /\ assigned \subseteq Students
  /\ attempted \subseteq Students
  /\ added \in Nat
  /\ pc \in [Requests -> {"idle", "loaded", "ready"}]
  /\ task \in [Requests -> Tasks]
  /\ overlapped \in BOOLEAN

Exists == status # "gone"

(* sum(i.marks for i in existing) *)
SumOf(rs) == MapThenSumSet(LAMBDA x : Marks[x[1]], rs)

(* A column is written if it differs from what was loaded. *)
Stored(new, loaded, stored) == IF new = loaded THEN stored ELSE new

(* The rows a question is looked for in before it is added. *)
NothingThere(rs) == {}  \* faulty variant
AlreadyThere(rs) == rs

(* max(0, exam.total_marks - exam_item.marks) *)
Less(n, m) == IF n < m THEN 0 ELSE n - m

(* _assert_valid_status_override *)
MayOverride(old, new) == new # old /\ new # "archived" /\ old # "archived"

(* delete() asks whether there are attempts. *)
NeverAsked == FALSE  \* faulty variant
HasAttempts == attempted # {}

(* A foreign key or an UPDATE that finds no row. *)
NotChecked == TRUE  \* faulty variant
Referable == Exists

(* start() looks for the student's assignment. *)
Invited == assigned

Init ==
  /\ status = "draft"
  /\ items = {}
  /\ total = 0
  /\ topics \in BOOLEAN
  /\ assigned = {} /\ attempted = {}
  /\ added = 0
  /\ pc = [r \in Requests |-> "idle"]
  /\ task = [r \in Requests |-> NoTask]
  /\ overlapped = FALSE

---------------------------------------------------------------------------
(* Loading *)

AnyInFlight == \E q \in Requests : pc[q] # "idle"

Begin(r, t, phase) ==
  /\ pc[r] = "idle"
  /\ Exists
  /\ pc' = [pc EXCEPT ![r] = phase]
  /\ task' = [task EXCEPT ![r] = t]
  /\ overlapped' = (overlapped \/ AnyInFlight)
  /\ UNCHANGED <<exam, rows>>

End(r) ==
  /\ pc' = [pc EXCEPT ![r] = "idle"]
  /\ task' = [task EXCEPT ![r] = NoTask]
  /\ UNCHANGED overlapped

(* update(): of all it edits, the topics are what deletion depends on. *)
Update(r, kind) ==
  /\ status \in Editable
  /\ Begin(r, [NoTask EXCEPT !.kind = kind], "ready")

(* add_items(), also on behalf of add_items_from_bank() *)
AddItem(r, q) ==
  /\ status \in Editable
  /\ Begin(r, [NoTask EXCEPT !.kind = "add", !.arg = q, !.total = total], "loaded")

RemoveItem(r, x) ==
  /\ status \in Editable
  /\ Begin(r, [NoTask EXCEPT !.kind = "remove", !.arg = x, !.total = total], "ready")

SubmitForApproval(r) ==
  /\ status \in Editable
  /\ Begin(r, [NoTask EXCEPT !.kind = "submit", !.status = "pending"], "loaded")

(* process_approval() *)
Process(r, decision) ==
  /\ status = "pending"
  /\ Begin(r, [NoTask EXCEPT !.kind = "decide", !.status = decision], "ready")

(* update_status(): the administrators' override *)
Override(r, new) ==
  /\ MayOverride(status, new)
  /\ Begin(r, [NoTask EXCEPT !.kind = "override", !.status = new], "ready")

(* assign_students() and assign_cohort(): their own check of the status *)
Assign(r, s) ==
  /\ status \in Assignable
  /\ Begin(r, [NoTask EXCEPT !.kind = "assign", !.arg = s], "ready")

Delete(r) == Begin(r, [NoTask EXCEPT !.kind = "delete", !.status = status], "loaded")

(* What is read after the exam: its questions, or whether it has attempts. *)
Read(r) ==
  /\ pc[r] = "loaded"
  /\ pc' = [pc EXCEPT ![r] = "ready"]
  /\ task' = [task EXCEPT ![r].rows = IF task[r].kind = "delete" THEN {} ELSE items,
                          ![r].attempts = task[r].kind = "delete" /\ HasAttempts]
  /\ UNCHANGED <<exam, rows, overlapped>>

---------------------------------------------------------------------------
(* Committing *)

Ready(r, kind) == pc[r] = "ready" /\ task[r].kind = kind

CommitTopics(r) ==
  /\ Ready(r, "limit") \/ Ready(r, "widen")
  /\ Referable
  /\ topics' = (task[r].kind = "limit")
  /\ End(r)
  /\ UNCHANGED <<status, total, rows>>

(* A question that was not there is added; the total is taken from the     *)
(* rows that were read, whatever it was.                                   *)
CommitAdd(r) ==
  LET t == task[r]
      new == IF \E x \in AlreadyThere(t.rows) : x[1] = t.arg THEN {} ELSE {<<t.arg, added>>}
  IN
  /\ Ready(r, "add")
  /\ added + 1 <= MaxAdds
  /\ Referable
  /\ items' = items \union new
  /\ added' = IF new = {} THEN added ELSE added + 1
  /\ total' = Stored(SumOf(t.rows \union new), t.total, total)
  /\ End(r)
  /\ UNCHANGED <<status, topics, assigned, attempted>>

(* A row that another request has removed meanwhile is no error. *)
CommitRemove(r) ==
  LET t == task[r] IN
  /\ Ready(r, "remove")
  /\ Referable
  /\ items' = items \ {t.arg}
  /\ total' = Stored(Less(t.total, Marks[t.arg[1]]), t.total, total)
  /\ End(r)
  /\ UNCHANGED <<status, topics, assigned, attempted, added>>

(* Submit, approval and override write the status over whatever it has     *)
(* become.                                                                 *)
CommitStatus(r) ==
  /\ pc[r] = "ready"
  /\ task[r].kind \in {"submit", "decide", "override"}
  /\ task[r].kind = "submit" => task[r].rows # {}
  /\ Referable
  /\ status' = task[r].status
  /\ End(r)
  /\ UNCHANGED <<total, topics, rows>>

(* INSERT ... ON CONFLICT DO NOTHING *)
CommitAssign(r) ==
  /\ Ready(r, "assign")
  /\ Referable
  /\ assigned' = assigned \union {task[r].arg}
  /\ End(r)
  /\ UNCHANGED <<exam, items, attempted, added>>

(* "Preserve history": an exam with attempts is archived. *)
Archive(r) ==
  /\ Ready(r, "delete")
  /\ task[r].attempts
  /\ Referable
  /\ status' = Stored("archived", task[r].status, status)
  /\ End(r)
  /\ UNCHANGED <<total, topics, rows>>

(* Everything that refers to the exam is deleted, but for its topics, and  *)
(* then the exam, unless something still refers to it.                     *)
Erase(r) ==
  /\ Ready(r, "delete")
  /\ ~ task[r].attempts
  /\ ~ topics
  /\ Exists
  /\ status' = "gone"
  /\ items' = {}
  /\ assigned' = {}
  /\ End(r)
  /\ UNCHANGED <<total, topics, attempted, added>>

(* The request is refused once it has read more, the exam is gone, the     *)
(* exam's topics keep it, or the transaction fails: nothing is written.    *)
Abort(r) ==
  /\ pc[r] # "idle"
  /\ End(r)
  /\ UNCHANGED <<exam, rows>>

(* start() of a student with an assignment: it locks the assignment, which *)
(* a deletion waits for, and does not look at the exam's status.           *)
Start(s) ==
  /\ Exists
  /\ s \in Invited \ attempted
  /\ attempted' = attempted \union {s}
  /\ overlapped' = (overlapped \/ AnyInFlight)
  /\ UNCHANGED <<exam, items, assigned, added, pc, task>>

Load(r) ==
  \/ Update(r, "limit") \/ Update(r, "widen")
  \/ \E q \in Questions : AddItem(r, q)
  \/ \E x \in items : RemoveItem(r, x)
  \/ SubmitForApproval(r)
  \/ \E decision \in {"approved", "rejected"} : Process(r, decision)
  \/ \E new \in Live : Override(r, new)
  \/ \E s \in Students : Assign(r, s)
  \/ Delete(r)

Commit(r) ==
  \/ CommitTopics(r) \/ CommitAdd(r) \/ CommitRemove(r) \/ CommitStatus(r)
  \/ CommitAssign(r) \/ Archive(r) \/ Erase(r)

Next ==
  \/ \E r \in Requests : Load(r) \/ Read(r) \/ Commit(r) \/ Abort(r)
  \/ \E s \in Students : Start(s)

Spec == Init /\ [][Next]_vars

---------------------------------------------------------------------------
(* Properties of every interleaving *)

(* A deletion leaves nothing behind that refers to the exam, and no        *)
(* request that loaded the exam before it was deleted brings any back.     *)
GoneLeavesNothing == ~ Exists => items = {} /\ assigned = {} /\ ~ topics

(* "ARCHIVED has a specific meaning tied to attempt history": whatever     *)
(* races, an archived exam has attempts.                                   *)
ArchivedHasAttempts == status = "archived" => attempted # {}

(* While the exam is there, an attempt has the assignment its window and   *)
(* status are read from.                                                   *)
AttemptsAssigned == Exists => attempted \subseteq assigned

(* What holds of an exam and its attempts whatever deletions, overrides,   *)
(* assignments and starts race.                                            *)
DeletionSound == GoneLeavesNothing /\ ArchivedHasAttempts /\ AttemptsAssigned

---------------------------------------------------------------------------
(* Properties of requests that never ran side by side *)

(* Through any sequence of additions, removals, approvals and overrides    *)
(* the exam has each question once and total_marks adds them up.           *)
PaperAddsUp ==
  ~ overlapped /\ Exists =>
    /\ total = SumOf(items)
    /\ \A x, y \in items : x[1] = y[1] => x = y

(* An exam that students have engaged with is never removed, and once      *)
(* archived it stays so.                                                   *)
HistoryKept ==
  [][~ overlapped' => /\ attempted # {} => status' # "gone"
                      /\ status = "archived" => status' = "archived"]_vars

---------------------------------------------------------------------------
(* "No attempts - safe to fully remove": no attempt outlives its exam. *)
NoOrphanAttempts == ~ Exists => attempted = {}
=============================================================================
