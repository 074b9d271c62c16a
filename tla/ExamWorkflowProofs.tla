------------------------- MODULE ExamWorkflowProofs -------------------------
(***************************************************************************)
(* Proofs about ExamWorkflow, for any number of requests, questions and    *)
(* students and any interleaving of the requests.                          *)
(*                                                                         *)
(* First the exam's status, its assignments and its attempts, for which    *)
(* the sums of marks are never expanded; then the sums, and total_marks.   *)
(***************************************************************************)
EXTENDS ExamWorkflow, SumTheorems

Decisions == {"submit", "decide", "override"}

(* The part of TypeOK that does not speak of totals. *)
Shaped(t) ==
  /\ DOMAIN t = {"kind", "arg", "status", "total", "rows", "attempts"}
  /\ t.kind \in Kinds
  /\ t.status \in Live
  /\ t.attempts \in BOOLEAN

Shape ==
  /\ status \in Live \union {"gone"}
  /\ topics \in BOOLEAN
  /\ overlapped \in BOOLEAN
  /\ pc \in [Requests -> {"idle", "loaded", "ready"}]
  /\ DOMAIN task = Requests
  /\ task = [r \in Requests |-> task[r]]
  /\ \A r \in Requests : Shaped(task[r])

(* No request is about to archive an exam on its own account, and what a   *)
(* deletion has seen of attempts stays true: attempts are never removed.   *)
TaskSane ==
  \A r \in Requests :
    /\ task[r].kind \in Decisions => task[r].status # "archived"
    /\ task[r].attempts => attempted # {}

(* As long as no two requests overlap, the one in flight still sees the    *)
(* exam as it is.                                                          *)
SeesNow(r) ==
  /\ \A q \in Requests \ {r} : pc[q] = "idle"
  /\ Ready(r, "delete") /\ ~ task[r].attempts => attempted = {}
  /\ task[r].kind \in Decisions => status # "archived"

Alone == ~ overlapped => \A r \in Requests : pc[r] # "idle" => SeesNow(r)

(* Then an exam that is gone had no attempts. *)
GoneUnused == ~ overlapped /\ ~ Exists => attempted = {}

Inv == Shape /\ TaskSane /\ Alone /\ GoneUnused /\ GoneLeavesNothing
         /\ ArchivedHasAttempts /\ AttemptsAssigned

---------------------------------------------------------------------------
(* What each load puts in its task *)

(* A task a request may begin with, on the exam as it is. *)
Sound(t, phase) ==
  /\ Shaped(t)
  /\ t.attempts = FALSE
  /\ t.kind \in Decisions => t.status # "archived" /\ status # "archived"
  /\ t.kind = "delete" => phase = "loaded"
  /\ phase \in {"loaded", "ready"}

LEMMA LoadsSound ==
  ASSUME Inv, NEW r \in Requests, Load(r)
  PROVE  \E t, phase : Begin(r, t, phase) /\ Sound(t, phase)
<1> USE DEF Sound, Shaped, NoTask, Kinds, Live, Decisions, Editable
<1>1. ASSUME NEW k \in {"limit", "widen"}, Update(r, k)
      PROVE \E t, phase : Begin(r, t, phase) /\ Sound(t, phase)
  <2> DEFINE t == [NoTask EXCEPT !.kind = k]
  <2>1. Begin(r, t, "ready")
    BY <1>1 DEF Update
  <2>2. Sound(t, "ready")
    BY <1>1
  <2> QED BY <2>1, <2>2
<1>2. ASSUME NEW q \in Questions, AddItem(r, q)
      PROVE \E t, phase : Begin(r, t, phase) /\ Sound(t, phase)
  <2> DEFINE t == [NoTask EXCEPT !.kind = "add", !.arg = q, !.total = total]
  <2>1. Begin(r, t, "loaded")
    BY <1>2 DEF AddItem
  <2>2. Sound(t, "loaded")
    OBVIOUS
  <2> QED BY <2>1, <2>2
<1>3. ASSUME NEW x \in items, RemoveItem(r, x)
      PROVE \E t, phase : Begin(r, t, phase) /\ Sound(t, phase)
  <2> DEFINE t == [NoTask EXCEPT !.kind = "remove", !.arg = x, !.total = total]
  <2>1. Begin(r, t, "ready")
    BY <1>3 DEF RemoveItem
  <2>2. Sound(t, "ready")
    OBVIOUS
  <2> QED BY <2>1, <2>2
<1>4. ASSUME SubmitForApproval(r)
      PROVE \E t, phase : Begin(r, t, phase) /\ Sound(t, phase)
  <2> DEFINE t == [NoTask EXCEPT !.kind = "submit", !.status = "pending"]
  <2>1. Begin(r, t, "loaded") /\ status # "archived"
    BY <1>4 DEF SubmitForApproval
  <2>2. Sound(t, "loaded")
    BY <2>1
  <2> QED BY <2>1, <2>2
<1>5. ASSUME NEW d \in {"approved", "rejected"}, Process(r, d)
      PROVE \E t, phase : Begin(r, t, phase) /\ Sound(t, phase)
  <2> DEFINE t == [NoTask EXCEPT !.kind = "decide", !.status = d]
  <2>1. Begin(r, t, "ready") /\ status # "archived"
    BY <1>5 DEF Process
  <2>2. Sound(t, "ready")
    BY <1>5, <2>1
  <2> QED BY <2>1, <2>2
<1>6. ASSUME NEW new \in Live, Override(r, new)
      PROVE \E t, phase : Begin(r, t, phase) /\ Sound(t, phase)
  <2> DEFINE t == [NoTask EXCEPT !.kind = "override", !.status = new]
  <2>1. Begin(r, t, "ready") /\ status # "archived" /\ new # "archived"
    BY <1>6 DEF Override, MayOverride
  <2>2. Sound(t, "ready")
    BY <1>6, <2>1
  <2> QED BY <2>1, <2>2
<1>7. ASSUME NEW s \in Students, Assign(r, s)
      PROVE \E t, phase : Begin(r, t, phase) /\ Sound(t, phase)
  <2> DEFINE t == [NoTask EXCEPT !.kind = "assign", !.arg = s]
  <2>1. Begin(r, t, "ready")
    BY <1>7 DEF Assign
  <2>2. Sound(t, "ready")
    OBVIOUS
  <2> QED BY <2>1, <2>2
<1>8. ASSUME Delete(r)
      PROVE \E t, phase : Begin(r, t, phase) /\ Sound(t, phase)
  <2> DEFINE t == [NoTask EXCEPT !.kind = "delete", !.status = status]
  <2>1. Begin(r, t, "loaded") /\ status \in Live
    BY <1>8 DEF Delete, Begin, Exists, Inv, Shape
  <2>2. Sound(t, "loaded")
    BY <2>1
  <2> QED BY <2>1, <2>2
<1> QED BY <1>1, <1>2, <1>3, <1>4, <1>5, <1>6, <1>7, <1>8 DEF Load

---------------------------------------------------------------------------
(* The steps that only touch the request *)

LEMMA BeginStep ==
  ASSUME Inv, NEW r \in Requests, NEW t, NEW phase, Begin(r, t, phase), Sound(t, phase)
  PROVE  Inv'
<1>1. /\ pc' = [pc EXCEPT ![r] = phase] /\ pc[r] = "idle"
      /\ task' = [task EXCEPT ![r] = t]
      /\ overlapped' = (overlapped \/ AnyInFlight)
      /\ UNCHANGED <<status, total, topics, items, assigned, attempted, added>>
  BY DEF Begin, exam, rows
<1>2. Shape'
  BY <1>1 DEF Inv, Shape, Sound, AnyInFlight
<1>3. TaskSane'
  BY <1>1 DEF Inv, Shape, TaskSane, Sound
<1>4. Alone'
  <2> SUFFICES ASSUME ~ overlapped', NEW q \in Requests, pc'[q] # "idle"
               PROVE SeesNow(q)'
    BY DEF Alone
  <2>1. q = r /\ \A p \in Requests : pc[p] = "idle"
    BY <1>1 DEF AnyInFlight, Inv, Shape
  <2>2. task'[r] = t /\ pc'[r] = phase /\ \A p \in Requests \ {r} : pc'[p] = "idle"
    BY <1>1, <2>1 DEF Inv, Shape
  <2> QED BY <1>1, <2>1, <2>2 DEF SeesNow, Ready, Sound
<1>5. GoneUnused' /\ GoneLeavesNothing' /\ ArchivedHasAttempts' /\ AttemptsAssigned'
  BY <1>1 DEF Inv, GoneUnused, GoneLeavesNothing, ArchivedHasAttempts, AttemptsAssigned, Exists
<1> QED BY <1>2, <1>3, <1>4, <1>5 DEF Inv

LEMMA ReadStep ==
  ASSUME Inv, NEW r \in Requests, Read(r)
  PROVE  Inv'
<1>1. /\ pc' = [pc EXCEPT ![r] = "ready"] /\ pc[r] = "loaded"
      /\ UNCHANGED <<status, total, topics, items, assigned, attempted, added, overlapped>>
  BY DEF Read, exam, rows
<1>2. /\ DOMAIN task' = Requests
      /\ task' = [q \in Requests |-> task'[q]]
      /\ \A q \in Requests \ {r} : task'[q] = task[q]
      /\ task'[r].kind = task[r].kind
      /\ task'[r].status = task[r].status
      /\ task'[r].attempts = (task[r].kind = "delete" /\ HasAttempts)
      /\ DOMAIN task'[r] = DOMAIN task[r]
  BY DEF Read, Inv, Shape, Shaped
<1>3. Shape'
  BY <1>1, <1>2 DEF Inv, Shape, Shaped
<1>4. TaskSane'
  BY <1>1, <1>2 DEF Inv, TaskSane, HasAttempts
<1>5. Alone'
  BY <1>1, <1>2 DEF Inv, Shape, Alone, SeesNow, Ready, HasAttempts
<1>6. GoneUnused' /\ GoneLeavesNothing' /\ ArchivedHasAttempts' /\ AttemptsAssigned'
  BY <1>1 DEF Inv, GoneUnused, GoneLeavesNothing, ArchivedHasAttempts, AttemptsAssigned, Exists
<1> QED BY <1>3, <1>4, <1>5, <1>6 DEF Inv

(* The end of a request, whatever it wrote, keeps what the others know as  *)
(* long as attempts are not touched.                                       *)
LEMMA EndStep ==
  ASSUME Inv, NEW r \in Requests, pc[r] # "idle", End(r), attempted' = attempted,
         status' \in Live \union {"gone"}, topics' \in BOOLEAN
  PROVE  Shape' /\ TaskSane' /\ Alone'
<1>1. /\ pc' = [pc EXCEPT ![r] = "idle"]
      /\ task' = [task EXCEPT ![r] = NoTask]
      /\ overlapped' = overlapped
  BY DEF End
<1>2. Shaped(NoTask) /\ NoTask.kind \notin Decisions /\ NoTask.attempts = FALSE
  BY DEF NoTask, Shaped, Kinds, Live, Decisions
<1>3. Shape'
  BY <1>1, <1>2 DEF Inv, Shape
<1>4. TaskSane'
  BY <1>1, <1>2 DEF Inv, Shape, TaskSane
<1>5. Alone'
  <2> SUFFICES ASSUME ~ overlapped', NEW q \in Requests, pc'[q] # "idle"
               PROVE FALSE
    BY DEF Alone
  <2>1. q # r /\ pc[q] # "idle"
    BY <1>1 DEF Inv, Shape
  <2> QED BY <1>1, <2>1 DEF Inv, Alone, SeesNow
<1> QED BY <1>3, <1>4, <1>5

---------------------------------------------------------------------------
(* Commits *)

LEMMA CommitStep ==
  ASSUME Inv, NEW r \in Requests, Commit(r) \/ Abort(r)
  PROVE  Inv'
<1> DEFINE Kept == GoneUnused' /\ GoneLeavesNothing' /\ ArchivedHasAttempts' /\ AttemptsAssigned'
<1>0. Shaped(task[r]) /\ status \in Live \union {"gone"} /\ topics \in BOOLEAN
  BY DEF Inv, Shape
<1> USE DEF GoneUnused, GoneLeavesNothing, ArchivedHasAttempts, AttemptsAssigned, Exists, Referable,
            exam, rows
<1>1. CASE CommitTopics(r)
  <2>1. Kept
    BY <1>1 DEF Inv, CommitTopics, End
  <2>2. Shape' /\ TaskSane' /\ Alone'
    BY <1>0, <1>1, EndStep DEF CommitTopics, Ready
  <2> QED BY <2>1, <2>2 DEF Inv
<1>2. CASE CommitAdd(r)
  <2>1. Kept
    BY <1>2 DEF Inv, CommitAdd, End
  <2>2. Shape' /\ TaskSane' /\ Alone'
    BY <1>0, <1>2, EndStep DEF CommitAdd, Ready
  <2> QED BY <2>1, <2>2 DEF Inv
<1>3. CASE CommitRemove(r)
  <2>1. Kept
    BY <1>3 DEF Inv, CommitRemove, End
  <2>2. Shape' /\ TaskSane' /\ Alone'
    BY <1>0, <1>3, EndStep DEF CommitRemove, Ready
  <2> QED BY <2>1, <2>2 DEF Inv
<1>4. CASE CommitStatus(r)
  <2>1. task[r].status \in Live /\ task[r].status # "archived" /\ task[r].status # "gone"
    BY <1>0, <1>4 DEF Inv, TaskSane, CommitStatus, Decisions, Shaped, Live
  <2>2. Kept
    BY <1>4, <2>1 DEF Inv, CommitStatus, End
  <2>3. Shape' /\ TaskSane' /\ Alone'
    BY <1>0, <1>4, <2>1, EndStep DEF CommitStatus
  <2> QED BY <2>2, <2>3 DEF Inv
<1>5. CASE CommitAssign(r)
  <2>1. Kept
    BY <1>5 DEF Inv, CommitAssign, End
  <2>2. Shape' /\ TaskSane' /\ Alone'
    BY <1>0, <1>5, EndStep DEF CommitAssign, Ready
  <2> QED BY <2>1, <2>2 DEF Inv
<1>6. CASE Archive(r)
  <2>1. status' \in {status, "archived"} /\ status # "gone" /\ attempted # {}
    BY <1>0, <1>6 DEF Inv, TaskSane, Archive, Stored
  <2>2. Kept
    BY <1>6, <2>1 DEF Inv, Archive, End
  <2>3. Shape' /\ TaskSane' /\ Alone'
    BY <1>0, <1>6, <2>1, EndStep DEF Archive, Ready, Live
  <2> QED BY <2>2, <2>3 DEF Inv
<1>7. CASE Erase(r)
  <2>1. ~ overlapped => attempted = {}
    BY <1>7 DEF Inv, Alone, SeesNow, Erase, Ready
  <2>2. Kept
    BY <1>0, <1>7, <2>1 DEF Inv, Erase, End
  <2>3. Shape' /\ TaskSane' /\ Alone'
    BY <1>0, <1>7, EndStep DEF Erase, Ready
  <2> QED BY <2>2, <2>3 DEF Inv
<1>8. CASE Abort(r)
  <2>1. Kept
    BY <1>8 DEF Inv, Abort, End
  <2>2. Shape' /\ TaskSane' /\ Alone'
    BY <1>0, <1>8, EndStep DEF Abort
  <2> QED BY <2>1, <2>2 DEF Inv
<1> QED BY <1>1, <1>2, <1>3, <1>4, <1>5, <1>6, <1>7, <1>8 DEF Commit

(* A student who starts has an assignment; a request in flight now has     *)
(* company.                                                                *)
LEMMA StartStep ==
  ASSUME Inv, NEW s \in Students, Start(s)
  PROVE  Inv'
<1>1. /\ s \in assigned /\ attempted' = attempted \union {s}
      /\ overlapped' = (overlapped \/ AnyInFlight)
      /\ UNCHANGED <<status, total, topics, items, assigned, added, pc, task>>
  BY DEF Start, Invited, exam
<1>2. Shape' /\ TaskSane'
  BY <1>1 DEF Inv, Shape, Shaped, TaskSane, AnyInFlight
<1>3. Alone'
  BY <1>1 DEF Inv, Alone, AnyInFlight
<1>4. GoneUnused' /\ GoneLeavesNothing' /\ ArchivedHasAttempts' /\ AttemptsAssigned'
  BY <1>1 DEF Inv, GoneUnused, GoneLeavesNothing, ArchivedHasAttempts, AttemptsAssigned, Exists
<1> QED BY <1>2, <1>3, <1>4 DEF Inv

---------------------------------------------------------------------------
(* Theorems *)

LEMMA InvInit == Init => Inv
<1> SUFFICES ASSUME Init PROVE Inv
  OBVIOUS
<1>1. Shaped(NoTask) /\ NoTask.kind \notin Decisions /\ NoTask.attempts = FALSE
  BY DEF NoTask, Shaped, Kinds, Live, Decisions
<1>2. Shape /\ TaskSane /\ Alone
  BY <1>1 DEF Init, Shape, TaskSane, Alone, Live
<1>3. GoneUnused /\ GoneLeavesNothing /\ ArchivedHasAttempts /\ AttemptsAssigned
  BY DEF Init, GoneUnused, GoneLeavesNothing, ArchivedHasAttempts, AttemptsAssigned, Exists
<1> QED BY <1>2, <1>3 DEF Inv

LEMMA InvStep == Inv /\ [Next]_vars => Inv'
<1> SUFFICES ASSUME Inv, [Next]_vars PROVE Inv'
  OBVIOUS
<1>1. ASSUME NEW r \in Requests, Load(r) PROVE Inv'
  BY <1>1, LoadsSound, BeginStep
<1>2. ASSUME NEW r \in Requests, Read(r) PROVE Inv'
  BY <1>2, ReadStep
<1>3. ASSUME NEW r \in Requests, Commit(r) \/ Abort(r) PROVE Inv'
  BY <1>3, CommitStep
<1>4. ASSUME NEW s \in Students, Start(s) PROVE Inv'
  BY <1>4, StartStep
<1>5. CASE UNCHANGED vars
  BY <1>5 DEF vars, exam, rows, Inv, Shape, Shaped, TaskSane, Alone, SeesNow, Ready,
              GoneUnused, GoneLeavesNothing, ArchivedHasAttempts, AttemptsAssigned, Exists
<1> QED BY <1>1, <1>2, <1>3, <1>4, <1>5 DEF Next

(* The inductive invariant behind deletion and history: what each request  *)
(* has loaded, and that one that is alone sees the exam as it is (update,  *)
(* submit, approve, override and delete of ExamService).                   *)
THEOREM Invariance == Spec => []Inv
BY InvInit, InvStep, PTL DEF Spec

(* Nothing refers to an exam that was deleted, and no request that loaded  *)
(* it before it was deleted brings any of it back.                         *)
THEOREM NothingLeft == Spec => []GoneLeavesNothing
BY Invariance, PTL DEF Inv

(* However approvals, overrides and deletions race, only an exam with      *)
(* attempts is archived.                                                   *)
THEOREM ArchivedForAttempts == Spec => []ArchivedHasAttempts
BY Invariance, PTL DEF Inv

(* Every attempt on an exam that is there has its assignment.              *)
THEOREM AssignmentKept == Spec => []AttemptsAssigned
BY Invariance, PTL DEF Inv

(* All three, however the requests race.                                   *)
THEOREM DeletionIsSound == Spec => []DeletionSound
<1>1. Inv => DeletionSound
  BY DEF Inv, DeletionSound
<1>2. QED
  BY <1>1, Invariance, PTL

(* Requests that never overlap keep an exam with attempts, and an archived *)
(* exam archived.                                                          *)
THEOREM HistoryIsKept == Spec => HistoryKept
<1> DEFINE Kept == ~ overlapped' => /\ attempted # {} => status' # "gone"
                                    /\ status = "archived" => status' = "archived"
<1>1. Inv /\ [Next]_vars => [Kept]_vars
  <2> SUFFICES ASSUME Inv, Next, ~ overlapped'
               PROVE  /\ attempted # {} => status' # "gone"
                      /\ status = "archived" => status' = "archived"
    OBVIOUS
  <2>1. CASE status' = status
    <3>1. ~ overlapped
      BY DEF Next, Load, Commit, CommitTopics, CommitAdd, CommitRemove, CommitStatus,
             CommitAssign, Archive, Erase, Abort, End, Read, Update, AddItem, RemoveItem,
             SubmitForApproval, Process, Override, Assign, Delete, Begin, Start
    <3>2. attempted # {} => status # "gone"
      BY <3>1 DEF Inv, GoneUnused, Exists
    <3> QED BY <2>1, <3>2
  <2>2. ASSUME NEW r \in Requests, CommitStatus(r)
        PROVE  status' # "gone" /\ status # "archived"
    <3>1. ~ overlapped /\ SeesNow(r) /\ task[r].status \in Live
      BY <2>2 DEF CommitStatus, End, Inv, Alone, Shape, Shaped
    <3> QED BY <2>2, <3>1 DEF CommitStatus, SeesNow, Decisions, Live
  <2>3. ASSUME NEW r \in Requests, Archive(r)
        PROVE  status' = "archived" \/ status' = status
    BY <2>3 DEF Archive, Stored
  <2>4. ASSUME NEW r \in Requests, Erase(r)
        PROVE  attempted = {} /\ status # "archived"
    <3>1. ~ overlapped /\ SeesNow(r)
      BY <2>4 DEF Erase, Ready, End, Inv, Alone
    <3> QED BY <2>4, <3>1 DEF Erase, SeesNow, Inv, ArchivedHasAttempts
  <2>5. ASSUME NEW r \in Requests, Load(r) \/ Read(r) \/ Abort(r) PROVE status' = status
    BY <2>5, LoadsSound DEF Begin, Read, Abort, exam
  <2>6. ASSUME NEW s \in Students, Start(s) PROVE status' = status
    BY <2>6 DEF Start, exam
  <2>7. ASSUME NEW r \in Requests, CommitTopics(r) \/ CommitAdd(r) \/ CommitRemove(r)
                                   \/ CommitAssign(r)
        PROVE  status' = status
    BY <2>7 DEF CommitTopics, CommitAdd, CommitRemove, CommitAssign, exam
  <2>8. ASSUME NEW r \in Requests, Archive(r)
        PROVE  /\ attempted # {} => status' # "gone"
               /\ status = "archived" => status' = "archived"
    BY <2>1, <2>3, <2>8
  <2>9. ASSUME NEW r \in Requests, Commit(r)
        PROVE  /\ attempted # {} => status' # "gone"
               /\ status = "archived" => status' = "archived"
    BY <2>1, <2>2, <2>4, <2>7, <2>8, <2>9 DEF Commit
  <2> QED
    BY <2>1, <2>5, <2>6, <2>9 DEF Next
<1> QED BY <1>1, Invariance, PTL DEF Spec, HistoryKept

---------------------------------------------------------------------------
(* The marks of a set of questions                                         *)

(* One member of a set counts once in the marks of an exam's questions.    *)
LEMMA SumOfUnfolds ==
  ASSUME NEW rs \in SUBSET Rows, IsFiniteSet(rs)
  PROVE  \E g : g = AddStep([x \in rs |-> Marks[x[1]]], rs, g) /\ SumOf(rs) = g[rs]
<1> DEFINE w       == [x \in rs |-> Marks[x[1]]]
           step(g) == [s \in SUBSET rs |->
                         IF s = {} THEN 0 ELSE Marks[Pick(s)[1]] + g[s \ {Pick(s)}]]
<1>1. SumOf(rs) = (CHOOSE g : g = step(g))[rs]
  BY Zenon DEF SumOf, MapThenSumSet, MapThenFoldSet, Pick
<1>2. \A g : step(g) = AddStep(w, rs, g)
  <2>1. \A s \in SUBSET rs : s # {} => w[Pick(s)] = Marks[Pick(s)[1]]
    BY Picked
  <2>2. QED
    BY <2>1 DEF AddStep
<1>3. \E g : g = step(g)
  <2>0. w \in [rs -> Nat]
    BY MarksAssumption DEF Rows
  <2> HIDE DEF w, step
  <2>1. PICK g : g = AddStep(w, rs, g)
    BY <2>0, SumExists
  <2>2. g = step(g)
    BY <1>2, <2>1
  <2>3. QED
    BY <2>2
<1> HIDE DEF step
<1>4. QED
  BY <1>1, <1>2, <1>3

LEMMA SumOfTakes ==
  ASSUME NEW rs \in SUBSET Rows, IsFiniteSet(rs)
  PROVE  /\ rs = {} => SumOf(rs) = 0
         /\ SumOf(rs) \in Nat
         /\ \A x \in rs : SumOf(rs) = Marks[x[1]] + SumOf(rs \ {x})
<1> DEFINE w == [x \in rs |-> Marks[x[1]]]
<1>1. PICK g : g = AddStep(w, rs, g) /\ SumOf(rs) = g[rs]
  BY SumOfUnfolds
<1>2. w \in [rs -> Nat] /\ \A x \in rs : w[x] = Marks[x[1]]
  BY MarksAssumption DEF Rows
<1> HIDE DEF w
<1>3. /\ g[{}] = 0
      /\ g[rs] \in Nat
      /\ \A x \in rs : g[rs] = w[x] + g[rs \ {x}]
  <2>1. /\ g[{}] = 0
        /\ \A s \in SUBSET rs : g[s] \in Nat /\ \A x \in s : g[s] = w[x] + g[s \ {x}]
    BY <1>1, <1>2, SumTakes
  <2>2. rs \in SUBSET rs
    OBVIOUS
  <2>3. QED
    BY <2>1, <2>2
<1>4. ASSUME NEW x \in rs PROVE g[rs \ {x}] = SumOf(rs \ {x})
  <2>1. rs \ {x} \in SUBSET Rows /\ rs \ {x} \in SUBSET rs /\ IsFiniteSet(rs \ {x})
    BY FS_RemoveElement
  <2> DEFINE v == [y \in rs \ {x} |-> Marks[y[1]]]
  <2>2. PICK h : h = AddStep(v, rs \ {x}, h) /\ SumOf(rs \ {x}) = h[rs \ {x}]
    BY <2>1, SumOfUnfolds
  <2>3. \A y \in rs \ {x} : w[y] = v[y]
    BY <1>2
  <2> HIDE DEF v
  <2>4. QED
    BY <1>1, <2>1, <2>2, <2>3, SumAgrees
<1>5. QED
  BY <1>1, <1>2, <1>3, <1>4

---------------------------------------------------------------------------
(* The total marks                                                         *)

(* What a request is about is of the kind it should be. *)
ArgsSane ==
  \A r \in Requests :
    /\ IsFiniteSet(task[r].rows)
    /\ task[r].kind = "add" => task[r].arg \in Questions
    /\ task[r].kind = "remove" => task[r].arg \in Rows
    /\ task[r].kind = "assign" => task[r].arg \in Students

(* The one request in flight has read the questions and the total there    *)
(* are, and the row it takes away is one of them.                          *)
SeesPaper(r) ==
  /\ task[r].kind \in {"add", "remove"} => task[r].total = total
  /\ Ready(r, "add") => task[r].rows = items
  /\ task[r].kind = "remove" => task[r].arg \in items

PaperSeen == ~ overlapped => \A r \in Requests : pc[r] # "idle" => SeesPaper(r)

PaperInv == Inv /\ TypeOK /\ ArgsSane /\ IsFiniteSet(items) /\ PaperSeen /\ PaperAddsUp

(* A request that begins with a task of the right type, knowing the total. *)
BeginsWell(t, phase) ==
  /\ t \in Tasks /\ t.rows = {}
  /\ t.kind = "add" => t.arg \in Questions /\ t.total = total /\ phase = "loaded"
  /\ t.kind = "remove" => t.arg \in items /\ t.total = total
  /\ t.kind = "assign" => t.arg \in Students
  /\ phase \in {"loaded", "ready"}

LEMMA LoadsWell ==
  ASSUME PaperInv, NEW r \in Requests, Load(r)
  PROVE  \E t, phase : Begin(r, t, phase) /\ BeginsWell(t, phase)
<1>0. items \subseteq Rows /\ total \in Nat
  BY DEF PaperInv, TypeOK
<1> USE DEF BeginsWell, NoTask, Tasks, Kinds, Args, Live
<1>1. ASSUME NEW k \in {"limit", "widen"}, Update(r, k)
      PROVE  \E t, phase : Begin(r, t, phase) /\ BeginsWell(t, phase)
  <2> DEFINE t == [NoTask EXCEPT !.kind = k]
  <2>1. Begin(r, t, "ready")
    BY <1>1 DEF Update
  <2>2. BeginsWell(t, "ready")
    BY <1>0, <1>1
  <2>3. QED
    BY <2>1, <2>2
<1>2. ASSUME NEW q \in Questions, AddItem(r, q)
      PROVE  \E t, phase : Begin(r, t, phase) /\ BeginsWell(t, phase)
  <2> DEFINE t == [NoTask EXCEPT !.kind = "add", !.arg = q, !.total = total]
  <2>1. Begin(r, t, "loaded")
    BY <1>2 DEF AddItem
  <2>2. BeginsWell(t, "loaded")
    BY <1>0, <1>2
  <2>3. QED
    BY <2>1, <2>2
<1>3. ASSUME NEW x \in items, RemoveItem(r, x)
      PROVE  \E t, phase : Begin(r, t, phase) /\ BeginsWell(t, phase)
  <2> DEFINE t == [NoTask EXCEPT !.kind = "remove", !.arg = x, !.total = total]
  <2>1. Begin(r, t, "ready")
    BY <1>3 DEF RemoveItem
  <2>2. BeginsWell(t, "ready")
    BY <1>0, <1>3
  <2>3. QED
    BY <2>1, <2>2
<1>4. ASSUME SubmitForApproval(r)
      PROVE  \E t, phase : Begin(r, t, phase) /\ BeginsWell(t, phase)
  <2> DEFINE t == [NoTask EXCEPT !.kind = "submit", !.status = "pending"]
  <2>1. Begin(r, t, "loaded")
    BY <1>4 DEF SubmitForApproval
  <2>2. BeginsWell(t, "loaded")
    BY <1>0, <1>4
  <2>3. QED
    BY <2>1, <2>2
<1>5. ASSUME NEW d \in {"approved", "rejected"}, Process(r, d)
      PROVE  \E t, phase : Begin(r, t, phase) /\ BeginsWell(t, phase)
  <2> DEFINE t == [NoTask EXCEPT !.kind = "decide", !.status = d]
  <2>1. Begin(r, t, "ready")
    BY <1>5 DEF Process
  <2>2. BeginsWell(t, "ready")
    BY <1>0, <1>5
  <2>3. QED
    BY <2>1, <2>2
<1>6. ASSUME NEW new \in Live, Override(r, new)
      PROVE  \E t, phase : Begin(r, t, phase) /\ BeginsWell(t, phase)
  <2> DEFINE t == [NoTask EXCEPT !.kind = "override", !.status = new]
  <2>1. Begin(r, t, "ready")
    BY <1>6 DEF Override
  <2>2. BeginsWell(t, "ready")
    BY <1>0, <1>6
  <2>3. QED
    BY <2>1, <2>2
<1>7. ASSUME NEW s \in Students, Assign(r, s)
      PROVE  \E t, phase : Begin(r, t, phase) /\ BeginsWell(t, phase)
  <2> DEFINE t == [NoTask EXCEPT !.kind = "assign", !.arg = s]
  <2>1. Begin(r, t, "ready")
    BY <1>7 DEF Assign
  <2>2. BeginsWell(t, "ready")
    BY <1>0, <1>7
  <2>3. QED
    BY <2>1, <2>2
<1>8. ASSUME Delete(r)
      PROVE  \E t, phase : Begin(r, t, phase) /\ BeginsWell(t, phase)
  <2> DEFINE t == [NoTask EXCEPT !.kind = "delete", !.status = status]
  <2>1. Begin(r, t, "loaded") /\ status \in Live
    BY <1>8 DEF Delete, Begin, Exists, PaperInv, TypeOK
  <2>2. BeginsWell(t, "loaded")
    BY <1>0, <1>8, <2>1
  <2>3. QED
    BY <2>1, <2>2
<1>9. QED
  BY <1>1, <1>2, <1>3, <1>4, <1>5, <1>6, <1>7, <1>8 DEF Load

LEMMA BeginPaper ==
  ASSUME PaperInv, NEW r \in Requests, NEW t, NEW phase, Begin(r, t, phase), BeginsWell(t, phase)
  PROVE  TypeOK' /\ ArgsSane' /\ IsFiniteSet(items') /\ PaperSeen' /\ PaperAddsUp'
<1>1. /\ pc' = [pc EXCEPT ![r] = phase] /\ pc[r] = "idle"
      /\ task' = [task EXCEPT ![r] = t]
      /\ overlapped' = (overlapped \/ AnyInFlight)
      /\ UNCHANGED <<status, total, topics, items, assigned, attempted, added>>
  BY DEF Begin, exam, rows
<1>2. TypeOK'
  BY <1>1 DEF PaperInv, TypeOK, BeginsWell, AnyInFlight
<1>3. ArgsSane'
  <2>1. IsFiniteSet({})
    BY FS_EmptySet
  <2>2. items \subseteq Rows /\ DOMAIN task = Requests
    BY DEF PaperInv, TypeOK
  <2>3. QED
    BY <1>1, <2>1, <2>2 DEF PaperInv, ArgsSane, BeginsWell
<1>4. PaperSeen'
  <2> SUFFICES ASSUME ~ overlapped', NEW q \in Requests, pc'[q] # "idle"
               PROVE SeesPaper(q)'
    BY DEF PaperSeen
  <2>1. q = r
    BY <1>1 DEF AnyInFlight, PaperInv, TypeOK
  <2>2. task'[r] = t /\ pc'[r] = phase
    BY <1>1 DEF PaperInv, TypeOK
  <2>3. QED
    BY <1>1, <2>1, <2>2 DEF SeesPaper, Ready, BeginsWell
<1>5. PaperAddsUp'
  <2>1. SumOf(items') = SumOf(items)
    BY <1>1
  <2>2. QED
    BY <1>1, <2>1 DEF PaperInv, PaperAddsUp, Exists
<1>6. QED
  BY <1>1, <1>2, <1>3, <1>4, <1>5 DEF PaperInv

(* The questions are read, while nobody else is in flight. *)
LEMMA ReadPaper ==
  ASSUME PaperInv, NEW r \in Requests, Read(r)
  PROVE  TypeOK' /\ ArgsSane' /\ IsFiniteSet(items') /\ PaperSeen' /\ PaperAddsUp'
<1> DEFINE new == IF task[r].kind = "delete" THEN {} ELSE items
           had == task[r].kind = "delete" /\ HasAttempts
<1>1. /\ pc' = [pc EXCEPT ![r] = "ready"] /\ pc[r] = "loaded"
      /\ UNCHANGED <<status, total, topics, items, assigned, attempted, added, overlapped>>
  BY DEF Read, exam, rows
<1>2. task' = [task EXCEPT ![r] = [task[r] EXCEPT !.rows = new, !.attempts = had]]
  BY DEF Read, PaperInv, TypeOK
<1>3. new \in SUBSET Rows /\ IsFiniteSet(new) /\ had \in BOOLEAN /\ (task[r].kind = "add" => new = items)
  BY FS_EmptySet DEF PaperInv, TypeOK
<1> HIDE DEF new, had
<1>4. task[r] \in Tasks
  BY DEF PaperInv, TypeOK
<1> DEFINE t == [task[r] EXCEPT !.rows = new, !.attempts = had]
<1>5. /\ t \in Tasks /\ t.rows = new
      /\ t.kind = task[r].kind /\ t.arg = task[r].arg /\ t.total = task[r].total
  BY <1>3, <1>4 DEF Tasks
<1> HIDE DEF t
<1>6. /\ task' \in [Requests -> Tasks] /\ pc' \in [Requests -> {"idle", "loaded", "ready"}]
      /\ task'[r] = t /\ pc'[r] = "ready"
      /\ \A q \in Requests \ {r} : task'[q] = task[q] /\ pc'[q] = pc[q]
  BY <1>1, <1>2, <1>5 DEF t, PaperInv, TypeOK
<1>7. TypeOK'
  BY <1>1, <1>6 DEF PaperInv, TypeOK
<1>8. ArgsSane'
  BY <1>3, <1>5, <1>6 DEF PaperInv, ArgsSane
<1>9. PaperSeen'
  <2>1. ~ overlapped => SeesPaper(r)'
    BY <1>1, <1>3, <1>5, <1>6 DEF PaperInv, PaperSeen, SeesPaper, Ready
  <2>2. ASSUME ~ overlapped, NEW q \in Requests, q # r, pc[q] # "idle" PROVE SeesPaper(q)'
    BY <1>1, <1>6, <2>2 DEF PaperInv, PaperSeen, SeesPaper, Ready
  <2>3. QED
    BY <1>1, <1>6, <2>1, <2>2 DEF PaperSeen
<1>10. PaperAddsUp'
  <2>1. SumOf(items') = SumOf(items)
    BY <1>1
  <2>2. QED
    BY <1>1, <2>1 DEF PaperInv, PaperAddsUp, Exists
<1>11. QED
  BY <1>1, <1>7, <1>8, <1>9, <1>10 DEF PaperInv

(* When a request ends that was alone, nothing is in flight. *)
LEMMA EndPaper ==
  ASSUME PaperInv, NEW r \in Requests, pc[r] # "idle", End(r)
  PROVE  /\ pc' \in [Requests -> {"idle", "loaded", "ready"}]
         /\ task' \in [Requests -> Tasks]
         /\ overlapped' = overlapped
         /\ ArgsSane'
         /\ PaperSeen'
         /\ ~ overlapped => SeesPaper(r)
<1>1. NoTask \in Tasks /\ IsFiniteSet(NoTask.rows) /\ NoTask.kind = "none"
  BY FS_EmptySet DEF NoTask, Tasks, Kinds, Args, Live
<1>2. /\ pc' = [pc EXCEPT ![r] = "idle"]
      /\ task' = [task EXCEPT ![r] = NoTask]
      /\ overlapped' = overlapped
  BY DEF End
<1> HIDE DEF NoTask
<1>3. /\ pc' \in [Requests -> {"idle", "loaded", "ready"}]
      /\ task' \in [Requests -> Tasks]
      /\ task'[r] = NoTask /\ pc'[r] = "idle"
      /\ \A q \in Requests \ {r} : task'[q] = task[q] /\ pc'[q] = pc[q]
  BY <1>1, <1>2 DEF PaperInv, TypeOK
<1>4. ArgsSane'
  BY <1>1, <1>3 DEF PaperInv, ArgsSane
<1>5. ~ overlapped => \A q \in Requests : pc'[q] = "idle"
  BY <1>3 DEF PaperInv, Inv, Alone, SeesNow
<1>6. PaperSeen'
  BY <1>2, <1>5 DEF PaperSeen
<1>7. QED
  BY <1>2, <1>3, <1>4, <1>6 DEF PaperInv, PaperSeen

(* The total of the rows that were read and the new one.                   *)
LEMMA AddPaper ==
  ASSUME PaperInv, NEW r \in Requests, CommitAdd(r)
  PROVE  TypeOK' /\ ArgsSane' /\ IsFiniteSet(items') /\ PaperSeen' /\ PaperAddsUp'
<1> DEFINE t   == task[r]
           new == IF \E x \in AlreadyThere(t.rows) : x[1] = t.arg THEN {} ELSE {<<t.arg, added>>}
<1>1. /\ pc[r] = "ready" /\ t.kind = "add" /\ Exists /\ End(r)
      /\ items' = items \union new
      /\ added' = IF new = {} THEN added ELSE added + 1
      /\ total' = Stored(SumOf(t.rows \union new), t.total, total)
      /\ UNCHANGED <<status, topics, assigned, attempted>>
  BY DEF CommitAdd, Ready, Referable
<1>2. t \in Tasks /\ t.arg \in Questions /\ IsFiniteSet(t.rows) /\ IsFiniteSet(items)
      /\ items \subseteq Rows /\ total \in Nat /\ added \in Nat
  BY <1>1 DEF PaperInv, TypeOK, ArgsSane
<1>3. new \in SUBSET Rows /\ IsFiniteSet(new)
  <2>1. <<t.arg, added>> \in Rows /\ IsFiniteSet({<<t.arg, added>>}) /\ IsFiniteSet({})
    BY <1>2, FS_EmptySet, FS_Singleton DEF Rows
  <2>2. new = {} \/ new = {<<t.arg, added>>}
    OBVIOUS
  <2> HIDE DEF new
  <2>3. QED
    BY <2>1, <2>2
<1>4. t.rows \in SUBSET Rows
  BY <1>2 DEF Tasks
<1>5. /\ IsFiniteSet(t.rows \union new) /\ IsFiniteSet(items \union new)
      /\ t.rows \union new \in SUBSET Rows /\ items \union new \in SUBSET Rows
  BY <1>2, <1>3, <1>4, FS_Union
<1>6. SumOf(t.rows \union new) \in Nat
  BY <1>5, SumOfTakes
<1>7. /\ pc' \in [Requests -> {"idle", "loaded", "ready"}]
      /\ task' \in [Requests -> Tasks]
      /\ overlapped' = overlapped /\ ArgsSane' /\ PaperSeen'
      /\ ~ overlapped => SeesPaper(r)
  BY <1>1, EndPaper
<1>8. TypeOK'
  <2>1. total' \in Nat /\ added' \in Nat
    BY <1>1, <1>2, <1>6 DEF Stored
  <2>2. QED
    BY <1>1, <1>5, <1>7, <2>1 DEF PaperInv, TypeOK
<1>9. PaperAddsUp'
  <2> SUFFICES ASSUME ~ overlapped
               PROVE  total' = SumOf(items') /\ \A x, y \in items' : x[1] = y[1] => x = y
    BY <1>7 DEF PaperAddsUp
  <2>1. t.rows = items /\ t.total = total
    BY <1>1, <1>7 DEF SeesPaper, Ready
  <2>2. total' = SumOf(items')
    BY <1>1, <2>1 DEF Stored
  <2>3. \A x, y \in items : x[1] = y[1] => x = y
    BY <1>1 DEF PaperInv, PaperAddsUp
  <2>4. CASE new = {}
    BY <1>1, <2>2, <2>3, <2>4
  <2>5. CASE new # {}
    <3>1. new = {<<t.arg, added>>} /\ \A x \in items : x[1] # t.arg
      BY <2>1, <2>5 DEF AlreadyThere
    <3> HIDE DEF new
    <3>2. \A x, y \in items' : x[1] = y[1] => x = y
      BY <1>1, <2>3, <3>1
    <3>3. QED
      BY <2>2, <3>2
  <2>6. QED
    BY <2>4, <2>5
<1>10. QED
  BY <1>1, <1>5, <1>7, <1>8, <1>9

(* The total without the marks of the row that is taken away. *)
LEMMA RemovePaper ==
  ASSUME PaperInv, NEW r \in Requests, CommitRemove(r)
  PROVE  TypeOK' /\ ArgsSane' /\ IsFiniteSet(items') /\ PaperSeen' /\ PaperAddsUp'
<1> DEFINE t == task[r]
<1>1. /\ pc[r] = "ready" /\ t.kind = "remove" /\ Exists /\ End(r)
      /\ items' = items \ {t.arg}
      /\ total' = Stored(Less(t.total, Marks[t.arg[1]]), t.total, total)
      /\ UNCHANGED <<status, topics, assigned, attempted, added>>
  BY DEF CommitRemove, Ready, Referable
<1>2. t \in Tasks /\ t.arg \in Rows /\ IsFiniteSet(items)
      /\ items \subseteq Rows /\ total \in Nat
  BY <1>1 DEF PaperInv, TypeOK, ArgsSane
<1>3. Marks[t.arg[1]] \in Nat /\ t.total \in Nat
  BY <1>2, MarksAssumption DEF Rows, Tasks
<1>4. /\ pc' \in [Requests -> {"idle", "loaded", "ready"}]
      /\ task' \in [Requests -> Tasks]
      /\ overlapped' = overlapped /\ ArgsSane' /\ PaperSeen'
      /\ ~ overlapped => SeesPaper(r)
  BY <1>1, EndPaper
<1>5. IsFiniteSet(items')
  BY <1>1, <1>2, FS_RemoveElement
<1>6. TypeOK'
  <2>1. total' \in Nat
    BY <1>1, <1>2, <1>3 DEF Stored, Less
  <2>2. QED
    BY <1>1, <1>4, <2>1 DEF PaperInv, TypeOK
<1>7. PaperAddsUp'
  <2> SUFFICES ASSUME ~ overlapped
               PROVE  total' = SumOf(items') /\ \A x, y \in items' : x[1] = y[1] => x = y
    BY <1>4 DEF PaperAddsUp
  <2>1. t.arg \in items /\ t.total = total
    BY <1>1, <1>4 DEF SeesPaper
  <2>2. total = SumOf(items) /\ \A x, y \in items : x[1] = y[1] => x = y
    BY <1>1 DEF PaperInv, PaperAddsUp
  <2>3. SumOf(items) = Marks[t.arg[1]] + SumOf(items \ {t.arg})
    BY <1>2, <2>1, SumOfTakes
  <2>4. SumOf(items \ {t.arg}) \in Nat
    BY <1>1, <1>2, <1>5, SumOfTakes
  <2>5. total' = SumOf(items \ {t.arg})
    BY <1>1, <1>2, <1>3, <2>1, <2>2, <2>3, <2>4 DEF Stored, Less
  <2>6. QED
    BY <1>1, <2>2, <2>5
<1>8. QED
  BY <1>4, <1>5, <1>6, <1>7

(* No other commit writes questions or their total, but the deletion.      *)
LEMMA OtherPaper ==
  ASSUME PaperInv, NEW r \in Requests,
         \/ CommitTopics(r) \/ CommitStatus(r) \/ CommitAssign(r)
         \/ Archive(r) \/ Erase(r) \/ Abort(r)
  PROVE  TypeOK' /\ ArgsSane' /\ IsFiniteSet(items') /\ PaperSeen' /\ PaperAddsUp'
<1>1. /\ pc[r] # "idle" /\ End(r)
      /\ UNCHANGED <<total, attempted, added>>
      /\ status' \in Live \union {"gone"} /\ topics' \in BOOLEAN /\ assigned' \subseteq Students
      /\ \/ items' = items /\ (status' # "gone" => Exists)
         \/ items' = {} /\ status' = "gone"
  <2>0. /\ task[r] \in Tasks /\ status \in Live \union {"gone"} /\ topics \in BOOLEAN
        /\ assigned \subseteq Students
        /\ task[r].kind = "assign" => task[r].arg \in Students
    BY DEF PaperInv, TypeOK, ArgsSane
  <2>1. CASE CommitTopics(r)
    BY <2>0, <2>1 DEF CommitTopics, Ready, rows, Referable
  <2>2. CASE CommitStatus(r)
    BY <2>0, <2>2 DEF CommitStatus, rows, Referable, Tasks
  <2>3. CASE CommitAssign(r)
    BY <2>0, <2>3 DEF CommitAssign, Ready, exam, Referable
  <2>4. CASE Archive(r)
    BY <2>0, <2>4 DEF Archive, Ready, rows, Referable, Stored, Live
  <2>5. CASE Erase(r)
    BY <2>0, <2>5 DEF Erase, Ready
  <2>6. CASE Abort(r)
    BY <2>0, <2>6 DEF Abort, exam, rows, Exists
  <2>7. QED
    BY <2>1, <2>2, <2>3, <2>4, <2>5, <2>6
<1>2. /\ pc' \in [Requests -> {"idle", "loaded", "ready"}]
      /\ task' \in [Requests -> Tasks]
      /\ overlapped' = overlapped /\ ArgsSane' /\ PaperSeen'
  BY <1>1, EndPaper
<1>3. TypeOK'
  BY <1>1, <1>2 DEF PaperInv, TypeOK
<1>4. IsFiniteSet(items')
  BY <1>1, FS_EmptySet DEF PaperInv
<1>5. PaperAddsUp'
  <2>1. CASE items' = items
    <3>1. SumOf(items') = SumOf(items)
      BY <2>1
    <3>2. QED
      BY <1>1, <1>2, <2>1, <3>1 DEF PaperInv, PaperAddsUp, Exists
  <2>2. CASE status' = "gone"
    BY <2>2 DEF PaperAddsUp, Exists
  <2>3. QED
    BY <1>1, <2>1, <2>2
<1>6. QED
  BY <1>2, <1>3, <1>4, <1>5

LEMMA PaperInit == Init => PaperInv
<1> SUFFICES ASSUME Init PROVE PaperInv
  OBVIOUS
<1>1. NoTask \in Tasks /\ IsFiniteSet(NoTask.rows) /\ NoTask.kind = "none"
  BY FS_EmptySet DEF NoTask, Tasks, Kinds, Args, Live
<1> HIDE DEF NoTask
<1>2. TypeOK /\ ArgsSane
  BY <1>1 DEF Init, TypeOK, ArgsSane, Live
<1>3. IsFiniteSet(items) /\ PaperSeen
  BY FS_EmptySet DEF Init, PaperSeen
<1>4. PaperAddsUp
  <2>1. items = {} /\ items \in SUBSET Rows
    BY DEF Init
  <2>2. SumOf(items) = 0
    BY <1>3, <2>1, SumOfTakes
  <2>3. QED
    BY <2>1, <2>2 DEF Init, PaperAddsUp
<1>5. QED
  BY <1>2, <1>3, <1>4, InvInit DEF PaperInv

LEMMA PaperStep == PaperInv /\ [Next]_vars => PaperInv'
<1> SUFFICES ASSUME PaperInv, [Next]_vars
             PROVE  TypeOK' /\ ArgsSane' /\ IsFiniteSet(items') /\ PaperSeen' /\ PaperAddsUp'
  BY InvStep DEF PaperInv
<1>1. ASSUME NEW r \in Requests, Load(r)
      PROVE  TypeOK' /\ ArgsSane' /\ IsFiniteSet(items') /\ PaperSeen' /\ PaperAddsUp'
  BY <1>1, LoadsWell, BeginPaper
<1>2. ASSUME NEW s \in Students, Start(s)
      PROVE  TypeOK' /\ ArgsSane' /\ IsFiniteSet(items') /\ PaperSeen' /\ PaperAddsUp'
  <2>1. /\ attempted' = attempted \union {s} /\ overlapped' = (overlapped \/ AnyInFlight)
        /\ UNCHANGED <<status, total, topics, items, assigned, added, pc, task>>
    BY <1>2 DEF Start, exam
  <2>2. TypeOK'
    BY <2>1 DEF PaperInv, TypeOK, AnyInFlight
  <2>3. ArgsSane' /\ PaperSeen'
    BY <2>1 DEF PaperInv, ArgsSane, PaperSeen, SeesPaper, Ready
  <2>4. SumOf(items') = SumOf(items) /\ IsFiniteSet(items')
    BY <2>1 DEF PaperInv
  <2>5. PaperAddsUp'
    BY <2>1, <2>4 DEF PaperInv, PaperAddsUp, Exists
  <2>6. QED
    BY <2>2, <2>3, <2>4, <2>5
<1>3. CASE UNCHANGED vars
  <2>1. UNCHANGED <<status, total, topics, items, assigned, attempted, added, pc, task, overlapped>>
    BY <1>3 DEF vars, exam, rows
  <2>2. TypeOK'
    BY <2>1 DEF PaperInv, TypeOK
  <2>3. ArgsSane' /\ PaperSeen'
    BY <2>1 DEF PaperInv, ArgsSane, PaperSeen, SeesPaper, Ready
  <2>4. SumOf(items') = SumOf(items) /\ IsFiniteSet(items')
    BY <2>1 DEF PaperInv
  <2>5. PaperAddsUp'
    BY <2>1, <2>4 DEF PaperInv, PaperAddsUp, Exists
  <2>6. QED
    BY <2>2, <2>3, <2>4, <2>5
<1>4. QED
  BY <1>1, <1>2, <1>3, ReadPaper, AddPaper, RemovePaper, OtherPaper DEF Next, Commit

(* The invariant behind the total: the rows and the total that a request   *)
(* alone has loaded are those that are stored (add_items, remove_item).    *)
THEOREM PaperInvariance == Spec => []PaperInv
BY PaperInit, PaperStep, PTL DEF Spec

(* Every reachable state is of the declared types. *)
THEOREM TypeCorrect == Spec => []TypeOK
BY PaperInvariance, PTL DEF PaperInv

(* As long as requests do not overlap, total_marks is the sum of the marks *)
(* of the exam's questions, each of which it has once.                     *)
THEOREM TotalAddsUp == Spec => []PaperAddsUp
BY PaperInvariance, PTL DEF PaperInv

=============================================================================
