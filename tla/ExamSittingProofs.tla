------------------------- MODULE ExamSittingProofs -------------------------
(***************************************************************************)
(* Proofs about ExamSitting, for any number of requests, questions,        *)
(* answers, any limit of violations and any times.                         *)
(*                                                                         *)
(* The argument: of all the requests that hold a stale copy of the         *)
(* attempt, none can make it "started" or "terminated"; a violation does   *)
(* the latter only under the attempt's lock, where the count it took is    *)
(* still the count, because counting, resetting and closing need the lock. *)
(***************************************************************************)
EXTENDS ExamSitting, TLAPS

(* What a request in flight has decided makes sense. *)
TaskSane ==
  \A r \in Requests : pc[r] # "idle" =>
    LET t == task[r] IN
    /\ t.kind \in {"save", "late"} => t.item \in Items /\ t.answer \in Answers
    /\ t.kind = "expire" => /\ t.deadline \in Nat
                            /\ t.item # None => t.item \in Items /\ t.answer \in Answers
    /\ t.kind = "terminate" => t.locks

(* One request at a time has the attempt locked. *)
OneLocker == \A q, r \in Requests : Locks(q) /\ Locks(r) => q = r

(* A violation that is about to terminate the attempt finds it as it was   *)
(* when it took the lock: in progress, one violation below the limit.      *)
LockerCurrent ==
  \A r \in Requests : pc[r] # "idle" /\ task[r].kind = "terminate"
    => status = "started" /\ LimitReached(active + 1)

(* While an attempt is about to start over, nobody else is about to start  *)
(* it over, and nothing starts it or counts violations against it.         *)
RestartAlone ==
  \A r \in Requests : Restarts(r)
    => /\ status # "started" /\ active = 0
       /\ \A q \in Requests : Restarts(q) => q = r

IInv ==
  /\ TypeOK
  /\ TaskSane
  /\ OneLocker
  /\ LockerCurrent
  /\ RestartAlone
  /\ ViolationLimit
  /\ TerminatedAtLimit
  /\ ResetShowsNothing

---------------------------------------------------------------------------
(* Lemmas about rows *)

LEMMA NewRowType ==
  ASSUME TypeOK, NEW r \in Requests, NEW i \in Items, NEW a \in Answers
  PROVE  NewRow(r, i, a) \in Rows
BY DEF NewRow, Rows, RowIds, TypeOK

LEMMA AnsweredType ==
  ASSUME NEW rows \in SUBSET Rows, NEW x, NEW a \in Answers
  PROVE  Answered(rows, x, a) \subseteq Rows
<1>1. ASSUME NEW y \in Rows PROVE [y EXCEPT !.answer = a] \in Rows
  BY DEF Rows
<1>2. QED
  BY <1>1 DEF Answered

LEMMA ScoredType ==
  ASSUME NEW rows \in SUBSET Rows, NEW copy \in SUBSET Rows
  PROVE  Scored(rows, copy) \subseteq Rows
<1> DEFINE src(y) == CHOOSE x \in copy : x.id = y.id
<1>1. ASSUME NEW y \in Rows, NEW a \in Answers PROVE [y EXCEPT !.marked = a] \in Rows
  BY DEF Rows
<1>2. ASSUME NEW y \in rows, \E x \in copy : x.id = y.id
      PROVE  src(y).answer \in Answers
  <2>1. src(y) \in copy
    BY <1>2
  <2>2. QED
    BY <2>1 DEF Rows
<1>3. ASSUME NEW y \in rows
      PROVE  (IF \E x \in copy : x.id = y.id
                THEN [y EXCEPT !.marked = src(y).answer] ELSE y) \in Rows
  BY <1>1, <1>2
<1>4. QED
  BY <1>3 DEF Scored

(* The deadline is a number as soon as the clock has started. *)
LEMMA DeadlineType == TypeOK => Deadline \in Nat \union {None} /\ (clock # None => Deadline \in Nat)
BY TimesAssumption DEF TypeOK, Deadline, Time

---------------------------------------------------------------------------
(* The life of a request *)

LEMMA IInvInit == Init => IInv
<1> SUFFICES ASSUME Init PROVE IInv
  OBVIOUS
<1>1. NoTask \in Tasks
  BY TimesAssumption DEF NoTask, Tasks, Kinds, Time
<1>2. TypeOK
  BY <1>1, TimesAssumption DEF Init, TypeOK, Time, Statuses
<1>3. TaskSane /\ OneLocker /\ LockerCurrent /\ RestartAlone
  BY DEF Init, TaskSane, OneLocker, LockerCurrent, RestartAlone, Locks, Restarts
<1>4. ViolationLimit /\ TerminatedAtLimit /\ ResetShowsNothing
  BY DEF Init, ViolationLimit, TerminatedAtLimit, ResetShowsNothing
<1>5. QED
  BY <1>2, <1>3, <1>4 DEF IInv

(* A request that begins without a lock changes nothing but itself. *)
LEMMA BeginKeeps ==
  ASSUME IInv, NEW r \in Requests, NEW kind \in Kinds \ {"terminate"},
         NEW item \in Items \union {None}, NEW answer \in Answers \union {None},
         item = None <=> answer = None,
         kind \in {"save", "late"} => item # None,
         kind = "expire" => Deadline \in Nat,
         kind = "restart" => GivenBack /\ \A q \in Requests : ~ Restarts(q),
         Begin(r, kind, item, answer)
  PROVE  IInv'
<1> DEFINE t == [kind |-> kind, item |-> item, answer |-> answer,
                 deadline |-> Deadline, at |-> now, scored |-> score # None, locks |-> FALSE]
<1>1. t \in Tasks
  BY DeadlineType DEF IInv, TypeOK, Tasks
<1>2. /\ task' = [task EXCEPT ![r] = t]
      /\ pc' = [pc EXCEPT ![r] = "loaded"]
      /\ UNCHANGED <<now, extra, status, clock, submittedAt, score, responses, lates, active, resets, read>>
  BY DEF Begin, attempt
<1>3. /\ t.kind = kind /\ t.item = item /\ t.answer = answer
      /\ t.deadline = Deadline /\ t.locks = FALSE
  OBVIOUS
<1> HIDE DEF t
<1>4. TypeOK'
  BY <1>1, <1>2 DEF IInv, TypeOK
<1>5. /\ task'[r] = t
      /\ \A q \in Requests : q # r => task'[q] = task[q] /\ pc'[q] = pc[q]
  BY <1>2 DEF IInv, TypeOK
<1>6. TaskSane'
  BY <1>3, <1>5, NoneAssumption DEF IInv, TaskSane
<1>7. OneLocker'
  BY <1>3, <1>5 DEF IInv, OneLocker, Locks
<1>8. LockerCurrent'
  BY <1>2, <1>3, <1>5 DEF IInv, LockerCurrent, LimitReached
<1>11. RestartAlone'
  BY <1>2, <1>3, <1>5 DEF IInv, RestartAlone, Restarts, GivenBack, ResetShowsNothing
<1>9. ViolationLimit' /\ TerminatedAtLimit' /\ ResetShowsNothing'
  BY <1>2 DEF IInv, ViolationLimit, TerminatedAtLimit, ResetShowsNothing, LimitReached
<1>10. QED
  BY <1>4, <1>6, <1>7, <1>8, <1>9, <1>11 DEF IInv

(* A request that ends leaves the others as they are. *)
LEMMA EndKeeps ==
  ASSUME IInv, NEW r \in Requests, End(r)
  PROVE  /\ pc' \in [Requests -> {"idle", "loaded", "ready"}]
         /\ task' \in [Requests -> Tasks]
         /\ read' \in [Requests -> SUBSET Rows]
         /\ \A q \in Requests : pc'[q] # "idle" =>
              q # r /\ pc'[q] = pc[q] /\ task'[q] = task[q]
         /\ TaskSane'
         /\ OneLocker'
<1>1. NoTask \in Tasks
  BY TimesAssumption DEF NoTask, Tasks, Kinds, Time
<1>2. /\ pc' \in [Requests -> {"idle", "loaded", "ready"}]
      /\ task' \in [Requests -> Tasks]
      /\ read' \in [Requests -> SUBSET Rows]
      /\ \A q \in Requests : pc'[q] # "idle" =>
           q # r /\ pc'[q] = pc[q] /\ task'[q] = task[q]
  BY <1>1 DEF IInv, TypeOK, End
<1>3. TaskSane'
  BY <1>2 DEF IInv, TaskSane
<1>4. OneLocker'
  BY <1>2 DEF IInv, OneLocker, Locks
<1>5. QED
  BY <1>2, <1>3, <1>4

(* A request that ends without changing the attempt's status or violations. *)
LEMMA EndHarmless ==
  ASSUME IInv, NEW r \in Requests, End(r),
         UNCHANGED <<now, extra, status, submittedAt, score, active, resets>>,
         clock' \in Time \union {None}, responses' \subseteq Rows, lates' \subseteq Rows
  PROVE  IInv'
<1>1. TypeOK'
  BY EndKeeps DEF IInv, TypeOK
<1>2. TaskSane' /\ OneLocker'
  BY EndKeeps
<1>3. LockerCurrent'
  BY EndKeeps DEF IInv, LockerCurrent, LimitReached
<1>4. RestartAlone'
  BY EndKeeps DEF IInv, RestartAlone, Restarts
<1>5. ViolationLimit' /\ TerminatedAtLimit' /\ ResetShowsNothing'
  BY DEF IInv, ViolationLimit, TerminatedAtLimit, ResetShowsNothing, LimitReached
<1>6. QED
  BY <1>1, <1>2, <1>3, <1>4, <1>5 DEF IInv

(* While nobody else has the row locked, no other violation is about to    *)
(* terminate the attempt.                                                  *)
LEMMA NoOtherTerminates ==
  ASSUME IInv, NEW r \in Requests, RowFree(r), NEW q \in Requests, q # r, pc[q] # "idle"
  PROVE  task[q].kind # "terminate"
BY DEF IInv, TaskSane, RowFree, Locks

---------------------------------------------------------------------------
(* One lemma per kind of step *)

LEMMA SaveStep ==
  ASSUME IInv, NEW r \in Requests, NEW i \in Items, NEW a \in Answers, Save(r, i, a)
  PROVE  IInv'
<1>1. i # None /\ a # None
  BY NoneAssumption
<1>2. CASE Begin(r, "save", i, a)
  BY <1>1, <1>2, BeginKeeps DEF Kinds
<1>3. CASE TimeUp /\ Begin(r, "expire", i, a)
  <2>1. Deadline \in Nat
    BY <1>3, DeadlineType DEF IInv, TimeUp
  <2>2. QED
    BY <1>1, <1>3, <2>1, BeginKeeps DEF Kinds
<1>4. CASE Begin(r, "late", i, a)
  BY <1>1, <1>4, BeginKeeps DEF Kinds
<1>5. QED
  BY <1>2, <1>3, <1>4 DEF Save

LEMMA ReadStep ==
  ASSUME IInv, NEW r \in Requests, ReadRows(r)
  PROVE  IInv'
<1>1. /\ pc[r] = "loaded"
      /\ pc' = [pc EXCEPT ![r] = "ready"]
      /\ UNCHANGED <<now, extra, status, clock, submittedAt, score, responses, lates, active, resets, task>>
  BY DEF ReadRows, attempt
<1>2. read' \in [Requests -> SUBSET Rows]
  <2>1. responses \subseteq Rows /\ lates \subseteq Rows /\ read \in [Requests -> SUBSET Rows]
    BY DEF IInv, TypeOK
  <2>2. \A x \in responses \union lates : {x} \in SUBSET Rows
    BY <2>1
  <2>3. \E z \in SUBSET Rows : read' = [read EXCEPT ![r] = z]
    <3>1. CASE task[r].kind = "save"
      BY <2>1, <2>2, <3>1 DEF ReadRows, RowsFor
    <3>2. CASE task[r].kind = "late"
      BY <2>1, <2>2, <3>2 DEF ReadRows, RowsFor
    <3>3. CASE task[r].kind \in {"clock", "restart"}
      <4>1. read' = read
        BY <3>3 DEF ReadRows
      <4>2. read' = [read EXCEPT ![r] = read[r]] /\ read[r] \in SUBSET Rows
        BY <2>1, <4>1
      <4>3. QED
        BY <4>2
    <3>4. CASE task[r].kind \notin {"save", "late", "clock", "restart"}
      BY <2>1, <3>4 DEF ReadRows, ToMark
    <3>5. QED
      BY <3>1, <3>2, <3>3, <3>4
  <2>4. QED
    BY <2>1, <2>3
<1>3. \A q \in Requests : (pc'[q] # "idle" <=> pc[q] # "idle") /\ task'[q] = task[q]
  BY <1>1 DEF IInv, TypeOK
<1>4. TypeOK'
  BY <1>1, <1>2 DEF IInv, TypeOK
<1>5. TaskSane' /\ OneLocker' /\ RestartAlone'
  BY <1>1, <1>3 DEF IInv, TaskSane, OneLocker, Locks, RestartAlone, Restarts
<1>6. LockerCurrent'
  BY <1>1, <1>3 DEF IInv, LockerCurrent, LimitReached
<1>7. ViolationLimit' /\ TerminatedAtLimit' /\ ResetShowsNothing'
  BY <1>1 DEF IInv, ViolationLimit, TerminatedAtLimit, ResetShowsNothing, LimitReached
<1>8. QED
  BY <1>4, <1>5, <1>6, <1>7 DEF IInv

LEMMA CommitSaveStep ==
  ASSUME IInv, NEW r \in Requests, CommitSave(r)
  PROVE  IInv'
<1>1. task[r].item \in Items /\ task[r].answer \in Answers
  BY DEF CommitSave, IInv, TaskSane
<1>2. responses' \subseteq Rows
  BY <1>1, NewRowType, AnsweredType DEF CommitSave, IInv, TypeOK
<1>3. QED
  BY <1>2, EndHarmless DEF CommitSave, attempt, IInv, TypeOK

LEMMA CommitLateStep ==
  ASSUME IInv, NEW r \in Requests, CommitLate(r)
  PROVE  IInv'
<1>1. task[r].item \in Items /\ task[r].answer \in Answers
  BY DEF CommitLate, IInv, TaskSane
<1>2. lates' \subseteq Rows
  BY <1>1, NewRowType, AnsweredType DEF CommitLate, IInv, TypeOK
<1>3. QED
  BY <1>2, EndHarmless DEF CommitLate, attempt, IInv, TypeOK

LEMMA CommitClockStep ==
  ASSUME IInv, NEW r \in Requests, CommitClock(r)
  PROVE  IInv'
<1>1. clock' \in Time
  BY TimesAssumption DEF CommitClock, IInv, TypeOK, Tasks, Time
<1>2. QED
  BY <1>1, EndHarmless DEF CommitClock, IInv, TypeOK

LEMMA FailStep ==
  ASSUME IInv, NEW r \in Requests, Fail(r)
  PROVE  IInv'
BY EndHarmless DEF Fail, attempt, IInv, TypeOK

(* The one step that closes the attempt, with whatever copy. *)
LEMMA CommitCloseStep ==
  ASSUME IInv, NEW r \in Requests, CommitClose(r)
  PROVE  IInv'
<1> DEFINE t == task[r]
<1>1. /\ pc[r] = "ready"
      /\ t.kind \in {"submit", "expire", "terminate"}
      /\ RowFree(r)
      /\ responses' = Scored(responses, read[r])
      /\ \/ score' = {<<x.id, x.answer>> : x \in read[r]}
         \/ score' = score
      /\ status' = ClosedAs(t.kind)
      /\ \E s \in t.at..now :
           submittedAt' = IF t.kind = "expire" THEN Earlier(s, t.deadline) ELSE s
      /\ active' = IF t.kind = "terminate" THEN active + 1 ELSE active
      /\ UNCHANGED <<now, extra, clock, lates, resets>>
  BY DEF CommitClose
<1> USE DEF ClosedAs
<1>2. \A q \in Requests : q # r => pc'[q] = pc[q] /\ task'[q] = task[q]
  BY DEF CommitClose, End, IInv, TypeOK
<1>3. /\ pc' \in [Requests -> {"idle", "loaded", "ready"}]
      /\ task' \in [Requests -> Tasks]
      /\ read' \in [Requests -> SUBSET Rows]
      /\ TaskSane'
      /\ OneLocker'
      /\ pc'[r] # "idle" => task'[r].kind = "late"
  <2>1. CASE End(r)
    BY <2>1, EndKeeps
  <2>2. CASE /\ t.kind = "expire" /\ t.item # None
             /\ task' = [task EXCEPT ![r].kind = "late"]
             /\ pc' = [pc EXCEPT ![r] = "loaded"]
             /\ read' = [read EXCEPT ![r] = {}]
    <3>1. t \in Tasks
      BY DEF IInv, TypeOK
    <3>2. task' = [task EXCEPT ![r] = [t EXCEPT !.kind = "late"]]
      BY <2>2
    <3>3. /\ [t EXCEPT !.kind = "late"] \in Tasks
          /\ [t EXCEPT !.kind = "late"].kind = "late"
          /\ [t EXCEPT !.kind = "late"].item = t.item
          /\ [t EXCEPT !.kind = "late"].answer = t.answer
          /\ [t EXCEPT !.kind = "late"].locks = t.locks
      BY <3>1 DEF Tasks, Kinds
    <3>4. t.item \in Items /\ t.answer \in Answers
      BY <1>1, <2>2 DEF IInv, TaskSane
    <3>5. /\ pc' \in [Requests -> {"idle", "loaded", "ready"}]
          /\ task' \in [Requests -> Tasks]
          /\ read' \in [Requests -> SUBSET Rows]
      BY <2>2, <3>2, <3>3 DEF IInv, TypeOK
    <3>6. task'[r] = [t EXCEPT !.kind = "late"]
      BY <3>2 DEF IInv, TypeOK
    <3>7. TaskSane'
      BY <1>2, <3>3, <3>4, <3>6 DEF IInv, TaskSane
    <3>8. OneLocker'
      BY <1>1, <1>2, <3>3, <3>6 DEF IInv, OneLocker, Locks
    <3>9. QED
      BY <3>3, <3>5, <3>6, <3>7, <3>8
  <2>3. QED
    BY <2>1, <2>2 DEF CommitClose
<1>4. /\ score' \in Scores \union {None}
      /\ responses' \subseteq Rows
      /\ submittedAt' \in Nat
  <2>1. /\ read[r] \subseteq Rows /\ responses \subseteq Rows
        /\ t.at..now \subseteq Nat /\ score \in Scores \union {None}
    BY DEF IInv, TypeOK, Time, Tasks
  <2>2. \A x \in read[r] : <<x.id, x.answer>> \in RowIds \X Answers
    BY <2>1 DEF Rows
  <2>3. t.kind = "expire" => t.deadline \in Nat
    BY <1>1 DEF IInv, TaskSane
  <2>4. QED
    BY <1>1, <2>1, <2>2, <2>3, ScoredType DEF Earlier, Scores
<1>5. active' \in Nat
  BY <1>1 DEF IInv, TypeOK
<1>6. TypeOK'
  BY <1>1, <1>3, <1>4, <1>5 DEF IInv, TypeOK, Statuses
<1>7. LockerCurrent'
  <2>1. \A q \in Requests : pc'[q] # "idle" => task'[q].kind # "terminate"
    BY <1>1, <1>2, <1>3, NoOtherTerminates
  <2>2. QED
    BY <2>1 DEF LockerCurrent
<1>8. ViolationLimit'
  BY <1>1 DEF ViolationLimit
<1>9. TerminatedAtLimit'
  <2>1. CASE t.kind # "terminate"
    BY <1>1, <2>1 DEF TerminatedAtLimit
  <2>2. CASE t.kind = "terminate"
    <3>1. status = "started" /\ LimitReached(active + 1) /\ active \in Nat /\ active' = active + 1
      BY <1>1, <2>2 DEF IInv, LockerCurrent, TypeOK
    <3>2. active > 0 => ~ LimitReached(active)
      BY <3>1 DEF IInv, ViolationLimit
    <3>3. QED
      BY <3>1, <3>2 DEF TerminatedAtLimit, LimitReached
  <2>3. QED
    BY <2>1, <2>2
<1>10. ResetShowsNothing'
  BY <1>1 DEF ResetShowsNothing
<1>12. RestartAlone'
  <2>1. \A q \in Requests : Restarts(q)' => q # r /\ Restarts(q)
    BY <1>2, <1>3 DEF Restarts
  <2>2. (\E q \in Requests : Restarts(q)) => t.kind # "terminate"
    BY <1>1 DEF IInv, RestartAlone, LockerCurrent
  <2>3. QED
    BY <1>1, <2>1, <2>2 DEF IInv, RestartAlone
<1>13. QED
  BY <1>3, <1>6, <1>7, <1>8, <1>9, <1>10, <1>12 DEF IInv

(* An attempt that starts over was not in progress, had no violation, and  *)
(* nobody was about to terminate it.                                       *)
LEMMA CommitRestartStep ==
  ASSUME IInv, NEW r \in Requests, CommitRestart(r)
  PROVE  IInv'
<1>1. /\ RowFree(r) /\ status' = "started"
      /\ clock' \in {clock, None} /\ score' \in {score, None} /\ submittedAt' \in {submittedAt, None}
      /\ End(r)
      /\ UNCHANGED <<now, extra, responses, lates, active, resets>>
  BY DEF CommitRestart
<1>2. status # "started" /\ active = 0 /\ \A q \in Requests : Restarts(q) => q = r
  BY DEF CommitRestart, IInv, RestartAlone, Restarts
<1>3. TypeOK'
  BY <1>1, EndKeeps DEF IInv, TypeOK, Statuses
<1>4. TaskSane' /\ OneLocker'
  BY <1>1, EndKeeps
<1>5. LockerCurrent'
  BY <1>1, <1>2, EndKeeps DEF IInv, LockerCurrent
<1>6. RestartAlone'
  BY <1>1, <1>2, EndKeeps DEF RestartAlone, Restarts
<1>7. ViolationLimit' /\ TerminatedAtLimit' /\ ResetShowsNothing'
  BY <1>1, <1>2 DEF ViolationLimit, TerminatedAtLimit, ResetShowsNothing
<1>8. QED
  BY <1>3, <1>4, <1>5, <1>6, <1>7 DEF IInv

(* Counted under the lock: nobody is about to terminate the attempt. *)
LEMMA ViolationStep ==
  ASSUME IInv, NEW r \in Requests, Violation(r)
  PROVE  IInv'
<1>1. /\ pc[r] = "idle" /\ RowFree(r) /\ status = "started"
      /\ ~ LimitReached(active + 1) /\ active' = active + 1
      /\ UNCHANGED <<now, extra, status, clock, submittedAt, score, responses, lates, resets, pc, task, read>>
  BY DEF Violation, ReachesLimit, attempt, requests
<1>2. TypeOK'
  BY <1>1 DEF IInv, TypeOK
<1>3. TaskSane' /\ OneLocker' /\ RestartAlone'
  BY <1>1 DEF IInv, TaskSane, OneLocker, Locks, RestartAlone, Restarts
<1>4. LockerCurrent'
  <2>1. \A q \in Requests : pc[q] # "idle" => task[q].kind # "terminate"
    BY <1>1, NoOtherTerminates
  <2>2. QED
    BY <1>1, <2>1 DEF LockerCurrent
<1>5. ViolationLimit' /\ TerminatedAtLimit' /\ ResetShowsNothing'
  BY <1>1 DEF IInv, ViolationLimit, TerminatedAtLimit, ResetShowsNothing, LimitReached
<1>6. QED
  BY <1>2, <1>3, <1>4, <1>5 DEF IInv

(* The lock is taken: what the request found is what there is. *)
LEMMA ViolationClosesStep ==
  ASSUME IInv, NEW r \in Requests, ViolationCloses(r)
  PROVE  IInv'
<1> DEFINE t == [kind |-> IF TimeUp THEN "expire" ELSE "terminate",
                 item |-> None, answer |-> None, deadline |-> Deadline,
                 at |-> now, scored |-> score # None, locks |-> TRUE]
<1>1. t \in Tasks
  BY DeadlineType DEF IInv, TypeOK, Tasks, Kinds
<1>2. /\ pc[r] = "idle" /\ RowFree(r) /\ status = "started"
      /\ TimeUp \/ LimitReached(active + 1)
      /\ task' = [task EXCEPT ![r] = t]
      /\ read' = [read EXCEPT ![r] = responses]
      /\ pc' = [pc EXCEPT ![r] = "ready"]
      /\ UNCHANGED <<now, extra, status, clock, submittedAt, score, responses, lates, active, resets>>
  BY DEF ViolationCloses, ReachesLimit, ToMark, attempt
<1>3. /\ t.kind \in {"expire", "terminate"} /\ t.locks /\ t.item = None
      /\ t.kind = "expire" => t.deadline \in Nat
      /\ t.kind = "terminate" => LimitReached(active + 1)
  BY <1>2, DeadlineType DEF TimeUp, IInv
<1> HIDE DEF t
<1>4. TypeOK'
  BY <1>1, <1>2 DEF IInv, TypeOK
<1>5. /\ task'[r] = t
      /\ \A q \in Requests : q # r => task'[q] = task[q] /\ pc'[q] = pc[q]
  BY <1>2 DEF IInv, TypeOK
<1>6. TaskSane'
  BY <1>3, <1>5 DEF IInv, TaskSane
<1>7. OneLocker'
  BY <1>2, <1>5 DEF OneLocker, RowFree, Locks
<1>8. LockerCurrent'
  BY <1>2, <1>3, <1>5 DEF IInv, LockerCurrent, LimitReached
<1>9. ViolationLimit' /\ TerminatedAtLimit' /\ ResetShowsNothing'
  BY <1>2 DEF IInv, ViolationLimit, TerminatedAtLimit, ResetShowsNothing, LimitReached
<1>11. RestartAlone'
  BY <1>2, <1>3, <1>5 DEF IInv, RestartAlone, Restarts
<1>10. QED
  BY <1>4, <1>6, <1>7, <1>8, <1>9, <1>11 DEF IInv

(* A reset finds nobody about to terminate the attempt either. *)
LEMMA ResetStep ==
  ASSUME IInv, NEW r \in Requests, Reset(r)
  PROVE  IInv'
<1>1. /\ pc[r] = "idle" /\ RowFree(r)
      /\ resets' = resets + 1 /\ resets < MaxResets
      /\ responses' = {} /\ lates' = {} /\ active' = 0
      /\ status' = "reset" /\ submittedAt' = None /\ score' = None
      /\ UNCHANGED <<now, extra, clock, pc, task, read>>
  BY DEF Reset, requests
<1>2. TypeOK'
  BY <1>1, TimesAssumption DEF IInv, TypeOK, Statuses
<1>3. TaskSane' /\ OneLocker' /\ RestartAlone'
  BY <1>1 DEF IInv, TaskSane, OneLocker, Locks, RestartAlone, Restarts
<1>4. LockerCurrent'
  <2>1. \A q \in Requests : pc[q] # "idle" => task[q].kind # "terminate"
    BY <1>1, NoOtherTerminates
  <2>2. QED
    BY <1>1, <2>1 DEF LockerCurrent
<1>5. ViolationLimit' /\ TerminatedAtLimit' /\ ResetShowsNothing'
  BY <1>1 DEF ViolationLimit, TerminatedAtLimit, ResetShowsNothing
<1>6. QED
  BY <1>2, <1>3, <1>4, <1>5 DEF IInv

(* Time and extra time move without touching the attempt. *)
LEMMA ClockworkStep ==
  ASSUME IInv, now' \in Time, extra' \in Extras,
         UNCHANGED <<attempt, responses, lates, active, resets, requests>>
  PROVE  IInv'
<1>1. UNCHANGED <<status, clock, submittedAt, score, responses, lates, active, resets, pc, task, read>>
  BY DEF attempt, requests
<1>2. TypeOK'
  BY <1>1 DEF IInv, TypeOK
<1>3. TaskSane' /\ OneLocker' /\ RestartAlone'
  BY <1>1 DEF IInv, TaskSane, OneLocker, Locks, RestartAlone, Restarts
<1>4. LockerCurrent'
  BY <1>1 DEF IInv, LockerCurrent, LimitReached
<1>5. ViolationLimit' /\ TerminatedAtLimit' /\ ResetShowsNothing'
  BY <1>1 DEF IInv, ViolationLimit, TerminatedAtLimit, ResetShowsNothing, LimitReached
<1>6. QED
  BY <1>2, <1>3, <1>4, <1>5 DEF IInv

LEMMA IInvStep == IInv /\ [Next]_vars => IInv'
<1> SUFFICES ASSUME IInv, [Next]_vars PROVE IInv'
  OBVIOUS
<1>1. ASSUME NEW r \in Requests, Request(r) PROVE IInv'
  <2>1. ASSUME NEW i \in Items, NEW a \in Answers, Save(r, i, a) PROVE IInv'
    BY <2>1, SaveStep
  <2>2. CASE Submit(r)
    <3>1. TimeUp => Deadline \in Nat
      BY DeadlineType DEF IInv, TimeUp
    <3>2. QED
      BY <2>2, <3>1, BeginKeeps DEF Submit, Kinds
  <2>3. CASE Poll(r)
    <3>1. Deadline \in Nat
      BY <2>3, DeadlineType DEF IInv, TimeUp, Poll
    <3>2. QED
      BY <2>3, <3>1, BeginKeeps DEF Poll, Kinds
  <2>4. CASE Content(r)
    BY <2>4, BeginKeeps DEF Content, Kinds
  <2>6. CASE Restart(r)
    BY <2>6, BeginKeeps DEF Restart, Kinds
  <2>5. QED
    BY <1>1, <2>1, <2>2, <2>3, <2>4, <2>6, ReadStep, CommitSaveStep, CommitLateStep, CommitClockStep,
       CommitCloseStep, FailStep, ViolationStep, ViolationClosesStep, ResetStep, CommitRestartStep
    DEF Request
<1>2. CASE Tick
  BY <1>2, ClockworkStep, TimesAssumption DEF Tick, IInv, TypeOK, Time
<1>3. ASSUME NEW e \in Extras, SetExtra(e) PROVE IInv'
  BY <1>3, ClockworkStep DEF SetExtra, IInv, TypeOK
<1>4. CASE UNCHANGED vars
  BY <1>4, ClockworkStep DEF vars, IInv, TypeOK
<1>5. QED
  BY <1>1, <1>2, <1>3, <1>4 DEF Next

---------------------------------------------------------------------------
(* Theorems *)

(* The inductive invariant of every interleaving: one request at a time    *)
(* holds the attempt's lock, and it sees what it counted (start(), reset   *)
(* and the violations that close, which lock the attempt's row).           *)
THEOREM Invariance == Spec => []IInv
BY IInvInit, IInvStep, PTL DEF Spec

(* Every reachable state is of the declared types. *)
THEOREM TypeCorrect == Spec => []TypeOK
<1>1. IInv => TypeOK
  BY DEF IInv
<1>2. QED
  BY <1>1, Invariance, PTL

(* However many violations are reported at once, an attempt does not go on *)
(* at the limit, and a terminated one has exactly as many as it takes.     *)
THEOREM LimitKept == Spec => []LimitHolds
<1>1. IInv => LimitHolds
  BY DEF IInv, LimitHolds
<1>2. QED
  BY <1>1, Invariance, PTL

(* Whatever stale request commits after a reset, a reset attempt shows no  *)
(* result and no violation.                                                *)
THEOREM ResetLeavesNothing == Spec => []ResetShowsNothing
<1>1. IInv => ResetShowsNothing
  BY DEF IInv
<1>2. QED
  BY <1>1, Invariance, PTL

(* No violation is counted against an attempt that is not in progress. *)
THEOREM CountedWhileOpen == Spec => ViolationsOnlyWhileOpen
<1>1. IInv /\ [Next]_vars => [active' > active => status = "started"]_vars
  <2> SUFFICES ASSUME IInv, Next, active' > active PROVE status = "started"
    BY DEF vars
  <2>1. active \in Nat
    BY DEF IInv, TypeOK
  <2>2. PICK r \in Requests : Violation(r) \/ CommitClose(r)
    BY <2>1 DEF Next, Request, Save, Submit, Poll, Content, Begin, ReadRows, CommitSave, CommitLate,
       CommitClock, CommitRestart, Fail, ViolationCloses, Reset, Restart, SetExtra, Tick
  <2>3. CASE Violation(r)
    BY <2>3 DEF Violation
  <2>4. CASE CommitClose(r)
    BY <2>1, <2>4 DEF CommitClose, IInv, LockerCurrent
  <2>5. QED
    BY <2>2, <2>3, <2>4
<1>2. QED
  BY <1>1, Invariance, PTL DEF Spec, ViolationsOnlyWhileOpen

---------------------------------------------------------------------------
(* One request at a time                                                   *)
(*                                                                         *)
(* What SittingSound, AnswersFrozen and ClockKept promise is broken by     *)
(* requests that overlap.  Here each request ends before the next begins:  *)
(* what the one in flight loaded is then what is stored, also after it was *)
(* overtaken by the clock or by a change of the extra time.                *)

OneAtATime == \A q, r \in Requests : q = r

(* What the request in flight decided on still holds. *)
StillTrue(r) ==
  LET t == task[r] IN
  /\ t.kind \in {"save", "clock", "submit", "expire", "terminate"} => status = "started"
  /\ t.kind = "late" => status = "submitted"
  /\ t.kind = "restart" => status = "reset" /\ (clock # None => t.deadline # None)
  /\ t.kind = "clock" => clock = None
  /\ t.kind \in {"late", "expire"} => clock # None
  /\ t.kind # "late" => ~ t.scored

(* The one row for a question, or none where there is none. *)
RowOf(rows, item, copy) ==
  \/ copy = {} /\ RowsFor(rows, item) = {}
  \/ \E x \in RowsFor(rows, item) : copy = {x}

(* The rows it read are the rows there are. *)
ReadStillTrue(r) ==
  /\ task[r].kind = "save" => RowOf(responses, task[r].item, read[r])
  /\ task[r].kind = "late" => RowOf(lates, task[r].item, read[r])
  /\ task[r].kind \in {"submit", "expire", "terminate"} => read[r] = responses

LoadedIsStored ==
  \A r \in Requests :
    /\ pc[r] # "idle" => StillTrue(r)
    /\ pc[r] = "ready" => ReadStillTrue(r)

SerialInv == IInv /\ LoadedIsStored /\ SittingSound

(* The rows of a question are replaced one by one, and keep their ids. *)
LEMMA AnsweredOnePerQuestion ==
  ASSUME NEW rows \in SUBSET Rows, NEW x, NEW a \in Answers,
         \A y, z \in rows : y.item = z.item => y = z
  PROVE  \A y, z \in Answered(rows, x, a) : y.item = z.item => y = z
<1> DEFINE f(y) == IF y.id = x.id /\ a # x.answer THEN [y EXCEPT !.answer = a] ELSE y
<1>1. \A y \in rows : f(y).item = y.item
  BY DEF Rows
<1>2. \A y \in Answered(rows, x, a) : \E z \in rows : y = f(z)
  BY DEF Answered
<1> HIDE DEF f
<1>3. QED
  BY <1>1, <1>2

(* Marking the rows as they are changes neither what was answered nor to   *)
(* which question.                                                         *)
LEMMA ScoredAsAnswered ==
  ASSUME NEW rows \in SUBSET Rows,
         \A y, z \in rows : y.item = z.item => y = z
  PROVE  /\ {<<x.id, x.answer>> : x \in Scored(rows, rows)} = {<<x.id, x.answer>> : x \in rows}
         /\ \A y, z \in Scored(rows, rows) : y.item = z.item => y = z
<1> DEFINE f(y) == IF \E x \in rows : x.id = y.id
                     THEN [y EXCEPT !.marked = (CHOOSE x \in rows : x.id = y.id).answer]
                     ELSE y
<1>1. \A y \in rows : f(y).item = y.item /\ f(y).id = y.id /\ f(y).answer = y.answer
  BY DEF Rows
<1>2. Scored(rows, rows) = {f(y) : y \in rows}
  BY DEF Scored
<1> HIDE DEF f
<1>3. QED
  BY <1>1, <1>2

LEMMA SerialInit == Init => SerialInv
<1> SUFFICES ASSUME Init PROVE SerialInv
  OBVIOUS
<1>1. LoadedIsStored
  BY DEF Init, LoadedIsStored
<1>2. SittingSound
  BY DEF Init, SittingSound, ScoredIffClosed, ScoreMatchesAnswers, ResetIsClean,
     OneRowPerQuestion, LateOnlyAfterTime, LimitTerminates
<1>3. QED
  BY <1>1, <1>2, IInvInit DEF SerialInv

(* A step that leaves the attempt and its rows alone. *)
LEMMA SoundUntouched ==
  ASSUME SittingSound, UNCHANGED <<status, clock, submittedAt, score, responses, lates, active>>
  PROVE  SittingSound'
BY DEF SittingSound, ScoredIffClosed, ScoreMatchesAnswers, ResetIsClean, OneRowPerQuestion,
   LateOnlyAfterTime, LimitTerminates, LimitReached

(* When the one request has ended, nothing is loaded. *)
LEMMA NothingLoaded ==
  ASSUME OneAtATime, IInv, NEW r \in Requests, pc'[r] = "idle"
  PROVE  LoadedIsStored'
BY DEF OneAtATime, LoadedIsStored

LEMMA EndedIdle ==
  ASSUME IInv, NEW r \in Requests, End(r)
  PROVE  pc'[r] = "idle"
BY DEF IInv, TypeOK, End

(* An attempt in progress has no result, no late answer, and has not       *)
(* reached the limit.                                                      *)
LEMMA OpenShowsNothing ==
  ASSUME SerialInv, status \in {"started", "reset"}
  PROVE  score = None /\ submittedAt = None /\ lates = {}
BY DEF SerialInv, SittingSound, ScoredIffClosed, LateOnlyAfterTime

(* A request that begins knows what there is. *)
LEMMA BeginSerial ==
  ASSUME OneAtATime, SerialInv, NEW r \in Requests, NEW kind \in Kinds, NEW item, NEW answer,
         kind \in {"save", "clock", "submit", "expire", "terminate"} => status = "started",
         kind = "late" => status = "submitted",
         kind = "restart" => status = "reset",
         kind = "clock" => clock = None,
         kind \in {"late", "expire"} => clock # None,
         Begin(r, kind, item, answer)
  PROVE  LoadedIsStored' /\ SittingSound'
<1> DEFINE t == [kind |-> kind, item |-> item, answer |-> answer,
                 deadline |-> Deadline, at |-> now, scored |-> score # None, locks |-> FALSE]
<1>1. /\ task' = [task EXCEPT ![r] = t]
      /\ pc' = [pc EXCEPT ![r] = "loaded"]
      /\ UNCHANGED <<status, clock, submittedAt, score, responses, lates, active>>
  BY DEF Begin, attempt
<1>2. t.kind = kind /\ t.deadline = Deadline /\ t.scored = (score # None)
  OBVIOUS
<1>3. clock # None => Deadline # None
  BY DeadlineType, NoneAssumption DEF SerialInv, IInv
<1>4. kind # "late" => score = None
  BY OpenShowsNothing DEF Kinds
<1> HIDE DEF t
<1>5. task'[r] = t /\ pc'[r] = "loaded" /\ \A q \in Requests : q = r
  BY <1>1 DEF SerialInv, IInv, TypeOK, OneAtATime
<1>6. LoadedIsStored'
  BY <1>1, <1>2, <1>3, <1>4, <1>5 DEF LoadedIsStored, StillTrue
<1>7. QED
  BY <1>1, <1>6, SoundUntouched DEF SerialInv

(* The rows it reads next are the rows there are. *)
LEMMA ReadSerial ==
  ASSUME OneAtATime, SerialInv, NEW r \in Requests, ReadRows(r)
  PROVE  LoadedIsStored' /\ SittingSound'
<1>1. /\ pc[r] = "loaded" /\ pc' = [pc EXCEPT ![r] = "ready"]
      /\ UNCHANGED <<status, clock, submittedAt, score, responses, lates, active, task>>
  BY DEF ReadRows, attempt
<1>2. \A q \in Requests : q = r
  BY DEF OneAtATime
<1>3. StillTrue(r)'
  BY <1>1 DEF SerialInv, LoadedIsStored, StillTrue
<1>4. read \in [Requests -> SUBSET Rows]
  BY DEF SerialInv, IInv, TypeOK
<1>5. ReadStillTrue(r)'
  <2>1. CASE task[r].kind = "save"
    <3>1. RowOf(responses, task[r].item, read'[r])
      BY <1>4, <2>1 DEF ReadRows, RowOf
    <3>2. QED
      BY <1>1, <2>1, <3>1 DEF ReadStillTrue, RowOf, RowsFor
  <2>2. CASE task[r].kind = "late"
    <3>1. RowOf(lates, task[r].item, read'[r])
      BY <1>4, <2>2 DEF ReadRows, RowOf
    <3>2. QED
      BY <1>1, <2>2, <3>1 DEF ReadStillTrue, RowOf, RowsFor
  <2>3. CASE task[r].kind \in {"submit", "expire", "terminate"}
    BY <1>1, <1>4, <2>3 DEF ReadRows, ReadStillTrue, ToMark
  <2>4. CASE task[r].kind \notin {"save", "late", "submit", "expire", "terminate"}
    BY <1>1, <2>4 DEF ReadStillTrue
  <2>5. QED
    BY <2>1, <2>2, <2>3, <2>4
<1>6. LoadedIsStored'
  BY <1>2, <1>3, <1>5 DEF LoadedIsStored
<1>7. QED
  BY <1>1, <1>6, SoundUntouched DEF SerialInv

(* A saved answer is the only one for its question. *)
LEMMA SaveSerial ==
  ASSUME OneAtATime, SerialInv, NEW r \in Requests, CommitSave(r)
  PROVE  LoadedIsStored' /\ SittingSound'
<1>1. /\ pc[r] = "ready" /\ task[r].kind = "save" /\ End(r)
      /\ UNCHANGED <<status, clock, submittedAt, score, lates, active>>
  BY DEF CommitSave, attempt
<1>2. LoadedIsStored'
  BY <1>1, EndedIdle, NothingLoaded DEF SerialInv
<1>3. status = "started" /\ RowOf(responses, task[r].item, read[r])
  BY <1>1 DEF SerialInv, LoadedIsStored, StillTrue, ReadStillTrue
<1>4. responses \subseteq Rows /\ task[r].answer \in Answers
  BY <1>1 DEF SerialInv, IInv, TypeOK, TaskSane
<1>5. OneRowPerQuestion'
  <2>1. OneRowPerQuestion
    BY DEF SerialInv, SittingSound
  <2>2. CASE read[r] = {}
    <3> DEFINE x == NewRow(r, task[r].item, task[r].answer)
    <3>1. responses' = responses \union {x} /\ x.item = task[r].item
      BY <2>2 DEF CommitSave, NewRow
    <3>2. \A y \in responses : y.item # task[r].item
      BY <1>3, <2>2 DEF RowOf, RowsFor
    <3> HIDE DEF x
    <3>3. QED
      BY <1>1, <2>1, <3>1, <3>2 DEF OneRowPerQuestion
  <2>3. CASE read[r] # {}
    <3>1. PICK x : responses' = Answered(responses, x, task[r].answer)
      BY <2>3 DEF CommitSave
    <3>2. \A y, z \in responses' : y.item = z.item => y = z
      BY <1>4, <2>1, <3>1, AnsweredOnePerQuestion DEF OneRowPerQuestion
    <3>3. QED
      BY <1>1, <2>1, <3>2 DEF OneRowPerQuestion
  <2>4. QED
    BY <2>2, <2>3
<1>6. QED
  BY <1>1, <1>2, <1>3, <1>5 DEF SerialInv, SittingSound, ScoredIffClosed, ScoreMatchesAnswers,
     ResetIsClean, LateOnlyAfterTime, LimitTerminates, LimitReached

(* So is a late answer. *)
LEMMA LateSerial ==
  ASSUME OneAtATime, SerialInv, NEW r \in Requests, CommitLate(r)
  PROVE  LoadedIsStored' /\ SittingSound'
<1>1. /\ pc[r] = "ready" /\ task[r].kind = "late" /\ End(r)
      /\ UNCHANGED <<status, clock, submittedAt, score, responses, active>>
  BY DEF CommitLate, attempt
<1>2. LoadedIsStored'
  BY <1>1, EndedIdle, NothingLoaded DEF SerialInv
<1>3. status = "submitted" /\ clock # None /\ RowOf(lates, task[r].item, read[r])
  BY <1>1 DEF SerialInv, LoadedIsStored, StillTrue, ReadStillTrue
<1>4. lates \subseteq Rows /\ task[r].answer \in Answers
  BY <1>1 DEF SerialInv, IInv, TypeOK, TaskSane
<1>5. OneRowPerQuestion'
  <2>1. OneRowPerQuestion
    BY DEF SerialInv, SittingSound
  <2>2. CASE read[r] = {}
    <3> DEFINE x == NewRow(r, task[r].item, task[r].answer)
    <3>1. lates' = lates \union {x} /\ x.item = task[r].item
      BY <2>2 DEF CommitLate, NewRow
    <3>2. \A y \in lates : y.item # task[r].item
      BY <1>3, <2>2 DEF RowOf, RowsFor
    <3> HIDE DEF x
    <3>3. QED
      BY <1>1, <2>1, <3>1, <3>2 DEF OneRowPerQuestion
  <2>3. CASE read[r] # {}
    <3>1. PICK x : lates' = Answered(lates, x, task[r].answer)
      BY <2>3 DEF CommitLate
    <3>2. \A y, z \in lates' : y.item = z.item => y = z
      BY <1>4, <2>1, <3>1, AnsweredOnePerQuestion DEF OneRowPerQuestion
    <3>3. QED
      BY <1>1, <2>1, <3>2 DEF OneRowPerQuestion
  <2>4. QED
    BY <2>2, <2>3
<1>6. QED
  BY <1>1, <1>2, <1>3, <1>5 DEF SerialInv, SittingSound, ScoredIffClosed, ScoreMatchesAnswers,
     ResetIsClean, LateOnlyAfterTime, LimitTerminates, LimitReached

(* The clock starts, or the attempt starts over: nothing else changes. *)
LEMMA OpenSerial ==
  ASSUME OneAtATime, SerialInv, NEW r \in Requests, CommitClock(r) \/ CommitRestart(r)
  PROVE  LoadedIsStored' /\ SittingSound'
<1>1. /\ pc[r] = "ready" /\ task[r].kind \in {"clock", "restart"} /\ End(r)
      /\ UNCHANGED <<responses, lates, active>>
      /\ status' = "started"
      /\ score' \in {None, score} /\ submittedAt' \in {None, submittedAt}
  <2>1. CASE CommitClock(r)
    <3>1. status = "started"
      BY <2>1 DEF CommitClock, SerialInv, LoadedIsStored, StillTrue
    <3>2. QED
      BY <2>1, <3>1 DEF CommitClock
  <2>2. CASE CommitRestart(r)
    BY <2>2 DEF CommitRestart
  <2>3. QED
    BY <2>1, <2>2
<1>2. status \in {"started", "reset"} /\ (task[r].kind = "restart" => status = "reset")
  BY <1>1 DEF SerialInv, LoadedIsStored, StillTrue
<1>3. LoadedIsStored'
  BY <1>1, EndedIdle, NothingLoaded DEF SerialInv
<1>4. score = None /\ submittedAt = None /\ lates = {}
  BY <1>2, OpenShowsNothing
<1>5. LimitTerminates'
  <2>1. status = "reset" => active = 0
    BY DEF SerialInv, IInv, ResetShowsNothing
  <2>2. status = "started" /\ active > 0 => ~ LimitReached(active)
    BY DEF SerialInv, IInv, ViolationLimit
  <2>3. QED
    BY <1>1, <1>2, <2>1, <2>2 DEF LimitTerminates, LimitReached
<1>6. QED
  BY <1>1, <1>3, <1>4, <1>5 DEF SerialInv, SittingSound, ScoredIffClosed, ScoreMatchesAnswers,
     ResetIsClean, OneRowPerQuestion, LateOnlyAfterTime

(* A close counts the answers there are, and freezes them. *)
LEMMA CloseSerial ==
  ASSUME OneAtATime, SerialInv, NEW r \in Requests, CommitClose(r)
  PROVE  LoadedIsStored' /\ SittingSound'
<1> DEFINE t == task[r]
<1>1. /\ pc[r] = "ready" /\ t.kind \in {"submit", "expire", "terminate"}
      /\ responses' = Scored(responses, read[r])
      /\ \/ score' = {<<x.id, x.answer>> : x \in read[r]}
         \/ t.scored /\ score' = score
      /\ status' = ClosedAs(t.kind)
      /\ \E s \in t.at..now :
           submittedAt' = IF t.kind = "expire" THEN Earlier(s, t.deadline) ELSE s
      /\ active' = IF t.kind = "terminate" THEN active + 1 ELSE active
      /\ UNCHANGED <<clock, lates>>
  BY DEF CommitClose
<1>2. /\ status = "started" /\ ~ t.scored /\ read[r] = responses
      /\ t.kind = "expire" => clock # None
  BY <1>1 DEF SerialInv, LoadedIsStored, StillTrue, ReadStillTrue
<1>3. status' = IF t.kind = "terminate" THEN "terminated" ELSE "submitted"
  BY <1>1 DEF ClosedAs
<1>4. LoadedIsStored'
  <2>1. CASE End(r)
    BY <2>1, EndedIdle, NothingLoaded DEF SerialInv
  <2>2. CASE /\ t.kind = "expire"
             /\ task' = [task EXCEPT ![r].kind = "late"]
             /\ pc' = [pc EXCEPT ![r] = "loaded"]
    <3>1. t \in Tasks
      BY DEF SerialInv, IInv, TypeOK
    <3>2. task'[r] = [t EXCEPT !.kind = "late"] /\ pc'[r] = "loaded"
      BY <2>2 DEF SerialInv, IInv, TypeOK
    <3>3. task'[r].kind = "late"
      BY <3>1, <3>2 DEF Tasks
    <3>4. StillTrue(r)'
      BY <1>1, <1>2, <1>3, <2>2, <3>3 DEF StillTrue
    <3>5. \A q \in Requests : q = r
      BY DEF OneAtATime
    <3>6. QED
      BY <3>2, <3>4, <3>5 DEF LoadedIsStored
  <2>3. QED
    BY <2>1, <2>2 DEF CommitClose
<1>5. lates' = {}
  BY <1>1, <1>2, OpenShowsNothing
<1>6. score' # None /\ submittedAt' # None
  <2>1. score' \in Scores
    <3>1. responses \subseteq Rows
      BY DEF SerialInv, IInv, TypeOK
    <3>2. \A x \in responses : <<x.id, x.answer>> \in RowIds \X Answers
      BY <3>1 DEF Rows
    <3>3. QED
      BY <1>1, <1>2, <3>2 DEF Scores
  <2>2. submittedAt' \in Nat
    <3>1. t.at..now \subseteq Nat
      BY DEF SerialInv, IInv, TypeOK, Time, Tasks
    <3>2. t.kind = "expire" => t.deadline \in Nat
      BY <1>1 DEF SerialInv, IInv, TaskSane
    <3>3. QED
      BY <1>1, <3>1, <3>2 DEF Earlier
  <2>3. QED
    BY <2>1, <2>2, NoScoreAssumption, NoneAssumption
<1>7. ScoreMatchesAnswers' /\ OneRowPerQuestion'
  <2>1. responses \subseteq Rows /\ \A y, z \in responses : y.item = z.item => y = z
    BY DEF SerialInv, IInv, TypeOK, SittingSound, OneRowPerQuestion
  <2>2. responses' = Scored(responses, responses)
    BY <1>1, <1>2
  <2>3. score' = {<<x.id, x.answer>> : x \in responses}
    BY <1>1, <1>2
  <2>4. /\ {<<x.id, x.answer>> : x \in responses'} = {<<x.id, x.answer>> : x \in responses}
        /\ \A y, z \in responses' : y.item = z.item => y = z
    BY <2>1, <2>2, ScoredAsAnswered
  <2>5. QED
    BY <1>5, <2>3, <2>4 DEF ScoreMatchesAnswers, OneRowPerQuestion
<1>8. LimitTerminates'
  <2>1. active > 0 => ~ LimitReached(active)
    BY <1>2 DEF SerialInv, IInv, ViolationLimit
  <2>2. QED
    BY <1>1, <1>3, <2>1 DEF LimitTerminates, LimitReached
<1>9. QED
  BY <1>3, <1>4, <1>5, <1>6, <1>7, <1>8 DEF SittingSound, ScoredIffClosed, ResetIsClean,
     LateOnlyAfterTime

(* A violation that closes the attempt reads it under its lock. *)
LEMMA ViolationClosesSerial ==
  ASSUME OneAtATime, SerialInv, NEW r \in Requests, ViolationCloses(r)
  PROVE  LoadedIsStored' /\ SittingSound'
<1> DEFINE t == [kind |-> IF TimeUp THEN "expire" ELSE "terminate",
                 item |-> None, answer |-> None, deadline |-> Deadline,
                 at |-> now, scored |-> score # None, locks |-> TRUE]
<1>1. /\ status = "started"
      /\ task' = [task EXCEPT ![r] = t]
      /\ read' = [read EXCEPT ![r] = responses]
      /\ pc' = [pc EXCEPT ![r] = "ready"]
      /\ UNCHANGED <<status, clock, submittedAt, score, responses, lates, active>>
  BY DEF ViolationCloses, ToMark, attempt
<1>2. /\ t.kind \in {"expire", "terminate"} /\ t.scored = (score # None)
      /\ t.kind = "expire" => clock # None
  BY DEF TimeUp
<1>3. score = None
  BY <1>1, OpenShowsNothing
<1> HIDE DEF t
<1>4. task'[r] = t /\ read'[r] = responses /\ \A q \in Requests : q = r
  BY <1>1 DEF SerialInv, IInv, TypeOK, OneAtATime
<1>5. LoadedIsStored'
  BY <1>1, <1>2, <1>3, <1>4 DEF LoadedIsStored, StillTrue, ReadStillTrue
<1>6. QED
  BY <1>1, <1>5, SoundUntouched DEF SerialInv

(* A violation below the limit, and a reset, are one step each. *)
LEMMA LockedSerial ==
  ASSUME OneAtATime, SerialInv, NEW r \in Requests, Violation(r) \/ Reset(r)
  PROVE  LoadedIsStored' /\ SittingSound'
<1>1. pc'[r] = "idle"
  BY DEF Violation, Reset, requests
<1>2. LoadedIsStored'
  BY <1>1, NothingLoaded DEF SerialInv
<1>3. CASE Violation(r)
  <2>1. /\ status = "started" /\ ~ LimitReached(active + 1) /\ active' = active + 1
        /\ UNCHANGED <<status, clock, submittedAt, score, responses, lates>>
    BY <1>3 DEF Violation, ReachesLimit, attempt
  <2>2. QED
    BY <1>2, <2>1 DEF SerialInv, SittingSound, ScoredIffClosed, ScoreMatchesAnswers, ResetIsClean,
       OneRowPerQuestion, LateOnlyAfterTime, LimitTerminates, LimitReached
<1>4. CASE Reset(r)
  <2>1. /\ responses' = {} /\ lates' = {} /\ active' = 0
        /\ status' = "reset" /\ submittedAt' = None /\ score' = None
    BY <1>4 DEF Reset
  <2>2. QED
    BY <1>2, <2>1 DEF SittingSound, ScoredIffClosed, ScoreMatchesAnswers, ResetIsClean,
       OneRowPerQuestion, LateOnlyAfterTime, LimitTerminates
<1>5. QED
  BY <1>3, <1>4

LEMMA SerialStep ==
  ASSUME OneAtATime
  PROVE  SerialInv /\ [Next]_vars => SerialInv'
<1> SUFFICES ASSUME SerialInv, [Next]_vars PROVE LoadedIsStored' /\ SittingSound'
  BY IInvStep DEF SerialInv
<1>1. ASSUME NEW r \in Requests, Request(r) PROVE LoadedIsStored' /\ SittingSound'
  <2>1. ASSUME NEW i \in Items, NEW a \in Answers, Save(r, i, a)
        PROVE  LoadedIsStored' /\ SittingSound'
    BY <2>1, BeginSerial DEF Save, TimeUp, ClosedByTime, Kinds
  <2>2. CASE Submit(r) \/ Poll(r)
    BY <2>2, BeginSerial DEF Submit, Poll, TimeUp, Kinds
  <2>3. CASE Content(r) \/ Restart(r)
    BY <2>3, BeginSerial DEF Content, ClockStopped, Restart, GivenBack, Kinds
  <2>4. CASE Fail(r)
    <3>1. End(r) /\ UNCHANGED <<status, clock, submittedAt, score, responses, lates, active>>
      BY <2>4 DEF Fail, attempt
    <3>2. QED
      BY <3>1, EndedIdle, NothingLoaded, SoundUntouched DEF SerialInv
  <2>5. QED
    BY <1>1, <2>1, <2>2, <2>3, <2>4, ReadSerial, SaveSerial, LateSerial, OpenSerial, CloseSerial,
       ViolationClosesSerial, LockedSerial
    DEF Request
<1>2. ASSUME UNCHANGED <<attempt, responses, lates, active, requests>>
      PROVE  LoadedIsStored' /\ SittingSound'
  <2>1. UNCHANGED <<status, clock, submittedAt, score, responses, lates, active, pc, task, read>>
    BY <1>2 DEF attempt, requests
  <2>2. LoadedIsStored'
    BY <2>1 DEF SerialInv, LoadedIsStored, StillTrue, ReadStillTrue, RowOf, RowsFor
  <2>3. QED
    BY <2>1, <2>2, SoundUntouched DEF SerialInv
<1>3. QED
  BY <1>1, <1>2 DEF Next, Tick, SetExtra, vars

(* The invariant of requests that follow each other: what the request in   *)
(* flight has loaded of the attempt and its answers is what is stored, and *)
(* the attempt is sound.                                                   *)
THEOREM SerialInvariance == OneAtATime => (Spec => []SerialInv)
<1> SUFFICES ASSUME OneAtATime PROVE Spec => []SerialInv
  OBVIOUS
<1>1. SerialInv /\ [Next]_vars => SerialInv'
  BY SerialStep
<1>2. QED
  BY <1>1, SerialInit, PTL DEF Spec

(* The result, the answers, the late answers and the violations of an      *)
(* attempt agree, through any number of sittings, as long as requests do   *)
(* not overlap.                                                            *)
THEOREM SittingStaysSound == OneAtATime => (Spec => []SittingSound)
<1>1. SerialInv => SittingSound
  BY DEF SerialInv
<1>2. QED
  BY <1>1, SerialInvariance, PTL

(* The answers and the score of a closed attempt stay what they are until  *)
(* it is reset, as long as requests do not overlap.                        *)
THEOREM ClosedStaysClosed == OneAtATime => (Spec => AnswersFrozen)
<1> SUFFICES ASSUME OneAtATime PROVE Spec => AnswersFrozen
  OBVIOUS
<1>1. SerialInv /\ [Next]_vars =>
        [(status \in {"submitted", "terminated"} /\ status' # "reset")
           => (responses' = responses /\ score' = score)]_vars
  <2> SUFFICES ASSUME SerialInv, Next, status \in {"submitted", "terminated"}, status' # "reset"
               PROVE  responses' = responses /\ score' = score
    BY DEF vars
  <2>1. \A r \in Requests : ~ CommitSave(r) /\ ~ CommitClose(r) /\ ~ CommitRestart(r)
    BY DEF SerialInv, LoadedIsStored, StillTrue, CommitSave, CommitClose, CommitRestart
  <2>2. QED
    BY <2>1 DEF Next, Request, Save, Submit, Poll, Content, Restart, Begin, ReadRows, CommitLate,
       CommitClock, Fail, Violation, ViolationCloses, Reset, Tick, SetExtra, attempt
<1>2. QED
  BY <1>1, SerialInvariance, PTL DEF Spec, AnswersFrozen

(* The clock of an attempt is not moved again until the attempt is         *)
(* restarted, as long as requests do not overlap.                          *)
THEOREM ClockStays == OneAtATime => (Spec => ClockKept)
<1> SUFFICES ASSUME OneAtATime PROVE Spec => ClockKept
  OBVIOUS
<1>1. SerialInv /\ [Next]_vars => [clock # None /\ clock' # clock => status = "reset"]_vars
  <2> SUFFICES ASSUME SerialInv, Next, clock # None, clock' # clock PROVE status = "reset"
    BY DEF vars
  <2>1. \A r \in Requests : ~ CommitClock(r)
    BY DEF SerialInv, LoadedIsStored, StillTrue, CommitClock
  <2>2. PICK r \in Requests : CommitRestart(r)
    BY <2>1 DEF Next, Request, Save, Submit, Poll, Content, Restart, Begin, ReadRows, CommitSave,
       CommitLate, CommitClose, Fail, Violation, ViolationCloses, Reset, Tick, SetExtra, attempt
  <2>3. QED
    BY <2>2 DEF SerialInv, LoadedIsStored, StillTrue, CommitRestart
<1>2. QED
  BY <1>1, SerialInvariance, PTL DEF Spec, ClockKept

=============================================================================
