---------------------------- MODULE AttemptSlots ----------------------------
(***************************************************************************)
(* Every attempt row of one student on one exam, and the requests that     *)
(* race on them (cbt_service/services/attempt_service.py).                 *)
(*                                                                         *)
(* A request runs on a thread of its own in one READ COMMITTED database    *)
(* transaction, so it is several steps here: what it loads, the row locks  *)
(* it takes, and the commit that publishes what it wrote.                  *)
(*                                                                         *)
(*   - start() reads the exam, locks the student's assignment row (SELECT  *)
(*     ... FOR UPDATE), reads the attempt rows and returns, restarts,      *)
(*     creates or refuses.                                                 *)
(*   - submit(), and every request that finds the time up, loads the       *)
(*     attempt WITHOUT a lock and later writes the row it loaded.          *)
(*   - a violation and a reset lock the attempt row before they look.      *)
(*                                                                         *)
(* Answers, the clock and violations of one attempt are in ExamSitting.    *)
(***************************************************************************)
EXTENDS Integers, Sequences, FiniteSets

CONSTANTS
  Requests,    \* the requests in flight
  NoRequest,   \* nobody: the assignment row is not locked
  Limits,      \* values staff give exam.max_attempts (0 counts as 1)
  MaxStarts    \* bound: how many start requests there are, over the whole run

ASSUME NoRequestAssumption == NoRequest \notin Requests
ASSUME LimitsAssumption    == Limits \subseteq Nat /\ Limits # {}
ASSUME MaxStartsAssumption == MaxStarts \in Nat

VARIABLES
  attempts,     \* the rows, in order of attempt_number: status, started_at
  assignment,   \* ExamAssignment.status
  maxAttempts,  \* exam.max_attempts
  highest,      \* history: the most attempts the exam has ever allowed
  stamp,        \* the time of the last start
  lock,         \* which start holds the assignment row
  pc,           \* per request: how far its transaction is
  limitSeen,    \* per request: exam.max_attempts as loaded
  seen,         \* per request: the attempt rows as loaded
  row,          \* per request: the number of the row it will write, 0 for none
  outcome,      \* per request: the status it will write
  moves         \* per request: whether it will also write the assignment

exam    == <<maxAttempts, highest>>
locals  == <<limitSeen, seen, row, outcome, moves>>
vars    == <<attempts, assignment, exam, stamp, lock, pc, locals>>

Outcomes     == {"submitted", "terminated", "reset"}
RowStatus    == Outcomes \union {"started"}
Rows         == [status : RowStatus, startedAt : Nat]
Phases       == {"idle", "waiting", "locked", "loaded", "holding", "ready"}

TypeOK ==
  /\ attempts \in Seq(Rows)
  /\ assignment \in {"assigned", "started", "submitted"}
  /\ maxAttempts \in Limits
  /\ highest \in Nat
  /\ stamp \in Nat
  /\ lock \in Requests \union {NoRequest}
  /\ pc \in [Requests -> Phases]
  /\ limitSeen \in [Requests -> Limits]
  /\ seen \in [Requests -> Seq(Rows)]
  /\ row \in [Requests -> Nat]
  /\ outcome \in [Requests -> Outcomes]
  /\ moves \in [Requests -> BOOLEAN]

(* max_attempts = exam.max_attempts or 1 *)
Allowed(limit) == IF limit = 0 THEN 1 ELSE limit

Larger(m, n) == IF m < n THEN n ELSE m

HasStatus(rows, s) == {i \in DOMAIN rows : rows[i].status = s}

(* The most recently started of the rows that were reset. *)
LatestReset(rows) ==
  CHOOSE i \in HasStatus(rows, "reset") :
    \A j \in HasStatus(rows, "reset") : rows[j].startedAt <= rows[i].startedAt

(* The status _set_assignment_status gives the assignment with an outcome. *)
AssignmentFor(o) == IF o = "reset" THEN "assigned" ELSE "submitted"

(* Nobody has the row locked or updated and not yet committed. *)
RowFree(i) == \A r \in Requests : pc[r] \in {"holding", "ready"} => row[r] # i

(* What start() asks before it hands out an attempt. *)
AnyoneLocks == TRUE  \* faulty variant
LockFree == lock = NoRequest

InProgressIgnored(r) == TRUE  \* faulty variant
NoneInProgress(r) == HasStatus(seen[r], "started") = {}

OneTooMany(r) == Len(seen[r]) <= Allowed(limitSeen[r])  \* faulty variant
AttemptLeft(r) == Len(seen[r]) < Allowed(limitSeen[r])

(* _set_assignment_status only writes an assignment that differs. *)
MovesStartedOnly(r) == assignment = "started"  \* faulty variant
MovesAssignment(r) == assignment # AssignmentFor(outcome[r])

Init ==
  /\ attempts = <<>>
  /\ assignment = "assigned"
  /\ maxAttempts \in Limits
  /\ highest = Allowed(maxAttempts)
  /\ stamp = 0
  /\ lock = NoRequest
  /\ pc = [r \in Requests |-> "idle"]
  /\ limitSeen = [r \in Requests |-> maxAttempts]
  /\ seen = [r \in Requests |-> <<>>]
  /\ row = [r \in Requests |-> 0]
  /\ outcome = [r \in Requests |-> "submitted"]
  /\ moves = [r \in Requests |-> FALSE]

(* The request is over: what it had loaded is gone. *)
Finish(r) ==
  /\ pc' = [pc EXCEPT ![r] = "idle"]
  /\ seen' = [seen EXCEPT ![r] = <<>>]
  /\ row' = [row EXCEPT ![r] = 0]
  /\ UNCHANGED <<limitSeen, outcome, moves>>

(* A start is over, and with its transaction the lock. *)
LockLeftBehind(r) == Finish(r) /\ UNCHANGED lock  \* faulty variant
FinishStart(r) == Finish(r) /\ lock' = NoRequest

---------------------------------------------------------------------------
(* start() *)

(* The exam is read first, and not read again under the lock. *)
StartLoadExam(r) ==
  /\ pc[r] = "idle"
  /\ stamp + Cardinality({s \in Requests : pc[s] \in {"waiting", "locked"}}) < MaxStarts
  /\ pc' = [pc EXCEPT ![r] = "waiting"]
  /\ limitSeen' = [limitSeen EXCEPT ![r] = maxAttempts]
  /\ UNCHANGED <<attempts, assignment, exam, stamp, lock, seen, row, outcome, moves>>

(* SELECT the assignment FOR UPDATE, then the attempt rows. *)
StartLock(r) ==
  /\ pc[r] = "waiting"
  /\ LockFree
  /\ lock' = r
  /\ pc' = [pc EXCEPT ![r] = "locked"]
  /\ seen' = [seen EXCEPT ![r] = attempts]
  /\ UNCHANGED <<attempts, assignment, exam, stamp, limitSeen, row, outcome, moves>>

(* Under the lock it may be too early or too late for the exam: 400. *)
StartOutsideWindow(r) ==
  /\ pc[r] = "waiting"
  /\ LockFree
  /\ FinishStart(r)
  /\ UNCHANGED <<attempts, assignment, exam, stamp>>

(* Nothing to change: an attempt in progress is returned, or every attempt *)
(* allowed has been made and none was reset.                               *)
StartAnswer(r) ==
  /\ pc[r] = "locked"
  /\ ~ NoneInProgress(r) \/ (HasStatus(seen[r], "reset") = {} /\ ~ AttemptLeft(r))
  /\ FinishStart(r)
  /\ UNCHANGED <<attempts, assignment, exam, stamp>>

(* A reset attempt is restarted in place. Its UPDATE waits for whoever has *)
(* the row, and then overwrites what that request made of it.              *)
StartReactivate(r) ==
  /\ pc[r] = "locked"
  /\ NoneInProgress(r)
  /\ HasStatus(seen[r], "reset") # {}
  /\ RowFree(LatestReset(seen[r]))
  /\ attempts' = [attempts EXCEPT ![LatestReset(seen[r])] =
                    [status |-> "started", startedAt |-> stamp + 1]]
  /\ stamp' = stamp + 1
  /\ assignment' = "started"
  /\ FinishStart(r)
  /\ UNCHANGED exam

(* A new row, numbered after the rows that were read. If that number is    *)
(* taken the insert fails, the transaction is rolled back, and the row     *)
(* with the number is returned instead.                                    *)
StartCreate(r) ==
  /\ pc[r] = "locked"
  /\ NoneInProgress(r)
  /\ HasStatus(seen[r], "reset") = {}
  /\ AttemptLeft(r)
  /\ IF Len(attempts) = Len(seen[r])
       THEN /\ attempts' = Append(attempts, [status |-> "started", startedAt |-> stamp + 1])
            /\ assignment' = "started"
            /\ stamp' = stamp + 1
       ELSE UNCHANGED <<attempts, assignment, stamp>>
  /\ FinishStart(r)
  /\ UNCHANGED exam

---------------------------------------------------------------------------
(* Requests that close or reset a row *)

(* submit(), or a poll, a save or a page load that finds the time up: the  *)
(* row is read without a lock and found in progress.                       *)
SubmitLoad(r, i) ==
  /\ pc[r] = "idle"
  /\ attempts[i].status = "started"
  /\ pc' = [pc EXCEPT ![r] = "loaded"]
  /\ row' = [row EXCEPT ![r] = i]
  /\ outcome' = [outcome EXCEPT ![r] = "submitted"]
  /\ UNCHANGED <<attempts, assignment, exam, stamp, lock, limitSeen, seen, moves>>

(* _finalize_submission has scored the answers; the query in              *)
(* recompute_score flushes the attempt, which locks its row. The row is   *)
(* not looked at again.                                                    *)
SubmitFlush(r) ==
  /\ pc[r] = "loaded"
  /\ RowFree(row[r])
  /\ pc' = [pc EXCEPT ![r] = "holding"]
  /\ UNCHANGED <<attempts, assignment, exam, stamp, lock, locals>>

(* SELECT the attempt FOR UPDATE, by a violation that closes it (at the    *)
(* limit, or because the time is up) or by a reset, which any row can get. *)
LockRow(r, i, o) ==
  /\ pc[r] = "idle"
  /\ RowFree(i)
  /\ o # "reset" => attempts[i].status = "started"
  /\ pc' = [pc EXCEPT ![r] = "holding"]
  /\ row' = [row EXCEPT ![r] = i]
  /\ outcome' = [outcome EXCEPT ![r] = o]
  /\ UNCHANGED <<attempts, assignment, exam, stamp, lock, limitSeen, seen, moves>>

(* _set_assignment_status: the assignment is read without a lock, and only *)
(* written when it differs.                                                *)
ReadAssignment(r) ==
  /\ pc[r] = "holding"
  /\ pc' = [pc EXCEPT ![r] = "ready"]
  /\ moves' = [moves EXCEPT ![r] = MovesAssignment(r)]
  /\ UNCHANGED <<attempts, assignment, exam, stamp, lock, limitSeen, seen, row, outcome>>

(* The commit. Writing the assignment waits for a start that has it.       *)
CloseCommit(r) ==
  /\ pc[r] = "ready"
  /\ moves[r] => LockFree
  /\ attempts' = [attempts EXCEPT ![row[r]].status = outcome[r]]
  /\ assignment' = IF moves[r] THEN AssignmentFor(outcome[r]) ELSE assignment
  /\ Finish(r)
  /\ UNCHANGED <<exam, stamp, lock>>

---------------------------------------------------------------------------
(* A transaction may fail before it commits (a lost connection, a worker   *)
(* that dies, answers deleted under a stale finalize, a deadlock): it is   *)
(* rolled back, which also gives up its lock.                              *)
Rollback(r) ==
  /\ pc[r] # "idle"
  /\ Finish(r)
  /\ lock' = IF lock = r THEN NoRequest ELSE lock
  /\ UNCHANGED <<attempts, assignment, exam, stamp>>

(* A start waits for a row whose holder waits for the start's lock. The    *)
(* database notices and ends one of the two.                               *)
Deadlocked(r, s) ==
  /\ pc[r] = "locked"
  /\ NoneInProgress(r)
  /\ HasStatus(seen[r], "reset") # {}
  /\ pc[s] = "ready"
  /\ moves[s]
  /\ row[s] = LatestReset(seen[r])

BreakDeadlock(r) ==
  \E s \in Requests : Deadlocked(r, s) /\ (Rollback(r) \/ Rollback(s))

(* update_max_attempts: staff raise or lower the limit of a live exam.     *)
SetMaxAttempts(l) ==
  /\ l # maxAttempts
  /\ maxAttempts' = l
  /\ highest' = Larger(highest, Allowed(l))
  /\ UNCHANGED <<attempts, assignment, stamp, lock, pc, locals>>

(* The steps that end a start, and those that end any other request. *)
StartFinish(r) == StartAnswer(r) \/ StartReactivate(r) \/ StartCreate(r)

StartStep(r) ==
  StartLoadExam(r) \/ StartLock(r) \/ StartOutsideWindow(r) \/ StartFinish(r)

CloseStep(r) ==
  \/ \E i \in DOMAIN attempts : SubmitLoad(r, i)
  \/ \E i \in DOMAIN attempts, o \in Outcomes : LockRow(r, i, o)
  \/ SubmitFlush(r)
  \/ ReadAssignment(r)
  \/ CloseCommit(r)

Next ==
  \/ \E r \in Requests : StartStep(r) \/ CloseStep(r) \/ Rollback(r)
  \/ \E l \in Limits : SetMaxAttempts(l)

Spec == Init /\ [][Next]_vars

(* A request that has begun goes on. The locks it waits for are free again *)
(* and again, and the database queues those who wait: strong fairness.     *)
Fairness ==
  \A r \in Requests :
    /\ SF_vars(StartLock(r) \/ StartOutsideWindow(r))
    /\ SF_vars(StartFinish(r))
    /\ SF_vars(SubmitFlush(r))
    /\ WF_vars(ReadAssignment(r))
    /\ SF_vars(CloseCommit(r))
    /\ WF_vars(BreakDeadlock(r))

FairSpec == Spec /\ Fairness

---------------------------------------------------------------------------
(* Properties *)

(* A student never has two attempts in progress on an exam, whatever       *)
(* starts, submits, violations and resets race: two start requests "wait   *)
(* for each other" on the assignment row.                                  *)
AtMostOneInProgress ==
  \A i, j \in HasStatus(attempts, "started") : i = j

(* A student is never given more attempts than the exam has allowed at     *)
(* some time: the count and the insert are one step under the lock, and    *)
(* limits seen before a change are limits the exam has had.                *)
WithinLimit == Len(attempts) <= highest

(* The student's attempts are never more than may be: in progress or at    *)
(* all.                                                                    *)
SlotsKept == AtMostOneInProgress /\ WithinLimit

(* While a start has the assignment row nobody else numbers a row: the     *)
(* unique constraint start() falls back on is never hit.                   *)
NumberIsFree == \A r \in Requests : pc[r] = "locked" => Len(seen[r]) = Len(attempts)

(* No attempt row is added while a reset one waits to be restarted: "A     *)
(* reset is meant to give the SAME attempt a clean restart, not free up a  *)
(* slot for a separate attempt record".                                    *)
NoNewRowBesideReset ==
  [][Len(attempts') > Len(attempts) => HasStatus(attempts, "reset") = {}]_vars

(* With every attempt closed and none reset, the assignment the lists and  *)
(* counts read says "submitted".                                           *)
ClosedInStep ==
  (attempts # <<>> /\ \A i \in DOMAIN attempts : attempts[i].status \in {"submitted", "terminated"})
    => assignment = "submitted"

(* Together: the rows are a series of sittings, one at a time. *)
Abstract == INSTANCE Sittings WITH
  sitting <- HasStatus(attempts, "started") # {},
  handed  <- Len(attempts),
  allowed <- highest

(* What Sittings promises holds of every interleaving of the requests. *)
OneSittingAtATime == Abstract!Spec

(* Every request ends: no start waits forever for the assignment row, and  *)
(* no pair of requests holds what the other needs.                         *)
EveryRequestEnds == \A r \in Requests : pc[r] # "idle" ~> pc[r] = "idle"

=============================================================================
