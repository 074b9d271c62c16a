---------------------------- MODULE ExamSitting ----------------------------
(***************************************************************************)
(* One attempt while it is sat: its clock, its answers, its late answers   *)
(* and its violations, and the requests of the candidate's browser and of  *)
(* staff that meet on it (attempt_service.py, violation_service.py).       *)
(*                                                                         *)
(* Requests run in parallel, each in one READ COMMITTED transaction. Most  *)
(* load the attempt WITHOUT a lock, decide, read the answers they need,    *)
(* and commit what follows from what they loaded: three steps here. The    *)
(* ORM writes only columns whose value differs from the loaded one, and    *)
(* fails when a row it updates is gone. A violation and a reset lock the   *)
(* attempt row (FOR UPDATE); while it is locked nobody else can update     *)
(* it, lock it, or insert a row that refers to it, but rows that already   *)
(* refer to it can be updated.                                             *)
(*                                                                         *)
(* The attempt's number and the student's other attempts: AttemptSlots.    *)
(* Marking by staff: Marking.                                              *)
(***************************************************************************)
EXTENDS Integers

CONSTANTS
  Requests,       \* the requests in flight
  Items,          \* the exam's questions
  Answers,        \* what can be answered
  None,           \* no value
  Duration,       \* exam.duration_minutes
  Extras,         \* values staff give exam.extra_time_seconds
  LateWindow,     \* LATE_WINDOW
  ClockSlack,     \* CLOCK_SLACK
  MaxViolations,  \* exam.max_violations, or None
  MaxTime,        \* bound: the time at which the model stops
  MaxResets       \* bound: how often staff reset the attempt

ASSUME TimesAssumption ==
  /\ Duration \in Nat /\ Extras \subseteq Nat /\ Extras # {}
  /\ LateWindow \in Nat /\ ClockSlack \in Nat
  /\ MaxTime \in Nat /\ MaxResets \in Nat
ASSUME NoneAssumption == None \notin Nat \union Items \union Answers
ASSUME ViolationsAssumption == MaxViolations \in Nat \union {None}

VARIABLES
  now,          \* the server's time
  extra,        \* exam.extra_time_seconds
  status,       \* attempt.status
  clock,        \* attempt.clock_started_at
  submittedAt,  \* attempt.submitted_at
  score,        \* the answers that final_score counts, None while not scored
  responses,    \* the saved answers, and what each was marked as
  lates,        \* the late answers that wait for a decision
  active,       \* how many violations count against max_violations
  resets,       \* how often the attempt was reset (names new rows)
  pc,           \* per request: "idle", or the transaction's progress
  task,         \* per request: what it decided to do when it loaded the attempt
  read          \* per request: the rows it read for it

attempt  == <<status, clock, submittedAt, score>>
requests == <<pc, task, read>>
vars     == <<now, extra, attempt, responses, lates, active, resets, requests>>

Time     == 0..MaxTime
Statuses == {"started", "submitted", "terminated", "reset"}
Kinds   == {"save", "late", "clock", "submit", "expire", "terminate", "restart"}
RowIds  == Items \X Requests \X (0..MaxResets)
Rows    == [id : RowIds, item : Items, answer : Answers, marked : Answers \union {None}]
Tasks   == [kind : Kinds, item : Items \union {None}, answer : Answers \union {None},
            deadline : Nat \union {None}, at : Time, scored : BOOLEAN, locks : BOOLEAN]
Scores  == SUBSET (RowIds \X Answers)
NoTask  == [kind |-> "save", item |-> None, answer |-> None, deadline |-> None,
            at |-> 0, scored |-> FALSE, locks |-> FALSE]

ASSUME NoScoreAssumption == \A s \in Scores : s # None

TypeOK ==
  /\ now \in Time
  /\ extra \in Extras
  /\ status \in Statuses
  /\ clock \in Time \union {None}
  /\ submittedAt \in Nat \union {None}
  /\ score \in Scores \union {None}
  /\ responses \subseteq Rows
  /\ lates \subseteq Rows
  /\ active \in Nat
  /\ resets \in 0..MaxResets
  /\ pc \in [Requests -> {"idle", "loaded", "ready"}]
  /\ task \in [Requests -> Tasks]
  /\ read \in [Requests -> SUBSET Rows]

Earlier(s, t) == IF s < t THEN s ELSE t

(* _deadline, from the attempt and the exam as they are loaded *)
Deadline == IF clock = None THEN None ELSE clock + Duration + extra

TimeUp == clock # None /\ now >= Deadline

(* The attempt was closed at its deadline, or a moment before. *)
ClosedByTime ==
  /\ clock # None
  /\ status = "submitted"
  /\ submittedAt # None
  /\ submittedAt >= Deadline - ClockSlack

(* The violation that is being recorded is one too many. *)
LimitReached(n) == MaxViolations # None /\ n >= MaxViolations

ReachesLimit == LimitReached(active + 1)

(* Nobody but r has the attempt row locked. *)
Locks(r)   == pc[r] # "idle" /\ task[r].locks
NeverWaits(r) == TRUE  \* faulty variant
RowFree(r) == \A q \in Requests \ {r} : ~ Locks(q)

Restarts(r) == pc[r] # "idle" /\ task[r].kind = "restart"

(* The rows a save looks for before it writes. *)
RowsFor(rows, item) == {x \in rows : x.item = item}

(* The rows a finalize marks. *)
MarkedOnly == {x \in responses : x.marked # None}  \* faulty variant
ToMark == responses

(* The clock starts only once, and start() gives back only a reset attempt. *)
ClockRestarts == TRUE  \* faulty variant
ClockStopped == clock = None

GivenBack == status = "reset"

ClosedAs(kind) == IF kind = "terminate" THEN "terminated" ELSE "submitted"

NewRow(r, item, answer) ==
  [id |-> <<item, r, resets>>, item |-> item, answer |-> answer, marked |-> None]

(* The rows after x, as it was read, is given another answer. An answer    *)
(* equal to the one that was read is not written.                          *)
Answered(rows, x, answer) ==
  {IF y.id = x.id /\ answer # x.answer THEN [y EXCEPT !.answer = answer] ELSE y : y \in rows}

(* The rows after those that were read are marked, each as it was read. *)
Scored(rows, copy) ==
  {IF \E x \in copy : x.id = y.id
     THEN [y EXCEPT !.marked = (CHOOSE x \in copy : x.id = y.id).answer]
     ELSE y : y \in rows}

Present(rows, x) == \E y \in rows : y.id = x.id

Init ==
  /\ now = 0
  /\ extra \in Extras
  /\ status = "started"
  /\ clock = None /\ submittedAt = None /\ score = None
  /\ responses = {} /\ lates = {}
  /\ active = 0
  /\ resets = 0
  /\ pc = [r \in Requests |-> "idle"]
  /\ task = [r \in Requests |-> NoTask]
  /\ read = [r \in Requests |-> {}]

---------------------------------------------------------------------------
(* A request: load and decide, read, commit *)

Begin(r, kind, item, answer) ==
  /\ pc' = [pc EXCEPT ![r] = "loaded"]
  /\ task' = [task EXCEPT ![r] = [kind |-> kind, item |-> item, answer |-> answer,
                                  deadline |-> Deadline, at |-> now,
                                  scored |-> score # None, locks |-> FALSE]]
  /\ UNCHANGED <<now, extra, attempt, responses, lates, active, resets, read>>

End(r) ==
  /\ pc' = [pc EXCEPT ![r] = "idle"]
  /\ task' = [task EXCEPT ![r] = NoTask]
  /\ read' = [read EXCEPT ![r] = {}]

(* save_response(): refused (409) in every other case *)
SaveLateToo(r, item, answer) ==  \* faulty variant
  /\ pc[r] = "idle"
  /\ \/ status = "started" /\ ~ TimeUp /\ Begin(r, "save", item, answer)
     \/ ClosedByTime /\ now <= Deadline + LateWindow /\ Begin(r, "save", item, answer)
Save(r, item, answer) ==
  /\ pc[r] = "idle"
  /\ \/ status = "started" /\ ~ TimeUp /\ Begin(r, "save", item, answer)
     \/ status = "started" /\ TimeUp /\ Begin(r, "expire", item, answer)
     \/ ClosedByTime /\ now <= Deadline + LateWindow /\ Begin(r, "late", item, answer)

Submit(r) ==
  /\ pc[r] = "idle"
  /\ status = "started"
  /\ Begin(r, IF TimeUp THEN "expire" ELSE "submit", None, None)

(* The heartbeat, and every other read of the attempt: closes it on time. *)
PollWithSlack(r) ==  \* faulty variant
  /\ pc[r] = "idle"
  /\ status = "started"
  /\ clock # None /\ now > Deadline
  /\ Begin(r, "expire", None, None)
Poll(r) ==
  /\ pc[r] = "idle"
  /\ status = "started"
  /\ TimeUp
  /\ Begin(r, "expire", None, None)

(* get_exam_content(): the questions are sent, and the clock starts. *)
Content(r) ==
  /\ pc[r] = "idle"
  /\ status = "started"
  /\ ClockStopped
  /\ now + Duration + extra <= MaxTime
  /\ Begin(r, "clock", None, None)

(* start() of an attempt that was reset: one at a time, because start()    *)
(* locks the student's assignment, but the attempt is not locked.          *)
Restart(r) ==
  /\ pc[r] = "idle"
  /\ \A q \in Requests : ~ Restarts(q)
  /\ GivenBack
  /\ Begin(r, "restart", None, None)

(* The rows are read after the attempt was, and still without a lock. *)
ReadRows(r) ==
  /\ pc[r] = "loaded"
  /\ LET t == task[r] IN
     CASE t.kind = "save" ->
            \/ RowsFor(responses, t.item) = {} /\ read' = [read EXCEPT ![r] = {}]
            \/ \E x \in RowsFor(responses, t.item) : read' = [read EXCEPT ![r] = {x}]
       [] t.kind = "late" ->
            \/ RowsFor(lates, t.item) = {} /\ read' = [read EXCEPT ![r] = {}]
            \/ \E x \in RowsFor(lates, t.item) : read' = [read EXCEPT ![r] = {x}]
       [] t.kind \in {"clock", "restart"} -> UNCHANGED read
       [] OTHER -> read' = [read EXCEPT ![r] = ToMark]
  /\ pc' = [pc EXCEPT ![r] = "ready"]
  /\ UNCHANGED <<now, extra, attempt, responses, lates, active, resets, task>>

(* An answer is added, or replaces the one that was read. *)
CommitSave(r) ==
  /\ pc[r] = "ready"
  /\ task[r].kind = "save"
  /\ \/ /\ read[r] = {}
        /\ RowFree(r)
        /\ responses' = responses \union {NewRow(r, task[r].item, task[r].answer)}
     \/ \E x \in read[r] :
          /\ Present(responses, x)
          /\ responses' = Answered(responses, x, task[r].answer)
  /\ End(r)
  /\ UNCHANGED <<now, extra, attempt, lates, active, resets>>

(* _keep_late_answer() *)
CommitLate(r) ==
  /\ pc[r] = "ready"
  /\ task[r].kind = "late"
  /\ \/ /\ read[r] = {}
        /\ RowFree(r)
        /\ lates' = lates \union {NewRow(r, task[r].item, task[r].answer)}
     \/ \E x \in read[r] :
          /\ Present(lates, x)
          /\ lates' = Answered(lates, x, task[r].answer)
  /\ End(r)
  /\ UNCHANGED <<now, extra, attempt, responses, active, resets>>

CommitClock(r) ==
  /\ pc[r] = "ready"
  /\ task[r].kind = "clock"
  /\ RowFree(r)
  /\ \E s \in task[r].at..now : clock' = s
  /\ End(r)
  /\ UNCHANGED <<now, extra, status, submittedAt, score, responses, lates, active, resets>>

(* The attempt starts over, whatever it has become since. Columns that     *)
(* were loaded empty are not written: a result that a stale request wrote  *)
(* in between stays.                                                       *)
CommitRestart(r) ==
  /\ pc[r] = "ready"
  /\ task[r].kind = "restart"
  /\ RowFree(r)
  /\ status' = "started"
  /\ clock' = IF task[r].deadline = None THEN clock ELSE None
  /\ score' = IF task[r].scored THEN None ELSE score
  /\ submittedAt' = IF task[r].scored THEN None ELSE submittedAt
  /\ End(r)
  /\ UNCHANGED <<now, extra, responses, lates, active, resets>>

(* _finalize_submission(): the answers as they were read are marked and    *)
(* counted, and the attempt is closed whatever it has become since. A      *)
(* total equal to one that was loaded is not written. A save that found    *)
(* the time up goes on to keep its answer as a late one.                   *)
CommitClose(r) ==
  LET t == task[r]
      goesOn == t.kind = "expire" /\ t.item # None /\ t.at <= t.deadline + LateWindow
  IN
  /\ pc[r] = "ready"
  /\ t.kind \in {"submit", "expire", "terminate"}
  /\ RowFree(r)
  /\ \A x \in read[r] : Present(responses, x)
  /\ responses' = Scored(responses, read[r])
  /\ \/ score' = {<<x.id, x.answer>> : x \in read[r]}
     \/ t.scored /\ score' = score
  /\ status' = ClosedAs(t.kind)
  /\ \E s \in t.at..now :
       submittedAt' = IF t.kind = "expire" THEN Earlier(s, t.deadline) ELSE s
  /\ active' = IF t.kind = "terminate" THEN active + 1 ELSE active
  /\ IF goesOn
       THEN /\ task' = [task EXCEPT ![r].kind = "late"]
            /\ pc' = [pc EXCEPT ![r] = "loaded"]
            /\ read' = [read EXCEPT ![r] = {}]
       ELSE End(r)
  /\ UNCHANGED <<now, extra, clock, lates, resets>>

(* A row that was read is gone (the attempt was reset): the update fails,  *)
(* and the request with it.                                                *)
Fail(r) ==
  /\ pc[r] = "ready"
  /\ \E x \in read[r] : ~ Present(IF task[r].kind = "late" THEN lates ELSE responses, x)
  /\ End(r)
  /\ UNCHANGED <<now, extra, attempt, responses, lates, active, resets>>

---------------------------------------------------------------------------
(* Requests that lock the attempt row first *)

(* ViolationService.create(), below the limit: counted under the lock. *)
Violation(r) ==
  /\ pc[r] = "idle"
  /\ RowFree(r)
  /\ status = "started"
  /\ ~ TimeUp
  /\ ~ ReachesLimit
  /\ active' = active + 1
  /\ UNCHANGED <<now, extra, attempt, responses, lates, resets, requests>>

(* The violation reaches the limit, or finds the time up: the attempt is   *)
(* closed under the lock.                                                  *)
ViolationCloses(r) ==
  /\ pc[r] = "idle"
  /\ RowFree(r)
  /\ status = "started"
  /\ TimeUp \/ ReachesLimit
  /\ task' = [task EXCEPT ![r] = [kind |-> IF TimeUp THEN "expire" ELSE "terminate",
                                  item |-> None, answer |-> None, deadline |-> Deadline,
                                  at |-> now, scored |-> score # None, locks |-> TRUE]]
  /\ read' = [read EXCEPT ![r] = ToMark]
  /\ pc' = [pc EXCEPT ![r] = "ready"]
  /\ UNCHANGED <<now, extra, attempt, responses, lates, active, resets>>

ShallowReset(r) ==  \* faulty variant
  /\ pc[r] = "idle"
  /\ RowFree(r)
  /\ resets < MaxResets
  /\ resets' = resets + 1
  /\ responses' = {}
  /\ status' = "reset"
  /\ UNCHANGED <<now, extra, clock, submittedAt, score, lates, active, requests>>

(* reset_attempt(), of an attempt in any state. The lock keeps inserts out *)
(* from its first step to its last, so it is one step.                     *)
Reset(r) ==
  /\ pc[r] = "idle"
  /\ RowFree(r)
  /\ resets < MaxResets
  /\ resets' = resets + 1
  /\ responses' = {}
  /\ lates' = {}
  /\ active' = 0
  /\ status' = "reset"
  /\ submittedAt' = None
  /\ score' = None
  /\ UNCHANGED <<now, extra, clock, requests>>

(* update_max_attempts() also changes the extra time of a live exam. *)
SetExtra(e) ==
  /\ e # extra
  /\ extra' = e
  /\ UNCHANGED <<now, attempt, responses, lates, active, resets, requests>>

Tick ==
  /\ now < MaxTime
  /\ now' = now + 1
  /\ UNCHANGED <<extra, attempt, responses, lates, active, resets, requests>>

Commit(r) ==
  \/ CommitSave(r) \/ CommitLate(r) \/ CommitClock(r) \/ CommitRestart(r)
  \/ CommitClose(r) \/ Fail(r)

Request(r) ==
  \/ \E i \in Items, a \in Answers : Save(r, i, a)
  \/ Submit(r) \/ Poll(r) \/ Content(r) \/ Restart(r)
  \/ ReadRows(r)
  \/ CommitSave(r) \/ CommitLate(r) \/ CommitClock(r) \/ CommitRestart(r)
  \/ CommitClose(r) \/ Fail(r)
  \/ Violation(r) \/ ViolationCloses(r)
  \/ Reset(r)

Next ==
  \/ \E r \in Requests : Request(r)
  \/ Tick
  \/ \E e \in Extras : SetExtra(e)

Spec == Init /\ [][Next]_vars

(* Time passes, a request that has begun goes on, and the candidate's page *)
(* polls for as long as it is open: nothing else closes an attempt.        *)
Fairness ==
  /\ WF_vars(Tick)
  /\ \A r \in Requests : WF_vars(ReadRows(r)) /\ WF_vars(Commit(r)) /\ SF_vars(Poll(r))

FairSpec == Spec /\ Fairness

---------------------------------------------------------------------------
(* Properties of every interleaving *)

(* An attempt never goes on with its violations at the limit, however many *)
(* are reported at once: the count is taken under the attempt's lock.      *)
ViolationLimit == status = "started" /\ active > 0 => ~ LimitReached(active)

(* An attempt is only ever "terminated" over violations that still stand,  *)
(* and by the one that reached the limit, not by a later one.              *)
TerminatedAtLimit ==
  status = "terminated" => LimitReached(active) /\ (active > 1 => ~ LimitReached(active - 1))

(* Both: the limit ends the attempt, and nothing else terminates it.       *)
LimitHolds == ViolationLimit /\ TerminatedAtLimit

(* No violation is counted against an attempt that is not in progress.     *)
ViolationsOnlyWhileOpen == [][active' > active => status = "started"]_vars

(* A reset attempt shows no result and no violation: none of the stale     *)
(* requests that commit after the reset gives it one and leaves it reset.  *)
ResetShowsNothing ==
  status = "reset" => score = None /\ submittedAt = None /\ active = 0

---------------------------------------------------------------------------
(* Properties of any sequence of requests, each ended before the next *)

(* An attempt has a result if and only if it is closed, also after it was  *)
(* reset and restarted.                                                    *)
ScoredIffClosed ==
  /\ score # None <=> status \in {"submitted", "terminated"}
  /\ submittedAt # None <=> status \in {"submitted", "terminated"}

(* The score counts every saved answer, as it is saved.                    *)
ScoreMatchesAnswers ==
  status \in {"submitted", "terminated"} => score = {<<x.id, x.answer>> : x \in responses}

(* "an attempt closes at its deadline and nothing saved after it changes   *)
(* the score": the answers of a closed attempt stay what they are until it *)
(* is reset.                                                               *)
AnswersFrozen ==
  [][(status \in {"submitted", "terminated"} /\ status' # "reset")
       => (responses' = responses /\ score' = score)]_vars

(* A reset attempt is a clean slate: "a violation or autosave arriving     *)
(* mid-reset can't interleave with the clean-up".                          *)
ResetIsClean == status = "reset" => responses = {} /\ lates = {} /\ active = 0

(* One saved answer and one undecided late answer per question.            *)
OneRowPerQuestion ==
  /\ \A x, y \in responses : x.item = y.item => x = y
  /\ \A x, y \in lates : x.item = y.item => x = y

(* The clock starts when the questions are FIRST sent, and is not moved    *)
(* again until the attempt is restarted.                                   *)
ClockKept == [][clock # None /\ clock' # clock => status = "reset"]_vars

(* The limit terminates the attempt, and nothing turns that into an        *)
(* ordinary submission.                                                    *)
LimitTerminates == active > 0 /\ LimitReached(active) => status = "terminated"

(* Late answers are kept only for an attempt that ran out of time.         *)
LateOnlyAfterTime == lates # {} => status = "submitted" /\ clock # None

(* The result, the answers, the late answers and the violations of an      *)
(* attempt agree, through any number of sittings.                          *)
SittingSound ==
  /\ ScoredIffClosed /\ ScoreMatchesAnswers /\ ResetIsClean /\ OneRowPerQuestion
  /\ LateOnlyAfterTime /\ LimitTerminates

(* An attempt whose time is up does not stay in progress.                  *)
TimeUpCloses == status = "started" /\ TimeUp ~> status # "started" \/ ~ TimeUp
=============================================================================
