# Verification of the Ulrea CBT back end

TLA+ models of the two services of this repository, the computer-based-testing
(CBT) service and the auth service, the TLC runs that check them on small
instances, and TLAPS proofs of what matters most for instances of every size.

Paths below are relative to `src/backend/services/`; `attempt_service.py`,
`exam_service.py` and so on are in `cbt_service/cbt_service/services/`, and
`otp_service.py`, `cohort_service.py`, `users.py` and so on somewhere in `auth/auth/`.

## 1. The system

Two FastAPI services with a PostgreSQL database each. The **auth** service keeps
users, organisations, memberships, roles, cohorts and subscriptions, and
one-time codes and revoked tokens in Redis. The **CBT** service keeps questions,
exams, assignments and attempts; it trusts what a token says and asks auth over
HTTP for names and cohort members. Database handlers are synchronous and run on
threads, several workers at a time; the handlers of Redis and of billing are coroutines.
Each request has one SQLAlchemy session (`postgres_database.py:84`), READ COMMITTED,
closed at the end of the request. There are no background jobs:
`sweep_expired_attempts` has no caller.

| Component | State | Operations | Interacts with | What is hard |
| --- | --- | --- | --- | --- |
| Attempts of a student | attempt rows (number, status), assignment status | start, submit, close by time, terminate, reset, change of max_attempts | assignment row lock, attempt row lock | double starts, stale loads, locks in two orders |
| Sitting of an attempt | clock, answers, late answers, violations, score | save, poll, page load, submit, violation, restart, reset, extra time | the candidate's browser retries, staff reset | unlocked load-decide-commit, the deadline, late answers |
| Marking | marks, totals, pass/fail, late answers' status | manual review, late decision, recompute, reset | several reviewers, the candidate's restart | totals computed from partly committed marks |
| Exam workflow | exam status, questions, total_marks, topics, assignments | edit, submit, approve, override, assign, delete/archive | attempts that start meanwhile | check on a loaded status, deletion against starts |
| Students' and staff's lists | none of their own | today's and past exams, exams by phase, questions, subjects | start(), the access checks, roles | one rule written twice, as code and as query |
| Marking queue, exports | none of their own | answers and scripts that wait | marking, late answers, changes of the paper | four places decide what waits |
| Question bank | questions, subjects, banks, grants, topics | CRUD, assign and grant staff, bulk upload | copies marks into draft exams | copies that drift, references without foreign keys, loops |
| Periods, difficulty levels | configuration | CRUD, current period, default level | questions and exams that carry them | one default, a current period that is active |
| Violations (review, lists), media | reviewed flag, files | mark_reviewed, upload | | |
| One-time codes (auth) | code, tries, rate limit in Redis | request, verify, invalidate | sign-up, sign-in | get-then-set without atomicity, INCR then EXPIRE |
| Opening of an organisation, platform subscriptions (auth) | the owner's membership, subscriptions | verify the owner's address, start a trial, ask to pay | codes, memberships | look-then-insert without an index, rows committed before a call that always fails |
| Exam-body subscriptions (auth) | pending rows, trials | pay, webhook, trial | payment provider | nothing is ever paid (section 6) |
| Memberships, accounts (auth) | accounts, addresses, numbers, memberships | sign up, create, upload, activate, subscribe, leave | codes, roles | check-then-insert, changes of address in flight |
| Cohorts (auth) | cohorts and their roll | add, move, remove, graduate, archive, delete | exams' assignments | moves that overlap, history |
| Sign-in, tokens, roles (auth) | tokens, blacklist, roles and what they grant | login, refresh, switch, sign out, make and give roles, links, answers | CBT trusts the token | several calls to Redis, whole seconds, who may give what |
| `attempt_service`, `aut`, `gateway` | | prototypes and empty directories | | not used |

What makes each of them correct:

* attempts: one in progress, never more than allowed, numbers unique, the
  assignment in step, a reset restarts the same row;
* sitting: the score is that of the answers saved in time; a closed attempt does
  not change; the limit of violations terminates and nothing else does; a reset
  leaves nothing; the clock starts once; time up means closed;
* marking: totals follow from marks; a reset is a clean slate;
* workflow: the paper adds up, history is never lost, deletion is complete;
* lists and queue: what can be started, opened or marked is found, and what is
  found can be started, opened or marked;
* bank: references hold, totals follow the copies, past draft nothing moves,
  topics are a tree, one default level, a current period that is usable;
* codes: a budget per window, and no code a second time;
* opening: one seat for the owner, one subscription, and the trial that is offered;
* people: the owner alone rules; one account per address and number; who holds a
  former address does not get the account; nobody widens what others may do
  beyond what they may do themselves; a revoked token stays revoked;
* cohorts: on a roll at most once, history stays, a move arrives.

`PROJECT.json` lists the hazards at their lines, with the properties that cover
them.

## 2. How a request is modelled

A request is a transaction in steps. What it **loads** is kept in variables of its
own (`seen`, `task`, `read`, and one record per request, `...Work`, in the later
modules), what it **commits** is computed from them, and between the two any other
request may take any step. Four facts about the database and the ORM decide what
is possible, and the models state them:

1. READ COMMITTED, and most handlers take no lock: a status that was checked may
   have changed by the commit.
2. SQLAlchemy writes only columns whose new value differs from the value that
   was *loaded* (`Stored` in Marking and ExamWorkflow; `moves` in AttemptSlots and
   Topics; `Differing` in Accounts; the value `"keep"` in the work records). So a
   stale request overwrites some columns and leaves others.
3. An UPDATE of a row that is gone fails the request (`Gone`, `Fail`, `Referable`),
   and unique indexes and foreign keys are checked at the write.
4. `SELECT ... FOR UPDATE` on an attempt keeps out other locks and updates of it
   and inserts of rows that refer to it, but not updates of rows that already
   do. A flushed UPDATE locks its row as well; a finalize flushes the attempt when
   `recompute_score` runs its query, before the assignment is read.

A crash, a lost connection or a worker that dies before the commit is the
transaction's rollback (`Rollback`, `Abort`, `Drop...`). In ExamSitting, where no request
leaves anything behind before it commits, it is the request that was never made, and
only the failure on a row that is gone is a step (`Fail`). Handlers of several
calls (Redis, tokens, asking to pay) can stop between any two, and the restart of a
process is a step of its own.

**Alone, or overtaken.** Many promises of the comments hold when requests follow
each other and not when they overlap. The models say which is which, by history
variables that the code does not have. `sitting_serial` has one request at a time;
`ExamWorkflow` guards two properties by `overlapped`; `Marking` by `alone`, `Cohorts` by
`solo`. In the bank's modules and in Permissions, Accounts and Credentials each
request keeps in `met` what others have committed since it read, and a "Kept"
property says: each part of the invariant is kept by every step, except that of a
request which met a commit of the kinds named there. That is more than "safe
when sequential": it names the pairs of operations that can hurt each other and
says that no others can.

## 3. The modules

| Module | Models |
| --- | --- |
| `Sittings` | abstract: a series of sittings, one at a time, within what was ever allowed |
| `AttemptSlots` | all attempt rows of one student on one exam; implements `Sittings` |
| `ExamSitting` | one attempt while it is sat |
| `Marking` | one attempt that was handed in, while staff mark it and reset it |
| `ExamWorkflow` | one exam from draft to archive |
| `MyExams` | a student's lists of exams beside what `start()` does |
| `Listings` | staff's lists beside what they may open and change |
| `MarkingQueue` | which answers and scripts wait, beside what can be marked |
| `Topics`, `Levels`, `Periods`, `BankStaff`, `Questions` | the parts of the question bank |
| `OtpCodes` | one-time codes of an address, call by call on Redis |
| `Cohorts` | the cohorts of one organisation and their roll |
| `OrgOpening` | the owner's verification, and what the organisation asks for afterwards: trials and payments |
| `Onboarding` | accounts and memberships of one organisation |
| `Sessions` | one person's tokens over several organisations |
| `Credentials` | how one member gets in: links, access codes, answers |
| `Permissions` | roles, what they grant and imply, who may make and give them |
| `Accounts` | addresses and registration numbers, uploads |
| `MCAuth`, `MCStaffWork`, `MCOrganisation` | several components in one instance |
| `MC*` (others) | the constants and symmetry TLC needs |
| `AttemptSlotsProofs`, `ExamSittingProofs`, `MarkingProofs`, `ExamWorkflowProofs` | theorems about the module of that name |
| `BankProofs` | theorems about the parts of the question bank, and about `MCStaffWork` |
| `AuthProofs` | theorems about `OtpCodes`, `OrgOpening`, `Onboarding`, `Credentials`, `Sessions`, `Cohorts`, and about `MCAuth` |
| `OfficeProofs` | theorems about `Permissions`, `Listings`, `MyExams`, `MarkingQueue`, `Accounts`, and about `MCOrganisation` |
| `SumTheorems` | what those proofs need of numbers, sums and folds |

The faulty variants beside some definitions ("faulty variant") are plausible bugs
of that definition. Replacing the definition by its variant must break the
property it is listed with in `PROJECT.json`; no specification uses them.

**Composition by focus.** The three larger MC modules put components that share no
variable into one instance. A behaviour follows one of them, the `focus`, and the
others stay in their initial state: TLC explores the sum of the state spaces, not
the product, which would show nothing more about components that do not touch.
The components that do interact are composed inside a module: starts with
closes and resets in AttemptSlots, reviews with sittings in Marking, copies in exams
with the bank in Questions, codes with sign-up in Onboarding, roles with tokens'
reach in Permissions and Listings.

### AttemptSlots

`attempts` is the sequence of rows by `attempt_number`; `assignment` is the
assignment's status; `lock` is who has the assignment FOR UPDATE. A start is
`StartLoadExam` (the exam is read before the lock and not again), `StartLock` (lock
and the rows), then one of `StartAnswer`, `StartReactivate`, `StartCreate`, or
`StartOutsideWindow`. A submit, or a read that finds the time up, is `SubmitLoad`,
`SubmitFlush`, `ReadAssignment`, `CloseCommit`. A violation that closes and a reset
begin with `LockRow`. Time is left out: the window may be open or closed at any
start, a running attempt may expire at any time. A start does not look at the
exam's status, as in the code. `highest` is history: the largest limit so far.

### ExamSitting

`Begin` is the load of the attempt and the exam, `ReadRows` the query for the rows
a request needs, `Commit...` its commit. `score` is the set of answers that
`final_score` counts, so a score that does not match the answers shows whatever
the marks are. `Violation` (below the limit) and `Reset` are one step because the
attempt's lock is held from their first statement to their commit and nothing
they read can be changed meanwhile. `ViolationCloses` takes the lock and leaves the
rest to `CommitClose`, because the answers it read can be updated by saves that
the lock does not keep out. `Restart` is the part of `start()` that concerns an
attempt that was reset. `submitted_at` and `clock_started_at` are any time between
the load and the commit, as `datetime.now()` is taken in between.

### Marking

`marks` maps an answer's row (its question, and the request that added it, if a
late answer was accepted) to `marks_awarded`. The loads of a review are merged; a
review is then its flush of the answer (`ReviewWrite`, which locks the answer), the
query of the answers inside `recompute_score` (`ReviewSum`, before which the autoflush
of `scored_by` locks the attempt, but only if the reviewer is another one than
loaded) and `CommitMark`. A late answer's acceptance flushes and sums in one step,
as nothing of interest can come between. `HandIn` collapses restart, sitting and
submit: an attempt that was reset comes back with a new answer sheet. An answer's
automatic mark is right, wrong or blank, and `None` when a person marks it; short
answers that are marked automatically behave as `Objective` ones. `life` counts the
resets: rows loaded in another life are gone. `alone` is history.

### ExamWorkflow

`items` are rows, so one question can be there twice. `task` keeps the status,
the total, the rows or the attempts a request saw. `Begin` is the load with the
status check of that handler, `Read` the second query, `Commit...` the write.
`topics` matter because `exam_topics` refers to the exam and `delete()` leaves it: such
an exam cannot be removed. Deletion is atomic at its commit: its statements take
the rows' locks and the foreign keys keep new ones out. `overlapped` is history.
Who may call what is in Listings.

### What is read: MyExams, Listings, MarkingQueue

A list is one query, read at one moment, so requests here are single steps and the
state changes between them. `MyExams` has the day conditions of
`_my_day_conditions` (`SetForToday`, `IsPast`) and what a row offers (`GoesOn`, `Restart`,
`CanRetake`) beside `start()` itself (`StartsOver`, `StartsNew`, `StartAccepts`); time passes in
ticks, and days, windows, a student's own window, limits and resets vary.
`Listings` has the query conditions (`ExamListed`, `PhasesOf`, `QuestionListed`) beside
the checks on one object (`MayAct`, `MayQuestion`), with the reach a role gives. The
token keeps what its role granted when it was issued. `MarkingQueue` has
`PendingOf`, `WaitingScripts` and `ScriptPending` beside `Awaiting`, `Undecided` and
`MayMark`.

### The question bank

`Topics` walks up the parents one query at a time, as `update()` does. `Levels` keeps a
level's state and its use by questions, which no foreign key protects. `Periods` has two
levels of periods and the foreign keys that are checked again at the write.
`BankStaff` takes staff off a subject in two statements, grants before assignment,
and lets a question or an upload into a bank. In `Questions` an edit of the marks
locks the question before it reads the exams; adding to and removing from an exam
do not.

### The auth service

`OtpCodes`: every await is one action, `call` says where each client is. Time is
`young`, old and expired. `granted`, `refunded`, `cut` and `spent` are history.
`Cohorts`: a request opens (the cohort), reads rows, reads the target and commits;
`CommitRows` checks the index on active rows and the foreign keys. `OrgOpening`: a
verification loads the account, flushes `verified` (which locks the owner's row until
the commit, unless the address was verified when it was loaded), looks for the
membership, looks for the subscription and commits, each a step; two of one code can be
in flight because `verify_otp()` reads the code and deletes it in two calls. `subs` holds
the plan each subscription names; none ever leaves the state TRIAL. The billing routes
never await before their commit, so one process handles them one after the other
(`asking`); this assumes one process, as the README starts it (`README.md:151`). `twice` is history:
two verifications looked for rows side by side, and one of them had locked nothing.
`Onboarding`: one
transaction per action, what is checked in one and used in a later one is kept.
`Sessions`: `Second` ticks to a second, so that `int(exp - now)` is zero in the last
one; making, revoking access and revoking refresh are steps of their own.
`Credentials`: `links` that can be used, `way` the account's columns that decide who
gets in. `Permissions`: the catalogue and `expand()` with the built-in roles' grants;
`Within` is "nothing beyond the actor". `Accounts`: an upload folds over the rows of its file.

## 4. The runs

| Run | Instance | Result |
| --- | --- | --- |
| `attempt_slots` | 3 requests, limits 1 and 2, 3 starts | `SlotsKept`, `NumberIsFree`, `ClosedInStep` and the refinement `OneSittingAtATime` hold (2.1 million states) |
| `attempt_slots_live` | 2 requests, limit 2, 2 starts | `EveryRequestEnds` holds |
| `attempt_slots_reset` | 3 requests, limit 3 | `NoNewRowBesideReset` is violated |
| `sitting_serial` | 1 request at a time, 2 questions, 2 answers, extra time 0 and 1, 1 reset | `SittingSound`, `AnswersFrozen`, `ClockKept` and the liveness property `TimeUpCloses` hold |
| `sitting_concurrent` | 3 requests, 1 question, limit of 2 violations, 1 reset | `LimitHolds`, `ResetShowsNothing`, `ViolationsOnlyWhileOpen` hold (4.7 million states) |
| `sitting_frozen` | 2 requests | `AnswersFrozen` is violated |
| `staff_work` | 2 requests in each part. Marks: 1 reviewer, 1 objective and 1 written question, 1 reset. Bank: 2 topics, names, periods and banks; 2 levels besides the built-in one; 1 member of staff with up to 2 rows; 1 question, 1 exam with up to 2 copies, marks 1 and 2 | `NothingSurvivesReset`, `SoloRescores`, `TreeKept`, `LevelsKept`, `PeriodsKept`, `StaffKept`, `QuestionsKept` hold |
| `marking_totals` | 2 requests, 1 reviewer, 2 questions, 1 reset | `RescoredAlways` is violated |
| `exam_workflow_orphan` | 2 requests, 2 questions, 1 student | `NoOrphanAttempts` is violated |
| `organisation` | Exams: 2 requests, 2 questions worth 1 and 2, 1 student, 3 additions. Roles: 2 requests, 2 assistants, 1 custom role and 2 built-in ones, 2 payloads. Accounts: 2 requests, 2 persons, 1 address, 2 numbers, files of up to 2 rows. A student's lists: 3 days of 2 ticks, 5 windows, limits 0 to 2, 2 attempts. Staff's lists: 5 windows over 3 ticks, every status and role. Queue: 2 scripts, 2 questions, each written or keyed | `DeletionSound`, `PaperAddsUp`, `HistoryKept`, `RolesKept`, `AccountsKept`, `MyExamsKept`, `ViewsKept`, `QueueKept` hold (4.6 million states) |
| `auth` | Codes: 2 clients, 2 guesses, 2 codes a window, 3 codes. Cohorts: 2 requests, 2 cohorts, 1 student, 2 rows each. Opening: 2 verifications, 2 plans, with and without a trial. People: 2, with up to 2 memberships. Sessions: 2 requests, 2 organisations, 2 tokens of each kind, 2 ticks a second, lives of 1 and 2 seconds. Credentials: 2 requests, 2 addresses, 2 links | `CodeLimitKept`, `SpentStaysSpent`, `RollSound`, `OpenedOnce`, `OnlyOwnerRules`, `HistoryStays`, `SoloLands`, `SessionsKept`, `CredentialsKept` hold (2.5 million states) |
| `auth_owner` | People only | `ProvisionalIsStudent` is violated |

The composed runs also check the conjunction of their components' type
invariants (`WorkTypeOK`, `AuthTypeOK`, `OrgTypeOK`), which are proved as well.

**Bounds, and why they are enough.** Races here are between a request that is
stale, the one that makes it stale, and at most one that profits, so three
requests in flight where a lock makes one wait for another, and two elsewhere; the
steps of each are few and requests begin again, so longer histories come from
sequences. `MaxStarts` bounds starts (3: a first attempt, a second, and a restart),
`MaxResets` resets (1: before and after), `MaxAdds` additions (3: two questions and one
again), `MaxTime` the clock (in the serial run 4: a duration, one unit of extra
time, the late window and one unit more), `LateItems` the questions late answers
come for. The violation limit 2 has both a violation below it and one at it.
`MaxCodes` (3) is one more than a window grants, `MaxCount` the largest rate count that
is told apart, `MaxRows` and `MaxMemberships` (2) a row and one beside it, `MaxCopies`
likewise, `MaxTotal` the size of totals, `MaxLinks` an old link beside a new one,
`MaxTokens` a pair and the one it is exchanged for, `MaxRowsUp` a row of a file and one
that repeats it, `MaxTaken` an attempt and a retake; `Horizon` reaches past the end of
every window, `LastTick` likewise.

**Symmetry** is over requests, and over ids that the modules only compare
(cohorts, periods, assistants). It is used only where every property is one of
single states and steps.

**Deadlock.** `CHECK_DEADLOCK FALSE` is said where the model ends by its bounds
(time, resets, additions, rows) or where the system does (a deleted exam, an expired
day). `AttemptSlots` is checked for deadlock.

**What is not promised when requests overlap.** Besides the violations below, with
two requests in flight the models reach: a reset attempt with an answer (an
autosave that had loaded it before), two rows for one question, a terminated
attempt that a stale submit turns into a submitted one, and a question or total
committed into an exam that was approved meanwhile. The "Kept" properties list
more, pair by pair; section 7 says what that means to a user.

**The violations.**

* `attempt_slots_reset`: `start()` is protected by the assignment's lock, a reset by
  the attempt's; a reset that does not have to change the assignment never meets
  the start, which then creates a second row beside the reset one.
* `sitting_frozen`: a save that found the attempt open commits after it closed.
* `marking_totals`: two marks in flight each sum without the other's, and the last
  total stays.
* `exam_workflow_orphan`: a start between `delete()`'s question and its commit leaves
  an attempt whose exam is gone.
* `auth_owner`: an owner who signs in before verifying, and verifies with the code
  that sign-in sends, is verified without the membership that only the sign-up
  code makes, and cannot ask for another one.

**Fairness.** `AttemptSlots`: the scheduler and the database go on with a request
that has begun (weak fairness on steps that need nobody), a lock that is free
again and again is granted in the end because PostgreSQL queues those who wait
(strong fairness), and a deadlock is noticed and one side ended
(`BreakDeadlock`). Nothing is assumed about the arrival of requests.
`ExamSitting`: time passes, a request that has begun goes on, and the candidate's page
polls again and again while the attempt is open (strong fairness of `Poll`, as the
worker may be busy with another request). The last one is an assumption about the
browser: without it an attempt whose time is up stays open, because nothing
sweeps. `TimeUpCloses` says "closes, or staff give more time". The composed runs
state no fairness, and their properties are of safety: in those components nothing
runs by itself that could be relied on.

## 5. The proofs

All theorems hold for every value of the constants that meets the modules'
`ASSUME`s: any number of requests, rows, questions, files, limits and times. Every
invariant and action property of the passing runs is also the statement of a
theorem; what is left to TLC is listed at the end.

**AttemptSlotsProofs.** `IInv` adds three facts to the properties. `LockHeld`: the
lock is held exactly by the start that has read under it. `LimitsKnown`: a limit
loaded earlier is one the exam has had. `SeenCurrent`: what a start read under the
lock is stale only in harmless ways, no row was added and none came into
progress, because only starts do that and they need the lock; others only close
or reset rows. `SlotsKept` is not inductive without it. From `IInv`: `SlotsAreKept`,
`NumberAlwaysFree`, and step by step `SittingsImplemented` (every step maps to a step of
`Sittings` or to a stutter). `AssignmentInStep` needs more, as a close reads the
assignment without a lock: `OneHolder` says who has a row's lock, and `OneLeftOpen`
that, while the assignment does not say "submitted", some row is open or reset, or
the request is in flight that closes the last one and will move the assignment.

**ExamSittingProofs.** Of all requests with a stale copy, none can make the attempt
"terminated" or "started" wrongly: `OneLocker`, `LockerCurrent` (a violation about to
terminate still sees what it counted, because counting, closing and resetting need
the lock) and `RestartAlone` (while a restart is in flight the attempt is not in
progress and no violation counts). With `TaskSane` and the properties they are
inductive, and give `LimitKept` (both halves of `LimitHolds`), `ResetLeavesNothing` and
`CountedWhileOpen`. The run `sitting_serial` has one request at a time, and so its
properties are proved from `OneAtATime` (two requests are the same one), for any
questions, answers, times, extra times and number of resets. `LoadedIsStored` says
that what the request in flight has loaded is what is stored; with it
`SittingSound` is inductive, and every commit leaves the answers, the score and the
clock as `SittingStaysSound`, `ClosedStaysClosed` and `ClockStays` say.

**MarkingProofs.** `Overtaken`: while the attempt is reset, every request that loaded
answers is of an earlier life and can only fail, so `CleanSlate`. `SoloInv`: what a
request that runs alone loaded is what is stored, and its totals are those of the
answers with its mark, so `SoloTotals`. The sum is never expanded: the proof
says totals are computed from the right answers, not what a sum is.

**ExamWorkflowProofs.** `TaskSane`: no override, decision or submission carries
"archived", and attempts that a deletion saw are never taken back; with the foreign
keys (`NothingLeft`, `AssignmentKept`) this gives `DeletionIsSound`. `Alone`: while
nothing overlaps, the request in flight sees the exam as it is, so `HistoryIsKept`.
`PaperSeen` says the same of the questions and the total: what a request that is
alone adds to or takes from the total it has loaded is what its rows add to the sum,
so `TotalAddsUp`.

**SumTheorems.** Sums over finite sets and folds over sequences are, in the community
modules, folds whose order a `CHOOSE` fixes, and the library's induction theorems
take operators the provers cannot instantiate. Each fact about them is shown by
least counterexample: the parts of a set that would break it have a least size, a
smaller part has its value, and one member more does not break it. This gives
what the sum of a part without a member is (`SumTakes`), and, in the modules that
use it, the sum after a question's marks change on every copy.

**BankProofs.** In the bank handlers read, decide and commit without a lock; only an
edit of a question's marks locks the question before it reads the exams.
What a request has read still holds, or its `met` names somebody who changed it
(`TopicSound`, `LevelSound`, `PeriodSound`, `StaffSound`, `ItemSound`). Every
decision establishes this; every commit keeps it for the others, because it tells
them of itself; and a commit that met nothing finds what it has read, and leaves the
component sound. That is why the "Kept" properties say "unless overtaken", and why
none of them is inductive without its `...Sound`. For `TopicsStayATree` the walk up
needs `OnTheWay`: from the new parent one comes to where the walk stands without
passing the topic that moves, unless that parent is gone or another move was
committed meanwhile. For `QuestionsStayKept`, `Fits` says that the totals a request
will write are the stored ones with its own change.

**AuthProofs.** *Codes.* `CountCovers`: what a window has granted is at most its count
and what was given back, whoever changes the count in between. A count becomes 1
only by the request that is about to set its time to live (`CountGoesAway`).
`CopiesUnspent`: no copy of a code in flight is of one that was spent, so only a new
number can be written back. `LimitIsKept` and `NeverAgain` follow.

*Opening.* `OnlyOpens`: rows are made by verifications of the sign-up code alone, and one
that is about to commit has seen to it that there is a subscription if a trial is
offered. `OneOpens`: such a verification locks the owner's row before it looks, so one
is in flight at a time; a second one that found the address verified makes `twice`
true. Hence `ReadsStand`: nobody else makes what it is about to make, a billing request
being let in only after a commit (`AskingStands`), when there is a trial already or
none is started. `OpensOnce` follows.

*People.* `RoleIsOwners`: active or not, only the owner's memberships have the owner's
role. Only the owner's verification gives it, staff give other roles, and a
membership that comes back comes back with its role; the owner is never replaced
and never deleted. Hence `OwnerAlone`.

*Ways in.* `OfTheirKind` and `WaySound`: what a request is about to write fits the
account it has read, or somebody else has committed since. `CredentialsStayKept`
follows for each kind of request.

*Sessions.* `EntryLasts`: a blacklist entry is there until the last second of its
token, because whole seconds are at most one second less than the time left
(`WholeSeconds`); and between two calls a token somebody is about to revoke only gets
older, so that the time that was read is never too short by more than that second.
This is why `SessionsKept` allows for a token's last second.

*Cohorts.* A commit checks the index on active rows and the foreign keys whatever
the request has read, so `RollIsSound`. `WorkSound` says what a request holds at each
point, `SoloSound` that one that overlaps no other would read again what it has
read, and with them `HistoryIsKept` and `SoloRequestsLand`. That a student gets one new
row and no more rests on the least free number, by well-founded choice over the
natural numbers.

**OfficeProofs.** *Roles.* `expand()` passes over its table until nothing changes,
in the model once for every permission. `Layers`: what implies a permission is
itself implied by less, at most twice over, so the third pass changes nothing, and
what comes out is the least grant that holds what went in (`ExpandIsLeast`).
`RoleInv`: who holds a role, or is about to, holds one that has its row, and a
request that nobody overtook and that is not the owner's is about to give what some
assistant has. Then `RolesStayKept`.

*Accounts.* `IdInv`: no two accounts share an address, and what a request has read of
addresses and numbers still holds or it was overtaken. An upload is a fold over its
rows: after each of them (`UploadSound`) the accounts that it will make are different
from each other and from those there are, and every number so far is one of
theirs, or was taken, or its first row lost to an address; that this holds after
the last row of a file of any length follows by the least row for which it would
not.

*What is read.* Lists are computed from the state, so these proofs are about the
state: no two attempts begin at one moment, none in the future, and one that goes on
was not handed in (`MineInv`), with the types alone lists and access agree because a permission
reaches no further than what it implies (`ViewsStayKept`), and on a script handed in
only a written answer is without marks (`OnlyWrittenWaits`, `QueueStaysKept`).

**The composed specifications.** `AuthIsItsParts`, `WorkIsItsParts` and
`OrgIsItsParts` say that the specifications the composed runs explore are each of
their parts' specifications at once, whatever the focus. So everything above holds
in them, and `AuthTyped`, `WorkTyped` and `OrgTyped` follow from the parts' type
theorems.

**A repair the proofs led to.** `AccountsKept` once said
`FileTaken(idWork[r].file)'`: the prime also moves the argument, and the request is
over in the next state, so an upload was never asked about its file. It now takes
the file before the step, and the faulty variant `UploadRowAlone` breaks that part
too.

**Only model-checked:** liveness (`EveryRequestEnds`, `TimeUpCloses`), which the prover
cannot reason about, and that the violated properties are violated.

## 6. What is not modelled

* Rounding of percentages (two decimals, compared with the pass mark minus 1e-9),
  fractional marks, and pass marks given as fractions.
* Text matching of answers, shuffling, display settings, names, labels and order,
  filters and pages of lists, spreadsheets, the parsing of uploads.
* The audit log: `delete()` never commits its last entry, `assign_cohort()` commits
  its entry in a second transaction.
* Violation review (`mark_reviewed()` sets three columns nothing depends on), media
  and storage (files), sections of an exam.
* In ExamSitting the assignment (that is AttemptSlots) and a student's other
  attempts: a restart may race with a stale submit of the same attempt there
  whatever the other attempts are, so it has some behaviours more than the code.
* Subscriptions to an exam body, and whatever follows a payment. The services and the
  platform's route import `paystack` from its package, whose `__init__.py` is empty, and
  so get the submodule instead of the client in it
  (`exam_subscription_service.py:15`, `platform_subscription_service.py:15`,
  `routes/platform_subscriptions.py:14`): `initialize_payment` and `verify_payment`
  raise, no charge is opened and no row becomes active by one. The exam body's
  webhook logs that and answers ok; the platform's raises outside its `try` (:136) and
  answers 500. `check_exam_access()` unpacks three values into two, and the bulk
  payment reads `current_user.org_id`, which `UserModel` does not have. What a request
  to pay for a plan commits before it fails is in `OrgOpening`.
* The expiry of subscriptions: a naive time is compared with an aware one, which
  raises before `EXPIRED` is written. `check_org_limits()` raises likewise whenever
  there is a subscription, so a plan's limits are never applied.
* `archive_or_remove()` and `update_role()` of memberships, which nothing calls.
* The stand-alone `attempt_service`, a prototype that the CBT service superseded.

## 7. Seen while modelling

What follows is in the models (it is why a property has the form it has), or lies
just beside them. None of it contradicts a passing run.

Attempts and exams

* `max_attempts = 0` counts as none on the lists, but `start()` allows one attempt.
* An exam whose end is before its start (`update()` does not compare them) is in two
  phases at once, and on two tabs.
* A role with `exams.submit` but without `exams.edit` never has a draft to submit.
* After an override back to draft, removing a question whose answers wait leaves
  `awaiting_marking()` counting an answer that is on no queue and that
  `manual_review()` refuses, although `recompute_score()` decides the attempt.
* "Script N" is a position: equal `submitted_at` may be numbered differently by the
  list and by the detail, and numbers shift when a late-noticed expiry records
  an earlier time.

The bank

* Two topics moved under each other at once make a loop, and a later walk up from
  below it does not end.
* Two assignments of one person to a subject leave two rows; taking one away takes
  the grants and leaves the other row.
* A current period can be one that was archived meanwhile, a question can carry a
  level or be on an exam whose row was deleted meanwhile (no foreign keys).
* A bulk upload checks no plan limit.

Accounts, roles and tokens

* The stranded owner (`auth_owner`). The deprecated staff set-up leaves the
  membership pending. Subscribing twice at once gives two memberships.
* `reset_role()` does not ask what the asker may give. Two role assignments at once
  leave the role of one with the `role_id` of the other.
* CBT does not look at the blacklist. Older access tokens of a session stay valid
  after a switch or a sign-out, and a token in its last second is not blacklisted.
* `update_student()` stores an address as typed, and with an `institution_id` it
  fails; `admin_update_user()` does not expect an address taken meanwhile, and
  `update_pending_staff_email()` fails for an account without an address.
* In a bulk upload of students, a failed flush spoils the rows after it and the
  commit ("Partial success supported"); a number whose first row is refused is
  refused again later in the file.
* `student_reset_password()` leaves `security_reset_required` as it was; links to reset
  a password can be used again within their hour.

Cohorts and subscriptions

* A bulk creation can put students into an archived cohort;
  `change_student_cohort()` is two transactions and a student can end in none.
* "One active subscription per org at a time" (`platform_subscription_db.py:59`) is
  broken by a double click on the owner's verification if a sign-in's code verified the
  address while the sign-up code was still valid: neither request writes `verified`, so
  neither waits, and each inserts a membership and a trial. That is the only overlap
  in which it can happen, and `OpenedOnce` without `~ twice` is violated by it.
* Asking to pay for a plan changes the plan and the reference of the subscription
  although nothing is paid, and leaves its limits as they were; an organisation that
  has none gets a trial, of no set length if the plan has no trial days. Asking to pay
  an exam body leaves a pending row behind every time, and a student who has one is
  refused the free trial.

## 8. Plan

1. Done: every module with its runs; every safety and action property of the
   passing runs as a theorem, with the refinement.
2. What a total of marks is in `Marking` (its sum is not expanded there), with the
   facts of `SumTheorems`.
3. Pairs of requests that do not hurt each other in `ExamSitting`: which of its
   serial properties survive a save beside a poll, in the manner of `met`.
4. A composition of ExamSitting's finalize with Marking (a stale finalize that
   overwrites marks); the rows of a bulk question upload; seats and limits of
   plans, should `check_org_limits()` come to work.
