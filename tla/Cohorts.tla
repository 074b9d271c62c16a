------------------------------ MODULE Cohorts ------------------------------
(***************************************************************************)
(* Cohorts of one organisation and their rolls (cohort_service.py, and the *)
(* student operations of user_management_service.py and users.py that      *)
(* write the roll).                                                        *)
(*                                                                         *)
(* A request reads in a few statements and writes when it commits; other   *)
(* requests commit in between (READ COMMITTED). What the request wants to  *)
(* write is kept in its record from the moment it has read it. A row of    *)
(* cohort_members is a key <<cohort, student, n>>: the n-th row of that    *)
(* student in that cohort. Names, dates, notes and teachers are left out.  *)
(***************************************************************************)
EXTENDS Integers

CONSTANTS
  RollReqs,    \* requests in flight
  CohortIds,
  Pupils,
  MaxRows      \* bound: rows of one student in one cohort

ASSUME MaxRowsAssumption == MaxRows \in Nat

VARIABLES
  cohort,   \* CohortModel.status, "none" before and "deleted" after its life
  pupil,    \* the student's account and membership of the organisation
  row,      \* CohortMember.status of each key, "free" when there is no row
  work      \* what each request has read and is about to do

rollVars == <<cohort, pupil, row, work>>

RowKeys   == CohortIds \X Pupils \X (1..MaxRows)
Ended     == {"graduated", "left"}
Existing  == {"active", "archived"}
InOrg     == {"pending", "active", "joined"}   \* joined by themselves, or created by staff
HasUser   == InOrg \union {"out"}
GradOps   == {"graduate", "graduateAndArchive", "graduateSome"}
RollOps   == GradOps \union {"move", "remove", "change"}
AddOps    == {"add", "changeAdd"}
StatusOps == {"archive", "reopen", "delete"}

NoWork == [op |-> "none", pc |-> "idle", c |-> "none", t |-> "none",
           who |-> {}, rows |-> {}, add |-> {}, solo |-> FALSE]

Busy(r)        == work[r].pc # "idle"
ActiveIn(c, s) == \E n \in 1..MaxRows : row[<<c, s, n>>] = "active"
HadStudents(c) == \E k \in RowKeys : k[1] = c /\ row[k] # "free"

CohortInit ==
  /\ cohort = [c \in CohortIds |-> "none"]
  /\ pupil \in [Pupils -> {"new", "out"}]
  /\ row = [k \in RowKeys |-> "free"]
  /\ work = [r \in RollReqs |-> NoWork]

(* A request that begins, or a write in one step, overlaps all that are in *)
(* flight.                                                                 *)
Begin(r, op, pc, c, t, who) ==
  /\ ~ Busy(r)
  /\ work' = [q \in RollReqs |->
       IF q = r THEN [NoWork EXCEPT !.op = op, !.pc = pc, !.c = c, !.t = t, !.who = who,
                                    !.solo = \A p \in RollReqs \ {r} : ~ Busy(p)]
       ELSE [work[q] EXCEPT !.solo = FALSE]]

Overlap == work' = [q \in RollReqs |-> [work[q] EXCEPT !.solo = FALSE]]
End(r)  == work' = [work EXCEPT ![r] = NoWork]

---------------------------------------------------------------------------
(* The first read of a request: the cohort and what refuses it at once *)

AskStatus(r, op, c) ==
  /\ CASE op = "archive" -> cohort[c] = "active"
       [] op = "reopen"  -> cohort[c] = "archived"
       [] op = "delete"  -> cohort[c] \in Existing /\ ~ HadStudents(c)
  /\ Begin(r, op, "commit", c, c, {})
  /\ UNCHANGED <<cohort, pupil, row>>

(* graduate() of everybody, member_action() and remove_member() *)
AskMembers(r, op, c, t, who) ==
  /\ cohort[c] = "active"
  /\ who # {}
  /\ IF op = "move" THEN t # c /\ cohort[t] = "active" ELSE t = c
  /\ op \in {"graduate", "graduateAndArchive"} => who = Pupils
  /\ Begin(r, op, "rows", c, t, who)
  /\ UNCHANGED <<cohort, pupil, row>>

AskAdd(r, c, who) ==
  /\ who # {}
  /\ cohort[c] = "active"
  /\ Begin(r, "add", "rows", c, c, who)
  /\ UNCHANGED <<cohort, pupil, row>>

AskChange(r, s, t) ==
  /\ pupil[s] \in {"active", "joined"}
  /\ cohort[t] = "active"
  /\ Begin(r, "change", "rows", t, t, {s})
  /\ UNCHANGED <<cohort, pupil, row>>

(* Staff create a student, committed before the cohort is looked at. *)
CreateStudent(r, s, c) ==
  /\ pupil[s] = "new"
  /\ pupil' = [pupil EXCEPT ![s] = "pending"]
  /\ Begin(r, "add", "open", c, c, {s})
  /\ UNCHANGED <<cohort, row>>

---------------------------------------------------------------------------
(* Further reads *)

Open(r) ==
  /\ work[r].pc = "open"
  /\ cohort[work[r].c] = "active"
  /\ work' = [work EXCEPT ![r].pc = "rows"]
  /\ UNCHANGED <<cohort, pupil, row>>

(* Faulty variants, for mutants: rows are ended again; a move passes over  *)
(* those who have been in the target before.                               *)
ToEndAgain(w) ==
  {k \in RowKeys : /\ row[k] # "free" /\ k[2] \in w.who
                   /\ IF w.op = "change" THEN k[1] # w.t ELSE k[1] = w.c}
ToMoveOnce(w) == {s \in w.who : /\ \E k \in w.rows : k[2] = s
                                /\ \A n \in 1..MaxRows : row[<<w.t, s, n>>] = "free"}

(* The rows a request is going to end: the active ones. *)
ToEnd(w) ==
  {k \in RowKeys : /\ row[k] = "active" /\ k[2] \in w.who
                   /\ IF w.op = "change" THEN k[1] # w.t ELSE k[1] = w.c}

(* Whom add_members() does not skip. *)
ToAdd(w) == {s \in w.who : pupil[s] \in InOrg /\ ~ ActiveIn(w.t, s)}

(* Whom a move adds to the target. *)
ToMove(w) == {s \in w.who : (\E k \in w.rows : k[2] = s) /\ ~ ActiveIn(w.t, s)}

ReadRows(r) ==
  LET w == work[r] IN
  /\ w.pc = "rows"
  /\ work' = [work EXCEPT ![r] =
       IF w.op \in AddOps THEN [w EXCEPT !.add = ToAdd(w), !.pc = "commit"]
       ELSE [w EXCEPT !.rows = ToEnd(w),
                      !.pc = IF w.op = "move" /\ ToEnd(w) # {} THEN "target" ELSE "commit"]]
  /\ UNCHANGED <<cohort, pupil, row>>

(* A move writes the rows it ends before it reads the target's, and so     *)
(* holds them until it commits.                                            *)
Holds(q, k)  == work[q].op = "move" /\ work[q].pc = "commit" /\ k \in work[q].rows
Writable(r)  == \A k \in work[r].rows :
                  row[k] # "free" /\ \A q \in RollReqs \ {r} : ~ Holds(q, k)

ReadTarget(r) ==
  LET w == work[r] IN
  /\ w.pc = "target"
  /\ Writable(r)
  /\ work' = [work EXCEPT ![r] = [w EXCEPT !.add = ToMove(w), !.pc = "commit"]]
  /\ UNCHANGED <<cohort, pupil, row>>

---------------------------------------------------------------------------
(* Commits *)

(* Faulty variants, for mutants: the name of the request is stored; no     *)
(* unique index.                                                           *)
EndsAsAsked(op) == IF op \in GradOps THEN op ELSE "left"
NoIndex(w)      == w.add \subseteq Pupils

EndsAs(op) == IF op \in GradOps THEN "graduated" ELSE "left"

(* The unique index uq_cohort_member_active. *)
NoClash(w) == \A s \in w.add, n \in 1..MaxRows :
                 row[<<w.t, s, n>>] = "active" => <<w.t, s, n>> \in w.rows

(* The foreign keys of cohort_members. *)
Refers(t, who) == who # {} => cohort[t] \in Existing /\ \A s \in who : pupil[s] \in HasUser

(* The keys of the rows to insert. *)
NextKeys(t, who) ==
  {k \in RowKeys : /\ k[1] = t /\ k[2] \in who /\ row[k] = "free"
                   /\ \A n \in 1..MaxRows : n < k[3] => row[<<t, k[2], n>>] # "free"}
Room(t, who) == \A s \in who : \E n \in 1..MaxRows : row[<<t, s, n>>] = "free"

Written(rows, status, t, who) ==
  row' = [k \in RowKeys |-> IF k \in NextKeys(t, who) THEN "active"
                            ELSE IF k \in rows THEN status ELSE row[k]]

(* change_student_cohort() has committed the end of the old rows; the new  *)
(* one is add_members(), from its start.                                   *)
CommitRows(r) ==
  LET w == work[r] IN
  /\ w.pc = "commit" /\ w.op \in RollOps \union AddOps
  /\ Writable(r) /\ NoClash(w) /\ Refers(w.t, w.add) /\ Room(w.t, w.add)
  /\ w.op \in {"graduate", "graduateAndArchive"} => cohort[w.c] # "deleted"
  /\ Written(w.rows, EndsAs(w.op), w.t, w.add)
  /\ cohort' = IF w.op = "graduateAndArchive" THEN [cohort EXCEPT ![w.c] = "archived"] ELSE cohort
  /\ IF w.op = "change"
     THEN work' = [work EXCEPT ![r] = [w EXCEPT !.op = "changeAdd", !.pc = "open", !.rows = {}]]
     ELSE End(r)
  /\ UNCHANGED pupil

CommitStatus(r) ==
  LET w == work[r] IN
  /\ w.pc = "commit" /\ w.op \in StatusOps
  /\ \/ /\ w.op # "delete" /\ cohort[w.c] # "deleted"
        /\ cohort' = [cohort EXCEPT ![w.c] = IF w.op = "archive" THEN "archived" ELSE "active"]
     \/ /\ w.op = "delete" /\ ~ HadStudents(w.c)
        /\ cohort' = [cohort EXCEPT ![w.c] = "deleted"]
  /\ End(r)
  /\ UNCHANGED <<pupil, row>>

(* A request that is refused, fails or is cut off writes nothing more. *)
Drop(r) ==
  /\ Busy(r)
  /\ End(r)
  /\ UNCHANGED <<cohort, pupil, row>>

---------------------------------------------------------------------------
(* Writes in one step *)

CreateCohort(c) ==
  /\ cohort[c] = "none"
  /\ cohort' = [cohort EXCEPT ![c] = "active"]
  /\ UNCHANGED <<pupil, row, work>>

(* A spreadsheet of students, all in one transaction; the cohort need only *)
(* exist.                                                                  *)
CreateBulk(c, who) ==
  /\ cohort[c] \in Existing
  /\ who # {} /\ \A s \in who : pupil[s] = "new"
  /\ Room(c, who)
  /\ pupil' = [s \in Pupils |-> IF s \in who THEN "pending" ELSE pupil[s]]
  /\ Written({}, "left", c, who)
  /\ Overlap
  /\ UNCHANGED cohort

FirstLogin(s) ==
  /\ pupil[s] = "pending"
  /\ pupil' = [pupil EXCEPT ![s] = "active"]
  /\ UNCHANGED <<cohort, row, work>>

Subscribe(s) ==
  /\ pupil[s] = "out"
  /\ pupil' = [pupil EXCEPT ![s] = "joined"]
  /\ Overlap
  /\ UNCHANGED <<cohort, row>>

Unsubscribe(s) ==
  /\ pupil[s] = "joined"
  /\ pupil' = [pupil EXCEPT ![s] = "out"]
  /\ Overlap
  /\ UNCHANGED <<cohort, row>>

(* The membership goes; the account and its rows only when there is no     *)
(* other membership.                                                       *)
DeleteUser(s, elsewhere) ==
  /\ pupil[s] \in InOrg
  /\ pupil' = [pupil EXCEPT ![s] = IF elsewhere THEN "out" ELSE "gone"]
  /\ IF elsewhere THEN UNCHANGED row
     ELSE /\ \A q \in RollReqs, k \in RowKeys : k[2] = s => ~ Holds(q, k)
          /\ row' = [k \in RowKeys |-> IF k[2] = s THEN "free" ELSE row[k]]
  /\ Overlap
  /\ UNCHANGED cohort

RollStep(r) ==
  \/ \E c \in CohortIds, op \in StatusOps : AskStatus(r, op, c)
  \/ \E c, t \in CohortIds, who \in SUBSET Pupils, op \in RollOps \ {"change"} :
       AskMembers(r, op, c, t, who)
  \/ \E c \in CohortIds, who \in SUBSET Pupils : AskAdd(r, c, who)
  \/ \E s \in Pupils, t \in CohortIds : AskChange(r, s, t)
  \/ \E s \in Pupils, c \in CohortIds : CreateStudent(r, s, c)
  \/ Open(r) \/ ReadRows(r) \/ ReadTarget(r)
  \/ CommitRows(r) \/ CommitStatus(r) \/ Drop(r)

CohortNext ==
  \/ \E r \in RollReqs : RollStep(r)
  \/ \E c \in CohortIds : CreateCohort(c)
  \/ \E c \in CohortIds, who \in SUBSET Pupils : CreateBulk(c, who)
  \/ \E s \in Pupils : FirstLogin(s) \/ Subscribe(s) \/ Unsubscribe(s)
  \/ \E s \in Pupils, elsewhere \in BOOLEAN : DeleteUser(s, elsewhere)

CohortSpec == CohortInit /\ [][CohortNext]_rollVars

---------------------------------------------------------------------------
(* What holds *)

Works == [op : {"none"} \union RollOps \union AddOps \union StatusOps,
          pc : {"idle", "open", "rows", "target", "commit"},
          c : CohortIds \union {"none"}, t : CohortIds \union {"none"},
          who : SUBSET Pupils, rows : SUBSET RowKeys, add : SUBSET Pupils, solo : BOOLEAN]

CohortTypeOK ==
  /\ cohort \in [CohortIds -> {"none", "deleted"} \union Existing]
  /\ pupil \in [Pupils -> {"new", "gone"} \union HasUser]
  /\ row \in [RowKeys -> {"free", "active"} \union Ended]
  /\ work \in [RollReqs -> Works]

(* A student is in a cohort at most once, and the roll names only cohorts  *)
(* and accounts that are there: through moves, bulk creation and deletions *)
(* that read before others wrote (cohort_db.py's index and foreign keys).  *)
OneActiveRow == \A k, l \in RowKeys :
  k[1] = l[1] /\ k[2] = l[2] /\ row[k] = "active" /\ row[l] = "active" => k = l
RowsReferToWhatIs == \A k \in RowKeys :
  row[k] # "free" => cohort[k[1]] \in Existing /\ pupil[k[2]] \in HasUser
RollSound == OneActiveRow /\ RowsReferToWhatIs

(* The roll is history (cohort_service._end): a row goes only with the     *)
(* account, one that has ended stays ended, and graduated does not become  *)
(* left, or left graduated, unless two requests overlapped.                *)
RowKept(k) ==
  \/ pupil'[k[2]] = "gone"
  \/ row[k] = "free" /\ row'[k] \in {"free", "active"}
  \/ row[k] = "active" /\ row'[k] # "free"
  \/ row[k] \in Ended /\ row'[k] = row[k]
  \/ /\ row[k] \in Ended /\ row'[k] \in Ended
     /\ \E r \in RollReqs : work[r].pc = "commit" /\ ~ work[r].solo /\ work'[r] # work[r]
HistoryStays == [][\A k \in RowKeys : RowKept(k)]_rollVars

(* A request that overlaps nothing does what it says (member_action,       *)
(* change_student_cohort, add_members, graduate): those it moved are in    *)
(* the target and not in the old cohort, a student whose cohort was        *)
(* changed is in that one only, and nobody it graduated is on the roll.    *)
Landed(w) ==
  LET activeNext(c, s) == \E n \in 1..MaxRows : row'[<<c, s, n>>] = "active" IN
  /\ w.op \in RollOps \ {"change"} => \A s \in w.who : ~ activeNext(w.c, s)
  /\ w.op = "move" => \A s \in w.who : ActiveIn(w.c, s) => activeNext(w.t, s)
  /\ w.op \in AddOps => \A s \in w.who : pupil[s] \in InOrg => activeNext(w.t, s)
  /\ w.op = "changeAdd" => \A s \in w.who, c \in CohortIds : activeNext(c, s) => c = w.t
SoloLands == [][\A r \in RollReqs : CommitRows(r) /\ work[r].solo => Landed(work[r])]_rollVars

=============================================================================
