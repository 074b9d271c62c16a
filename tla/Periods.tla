------------------------------ MODULE Periods ------------------------------
(***************************************************************************)
(* The periods of one organisation (a session and its terms), the current  *)
(* one, and the questions and exams dated with them (period_service.py).   *)
(*                                                                         *)
(* A request reads, decides, and writes what differs when it commits; no   *)
(* row is locked, and the foreign keys to periods are checked again then.  *)
(* Names, dates, labels and positions are left out.                        *)
(***************************************************************************)
EXTENDS Integers

CONSTANTS
  PeriodReqs,   \* requests in flight
  PeriodIds,
  Datables      \* questions and exams

ASSUME PeriodIdsAssumption == "none" \notin PeriodIds /\ "top" \notin PeriodIds

VARIABLES
  period,       \* Period.status, "none" without a row
  within,       \* Period.parent_id: a session, or "top"; fixed when created
  current,      \* OrgSettings.current_period_id, or "none"
  dated,        \* the period_id of each question and exam, or "none"
  periodWork    \* what each request has read and is about to do

periodVars == <<period, within, current, dated, periodWork>>

Known     == {p \in PeriodIds : period[p] # "none"}
Terms(p)  == {q \in Known : within[q] = p}
Family(p) == {p} \union Terms(p)

(* PeriodScope.validate(): neither the period nor its session is archived. *)
Usable(p) ==
  /\ period[p] = "active"
  /\ within[p] # "top" => period[within[p]] = "active"

NoPeriodWork == [op |-> "none", p |-> "none", in |-> "top", sets |-> FALSE, clears |-> FALSE,
                 lifts |-> FALSE, ids |-> {}, on |-> "none", met |-> {}]

PeriodInit ==
  /\ period = [p \in PeriodIds |-> "none"]
  /\ within = [p \in PeriodIds |-> "top"]
  /\ current = "none"
  /\ dated = [d \in Datables |-> "none"]
  /\ periodWork = [r \in PeriodReqs |-> NoPeriodWork]

Plans(r, w) ==
  /\ periodWork[r].op = "none"
  /\ periodWork' = [periodWork EXCEPT ![r] = w]
  /\ UNCHANGED <<period, within, current, dated>>

Performs(r) ==
  periodWork' = [q \in PeriodReqs |->
    IF q = r THEN NoPeriodWork
    ELSE IF periodWork[q].op = "none" THEN periodWork[q]
    ELSE [periodWork[q] EXCEPT !.met = @ \union {periodWork[r].op}]]

---------------------------------------------------------------------------
(* Reads and decisions *)

(* A new id is one that no row has and nothing in flight names. *)
FreshPeriod(p) ==
  /\ p \notin Known
  /\ \A r \in PeriodReqs : LET w == periodWork[r] IN p \notin {w.p, w.in} \union w.ids

AskCreatePeriod(r, p, in) ==
  /\ FreshPeriod(p)
  /\ in # "top" => period[in] = "active" /\ within[in] = "top"
  /\ Plans(r, [NoPeriodWork EXCEPT !.op = "create", !.p = p, !.in = in])

(* Faulty variant, for a mutant: archiving a session forgets its terms. *)
ClearsOnly(p) == current = p

(* _clear_current_if_within() *)
ClearsCurrent(p) == current # "none" /\ (current = p \/ within[current] = p)

AskArchivePeriod(r, p) ==
  /\ p \in Known
  /\ Plans(r, [NoPeriodWork EXCEPT !.op = "archive", !.p = p, !.sets = period[p] # "archived",
                                   !.clears = ClearsCurrent(p)])

(* Restoring a term restores its session too. *)
AskRestore(r, p) ==
  /\ p \in Known
  /\ Plans(r, [NoPeriodWork EXCEPT !.op = "restore", !.p = p, !.sets = period[p] # "active",
                 !.lifts = within[p] # "top" /\ period[within[p]] = "archived"])

AskDeletePeriod(r, p) ==
  /\ p \in Known
  /\ \A d \in Datables : dated[d] \notin Family(p)
  /\ Plans(r, [NoPeriodWork EXCEPT !.op = "delete", !.p = p, !.ids = Family(p),
                                   !.clears = ClearsCurrent(p)])

AskCurrent(r, p) ==
  /\ p = "none" \/ (p \in Known /\ Usable(p))
  /\ Plans(r, [NoPeriodWork EXCEPT !.op = "current", !.p = p, !.sets = p # current])

AskDate(r, d, p) ==
  /\ dated[d] # p
  /\ p = "none" \/ (p \in Known /\ Usable(p))
  /\ Plans(r, [NoPeriodWork EXCEPT !.op = "date", !.p = p, !.on = d])

---------------------------------------------------------------------------
(* Commits *)

CommitPeriod(r) ==
  LET w == periodWork[r] IN
  /\ w.op = "create"
  /\ w.in # "top" => w.in \in Known
  /\ period' = [period EXCEPT ![w.p] = "active"]
  /\ within' = [within EXCEPT ![w.p] = w.in]
  /\ Performs(r)
  /\ UNCHANGED <<current, dated>>

Cleared(w) == current' = IF w.clears THEN "none" ELSE current

CommitPeriodStatus(r) ==
  LET w == periodWork[r]
      status == IF w.op = "archive" THEN "archived" ELSE "active" IN
  /\ w.op \in {"archive", "restore"}
  /\ w.p \in Known
  /\ period' = [p \in PeriodIds |->
       IF p = w.p /\ w.sets THEN status
       ELSE IF w.lifts /\ p = within[w.p] THEN "active" ELSE period[p]]
  /\ Cleared(w)
  /\ Performs(r)
  /\ UNCHANGED <<within, dated>>

(* What the foreign keys refuse: a term, a date or the current period that *)
(* came after the check.                                                   *)
NothingRefers(w) ==
  /\ \A p \in Known \ w.ids : within[p] \notin w.ids
  /\ \A d \in Datables : dated[d] \notin w.ids
  /\ current' \notin w.ids

CommitDeletePeriod(r) ==
  LET w == periodWork[r] IN
  /\ w.op = "delete"
  /\ Cleared(w)
  /\ NothingRefers(w)
  /\ period' = [p \in PeriodIds |-> IF p \in w.ids THEN "none" ELSE period[p]]
  /\ within' = [p \in PeriodIds |-> IF p \in w.ids THEN "top" ELSE within[p]]
  /\ Performs(r)
  /\ UNCHANGED dated

CommitCurrent(r) ==
  LET w == periodWork[r] IN
  /\ w.op = "current"
  /\ w.sets => w.p \in Known \union {"none"}
  /\ current' = IF w.sets THEN w.p ELSE current
  /\ Performs(r)
  /\ UNCHANGED <<period, within, dated>>

CommitDate(r) ==
  LET w == periodWork[r] IN
  /\ w.op = "date"
  /\ w.p \in Known \union {"none"}
  /\ dated' = [dated EXCEPT ![w.on] = w.p]
  /\ Performs(r)
  /\ UNCHANGED <<period, within, current>>

DropPeriod(r) ==
  /\ periodWork[r].op # "none"
  /\ periodWork' = [periodWork EXCEPT ![r] = NoPeriodWork]
  /\ UNCHANGED <<period, within, current, dated>>

PeriodStep(r) ==
  \/ \E p \in PeriodIds, in \in PeriodIds \union {"top"} : AskCreatePeriod(r, p, in)
  \/ \E p \in PeriodIds : AskArchivePeriod(r, p) \/ AskRestore(r, p) \/ AskDeletePeriod(r, p)
  \/ \E p \in PeriodIds \union {"none"} : AskCurrent(r, p)
  \/ \E d \in Datables, p \in PeriodIds \union {"none"} : AskDate(r, d, p)
  \/ CommitPeriod(r) \/ CommitPeriodStatus(r) \/ CommitDeletePeriod(r)
  \/ CommitCurrent(r) \/ CommitDate(r)
  \/ DropPeriod(r)

PeriodNext == \E r \in PeriodReqs : PeriodStep(r)

PeriodSpec == PeriodInit /\ [][PeriodNext]_periodVars

---------------------------------------------------------------------------
(* What holds *)

PeriodOps == {"create", "archive", "restore", "delete", "current", "date"}

PeriodTypeOK ==
  /\ period \in [PeriodIds -> {"none", "active", "archived"}]
  /\ within \in [PeriodIds -> PeriodIds \union {"top"}]
  /\ current \in PeriodIds \union {"none"}
  /\ dated \in [Datables -> PeriodIds \union {"none"}]
  /\ periodWork \in [PeriodReqs ->
       [op : PeriodOps \union {"none"}, p : PeriodIds \union {"none"},
        in : PeriodIds \union {"top"}, sets : BOOLEAN, clears : BOOLEAN, lifts : BOOLEAN,
        ids : SUBSET PeriodIds, on : Datables \union {"none"}, met : SUBSET PeriodOps]]

TwoLevels     == \A p \in Known : within[p] # "top" => within[p] \in Known /\ within[within[p]] = "top"
CurrentUsable == current # "none" => Usable(current)

RacedPeriod(op, kind) == \E r \in PeriodReqs :
  /\ periodWork[r].op = op /\ periodWork'[r].op = "none" /\ kind \in periodWork[r].met

(* The current period can be used for new questions and exams              *)
(* (_clear_current_if_within, OrgSettingsService.update) unless choosing   *)
(* it overlapped archiving it; periods have two levels, and no deletion    *)
(* takes a period that others refer to (PeriodService.delete, "Only for    *)
(* periods nothing uses yet"), however requests overlap.                   *)
PeriodsKept == [][
  /\ TwoLevels'
  /\ current' \in Known' \union {"none"}
  /\ \A d \in Datables : dated'[d] \in Known' \union {"none"}
  /\ CurrentUsable => CurrentUsable' \/ RacedPeriod("archive", "current")
                                     \/ RacedPeriod("current", "archive")]_periodVars

=============================================================================
