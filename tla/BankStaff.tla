------------------------------ MODULE BankStaff ------------------------------
(***************************************************************************)
(* Who works on one subject, which of its banks each of them may use, and  *)
(* what they put into the banks (SubjectService.assign_users and           *)
(* unassign_user, BankService, the bank of ItemService and of              *)
(* BulkUploadService).                                                     *)
(*                                                                         *)
(* A request reads, decides, and writes what differs when it commits.      *)
(* met collects what others committed since; unassigning deletes in two    *)
(* statements, and only what it finds when it runs the second.             *)
(***************************************************************************)
EXTENDS Integers

CONSTANTS
  StaffReqs,      \* requests in flight
  Staff,          \* staff whose reach is "assigned"; the others see every bank
  Banks,          \* ids of the subject's banks
  MaxStaffRows    \* bound: rows one person can have on the subject

VARIABLES
  onSubject,   \* subject_assignments: <<person, row>>
  bank,        \* QuestionBank.status, "none" without a row
  given,       \* bank_assignments: <<bank, person>>, unique
  filled,      \* the banks that hold questions
  staffWork    \* what each request has read and is about to do

staffVars == <<onSubject, bank, given, filled, staffWork>>

Grants       == Banks \X Staff
AssignedRows == Staff \X (1..MaxStaffRows)
KnownBanks   == {b \in Banks : bank[b] # "none"}
WorksOn(u)   == \E x \in onSubject : x[1] = u

NoStaffWork == [op |-> "none", pc |-> "idle", rows |-> {}, adds |-> {}, drops |-> {},
                b |-> "none", status |-> "keep", met |-> {}]

StaffInit ==
  /\ onSubject = {}
  /\ bank = [b \in Banks |-> "none"]
  /\ given = {}
  /\ filled = {}
  /\ staffWork = [r \in StaffReqs |-> NoStaffWork]

Takes(r, w) ==
  /\ staffWork[r].pc = "idle"
  /\ staffWork' = [staffWork EXCEPT ![r] = w]
  /\ UNCHANGED <<onSubject, bank, given, filled>>

(* What the others have met when a request is done; filing meets nobody.   *)
Notable(op) == {op} \ {"file"}

Finishes(r) ==
  staffWork' = [q \in StaffReqs |->
    IF q = r THEN NoStaffWork
    ELSE IF staffWork[q].pc = "idle" THEN staffWork[q]
    ELSE [staffWork[q] EXCEPT !.met = @ \union Notable(staffWork[r].op)]]

---------------------------------------------------------------------------
(* Reads and decisions *)

(* Nothing but this read keeps a person from being put on a subject twice: *)
(* the rows have no unique key.                                            *)
AskAssign(r, u) ==
  /\ ~WorksOn(u)
  /\ \E n \in 1..MaxStaffRows :
       /\ \A k \in 1..n : (k < n) = (\E q \in StaffReqs : <<u, k>> \in staffWork[q].rows)
       /\ Takes(r, [NoStaffWork EXCEPT !.op = "assign", !.pc = "commit", !.rows = {<<u, n>>}])

AskUnassign(r, x) ==
  /\ x \in onSubject
  /\ Takes(r, [NoStaffWork EXCEPT !.op = "unassign", !.pc = "delete", !.rows = {x}])

(* Faulty variant, for a mutant: the person keeps the subject's banks. *)
KeepsBanks(r) ==
  /\ staffWork[r].pc = "delete"
  /\ staffWork' = [staffWork EXCEPT ![r].pc = "commit", ![r].met = {}]
  /\ UNCHANGED <<onSubject, bank, given, filled>>

(* The DELETE statement takes the grants that are there when it runs; met  *)
(* starts anew.                                                            *)
DeletesGrants(r) ==
  /\ staffWork[r].pc = "delete"
  /\ staffWork' = [staffWork EXCEPT ![r].pc = "commit", ![r].met = {},
       ![r].drops = {g \in given : \E x \in staffWork[r].rows : g[2] = x[1]}]
  /\ UNCHANGED <<onSubject, bank, given, filled>>

(* The maker of a bank keeps access to it; whoever sees every bank needs   *)
(* no grant.                                                               *)
AskCreateBank(r, b, makers) ==
  /\ b \notin KnownBanks
  /\ \A q \in StaffReqs : staffWork[q].b # b
  /\ \A u \in makers : WorksOn(u)
  /\ Takes(r, [NoStaffWork EXCEPT !.op = "create", !.pc = "commit", !.b = b,
                                  !.status = "active", !.adds = {b} \X makers])

AskBankStatus(r, b, status) ==
  /\ b \in KnownBanks /\ bank[b] # status
  /\ Takes(r, [NoStaffWork EXCEPT !.op = "status", !.pc = "commit", !.b = b, !.status = status])

(* set_staff() replaces who may use a bank, set_banks_for_staff() which    *)
(* banks a person may use: the grants among these that are wanted.         *)
ReplaceGrants(r, among, want) ==
  Takes(r, [NoStaffWork EXCEPT !.op = "grant", !.pc = "commit",
              !.adds = want \ given, !.drops = (among \intersect given) \ want])

AskSetStaff(r, b, want) ==
  /\ b \in KnownBanks
  /\ \A u \in want : WorksOn(u)
  /\ ReplaceGrants(r, {b} \X Staff, {b} \X want)

AskSetBanks(r, u, want) ==
  /\ WorksOn(u)
  /\ want \subseteq KnownBanks
  /\ ReplaceGrants(r, Banks \X {u}, want \X {u})

(* validate_bank() and assert_bank_access(), for one question or a         *)
(* spreadsheet of them.                                                    *)
AskFile(r, b, writers) ==
  /\ bank[b] = "active"
  /\ \A u \in writers : WorksOn(u) /\ <<b, u>> \in given
  /\ Takes(r, [NoStaffWork EXCEPT !.op = "file", !.pc = "commit", !.b = b,
                                  !.adds = {b} \X writers])

---------------------------------------------------------------------------
(* Commits *)

CommitOnSubject(r) ==
  LET w == staffWork[r] IN
  /\ w.pc = "commit" /\ w.op = "assign"
  /\ onSubject' = onSubject \union w.rows
  /\ Finishes(r)
  /\ UNCHANGED <<bank, given, filled>>

CommitUnassign(r) ==
  LET w == staffWork[r] IN
  /\ w.pc = "commit" /\ w.op = "unassign"
  /\ onSubject' = onSubject \ w.rows
  /\ given' = given \ w.drops
  /\ Finishes(r)
  /\ UNCHANGED <<bank, filled>>

CommitBank(r) ==
  LET w == staffWork[r] IN
  /\ w.pc = "commit" /\ w.op \in {"create", "status"}
  /\ bank' = [bank EXCEPT ![w.b] = w.status]
  /\ given' = given \union w.adds
  /\ Finishes(r)
  /\ UNCHANGED <<onSubject, filled>>

(* A grant that someone else has made meanwhile violates the unique key;   *)
(* one that is already gone is no error.                                   *)
CommitGrant(r) ==
  LET w == staffWork[r] IN
  /\ w.pc = "commit" /\ w.op = "grant"
  /\ w.adds \intersect given = {}
  /\ given' = (given \ w.drops) \union w.adds
  /\ Finishes(r)
  /\ UNCHANGED <<onSubject, bank, filled>>

CommitFile(r) ==
  LET w == staffWork[r] IN
  /\ w.pc = "commit" /\ w.op = "file"
  /\ filled' = filled \union {w.b}
  /\ Finishes(r)
  /\ UNCHANGED <<onSubject, bank, given>>

DropStaff(r) ==
  /\ staffWork[r].pc # "idle"
  /\ staffWork' = [staffWork EXCEPT ![r] = NoStaffWork]
  /\ UNCHANGED <<onSubject, bank, given, filled>>

AtMostOne == {{}} \union {{u} : u \in Staff}

StaffStep(r) ==
  \/ \E u \in Staff : AskAssign(r, u)
  \/ \E x \in AssignedRows : AskUnassign(r, x)
  \/ \E b \in Banks, who \in AtMostOne : AskCreateBank(r, b, who) \/ AskFile(r, b, who)
  \/ \E b \in Banks, status \in {"active", "archived"} : AskBankStatus(r, b, status)
  \/ \E b \in Banks, want \in SUBSET Staff : AskSetStaff(r, b, want)
  \/ \E u \in Staff, want \in SUBSET Banks : AskSetBanks(r, u, want)
  \/ DeletesGrants(r)
  \/ CommitOnSubject(r) \/ CommitUnassign(r) \/ CommitBank(r) \/ CommitGrant(r) \/ CommitFile(r)
  \/ DropStaff(r)

StaffNext == \E r \in StaffReqs : StaffStep(r)

StaffSpec == StaffInit /\ [][StaffNext]_staffVars

---------------------------------------------------------------------------
(* What holds *)

StaffOps == {"assign", "unassign", "create", "status", "grant", "file"}

StaffTypeOK ==
  /\ onSubject \subseteq AssignedRows
  /\ bank \in [Banks -> {"none", "active", "archived"}]
  /\ given \subseteq Grants
  /\ filled \subseteq Banks
  /\ staffWork \in [StaffReqs ->
       [op : StaffOps \union {"none"}, pc : {"idle", "delete", "commit"},
        rows : SUBSET AssignedRows, adds : SUBSET Grants, drops : SUBSET Grants,
        b : Banks \union {"none"}, status : {"keep", "active", "archived"},
        met : SUBSET StaffOps]]

OnlySubjectStaff == \A g \in given : g[1] \in KnownBanks /\ WorksOn(g[2])
OneRowEach       == \A x, y \in onSubject : x[1] = y[1] => x = y

Settled(r, ops) == staffWork[r].op \in ops /\ staffWork[r].pc = "commit" /\ staffWork'[r].pc = "idle"
RacedStaff(ops, kinds) == \E r \in StaffReqs :
  Settled(r, ops) /\ staffWork[r].met \intersect kinds # {}

(* Only staff of a subject are given its banks, and leaving it takes them  *)
(* away ("They lose the subject's banks too", BankService.set_staff,       *)
(* ScopeService.validate_bank): a grant can be left behind only when it    *)
(* overlapped an unassignment, a person is on a subject twice only after   *)
(* overlapping assignments, and a bank is filled by someone without it, or *)
(* when it is archived, only when that overlapped the writing.             *)
StaffKept == [][
  /\ OnlySubjectStaff => \/ OnlySubjectStaff'
                         \/ RacedStaff({"grant", "create"}, {"unassign"})
                         \/ RacedStaff({"unassign"}, {"grant", "create"})
  /\ OneRowEach => OneRowEach' \/ RacedStaff({"assign"}, {"assign"})
  /\ \A r \in StaffReqs : Settled(r, {"file"}) /\ filled' # filled =>
       \/ bank[staffWork[r].b] = "active" /\ staffWork[r].adds \subseteq given
       \/ RacedStaff({"file"}, {"unassign", "grant", "status"})]_staffVars

=============================================================================
