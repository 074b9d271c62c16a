------------------------------ MODULE Accounts ------------------------------
(***************************************************************************)
(* Who is who: the e-mail addresses and registration numbers of the staff  *)
(* and students of one organisation (user_management_service.py with       *)
(* routes/users.py).                                                       *)
(*                                                                         *)
(* A request reads what is taken, and inserts or changes rows when it      *)
(* commits: nothing is locked. met says that somebody else has committed   *)
(* in between. Addresses are looked up in lower case. Access codes are     *)
(* left out: a code that is taken is refused as an address is. Who already *)
(* has an account, and how one is activated, is Onboarding's.              *)
(***************************************************************************)
EXTENDS Integers, Sequences
Seqs == INSTANCE SequencesExt

CONSTANTS
  IdReqs,     \* requests in flight
  Persons,    \* accounts
  Addresses,
  Numbers,    \* registration numbers
  MaxRowsUp   \* bound: rows of an upload

ASSUME UploadAssumption == MaxRowsUp \in Nat
ASSUME IdNamesAssumption == "none" \notin Persons /\ "nobody" \notin IdReqs

VARIABLES
  person,     \* the row of each account
  idWork      \* what each request is about to write

idVars == <<person, idWork>>

NoMail   == <<"none", "lower">>
KeepMail == <<"keep", "lower">>   \* what is not written
Mails    == {NoMail} \union (Addresses \X {"lower", "typed"})
Lowered  == {NoMail} \union (Addresses \X {"lower"})
Lower(m) == <<m[1], "lower">>

Nobody   == [kind |-> "none", mail |-> NoMail, number |-> "none", pending |-> FALSE]
NoIdWork == [op |-> "none", rows |-> {}, file |-> <<>>, who |-> "none", mail |-> KeepMail,
             number |-> "keep", met |-> FALSE]

IdInit ==
  /\ person = [p \in Persons |-> Nobody]
  /\ idWork = [r \in IdReqs |-> NoIdWork]

Registered == {p \in Persons : person[p].kind # "none"}
Pupils == {p \in Persons : person[p].kind = "student"}

NewStaff(m)      == [kind |-> "staff", mail |-> m, number |-> "none", pending |-> TRUE]
NewStudent(m, n) == [kind |-> "student", mail |-> m, number |-> n, pending |-> TRUE]

MailTaken(m)   == m # NoMail /\ \E p \in Registered : person[p].mail = m
NumberTaken(n) == \E p \in Pupils : person[p].number = n

AsksFor(r, w) ==
  /\ idWork[r].op = "none"
  /\ idWork' = [idWork EXCEPT ![r] = w]
  /\ UNCHANGED person

---------------------------------------------------------------------------
(* New accounts *)

AskStaff(r, m) ==
  /\ m # NoMail /\ ~ MailTaken(m)
  /\ AsksFor(r, [NoIdWork EXCEPT !.op = "create", !.rows = {NewStaff(m)}])

AskStudent(r, m, n) ==
  /\ ~ NumberTaken(n) /\ ~ MailTaken(m)
  /\ AsksFor(r, [NoIdWork EXCEPT !.op = "create", !.rows = {NewStudent(m, n)}])

(* Faulty variant, for a mutant: only what is stored is looked at.         *)
UploadRowAlone(done, row) ==
  [seen |-> done.seen,
   rows |-> done.rows \union IF NumberTaken(row[2]) \/ MailTaken(row[1]) THEN {}
                             ELSE {NewStudent(row[1], row[2])}]

(* create_students_bulk(): one transaction, which sees its own rows. A     *)
(* number counts as seen even if its row is refused.                       *)
UploadRow(done, row) ==
  LET m == row[1]  n == row[2]
      free == /\ n \notin done.seen /\ ~ NumberTaken(n) /\ ~ MailTaken(m)
              /\ m = NoMail \/ \A x \in done.rows : x.mail # m
  IN  [seen |-> done.seen \union {n},
       rows |-> done.rows \union IF free THEN {NewStudent(m, n)} ELSE {}]

AskUpload(r, file) ==
  LET done == Seqs!FoldLeft(UploadRow, [seen |-> {}, rows |-> {}], file) IN
  AsksFor(r, [NoIdWork EXCEPT !.op = "upload", !.rows = done.rows, !.file = file])

---------------------------------------------------------------------------
(* Corrections. Only what differs is written. *)

Differing(new, old, keep) == IF new = old THEN keep ELSE new

(* update_pending_staff_email() compares without regard to case. *)
AskMail(r, p, m) ==
  /\ person[p].kind = "staff" /\ person[p].pending
  /\ m # Lower(person[p].mail) /\ NoMail \notin {m, person[p].mail}
  /\ \A q \in Registered \ {p} : Lower(person[q].mail) # m
  /\ AsksFor(r, [NoIdWork EXCEPT !.op = "mail", !.who = p, !.mail = m])

(* admin_update_user() *)
AskCorrect(r, p, m, n) ==
  /\ p \in Registered
  /\ m # KeepMail => m \in {NoMail, person[p].mail} \/ ~ MailTaken(m)
  /\ n # "keep" => p \in Pupils /\ \A q \in Pupils \ {p} : person[q].number # n
  /\ AsksFor(r, [NoIdWork EXCEPT !.op = "correct", !.who = p,
                !.mail = Differing(m, person[p].mail, KeepMail),
                !.number = Differing(n, person[p].number, "keep")])

(* update_student() stores the address as it was typed and looks nothing   *)
(* up. A number is refused: the account's row has no such column.          *)
AskUpdate(r, p, m) ==
  /\ p \in Pupils
  /\ AsksFor(r, [NoIdWork EXCEPT !.op = "update", !.who = p, !.mail = Differing(m, person[p].mail, KeepMail)])

---------------------------------------------------------------------------
(* Commits. Addresses are unique as they are stored; a row that has gone   *)
(* cannot be changed. Else the request fails: an upload as a whole.        *)

UniqueMails(S, stored) == \A x \in S :
  x.mail # NoMail => \A y \in stored : y.mail # x.mail

StoredRows(S) == {person[p] : p \in S}

Overtakes(r, gone) == [q \in IdReqs |->
  IF q = r \/ idWork[q].op = "none" \/ idWork[q].who \in gone THEN NoIdWork
  ELSE [idWork[q] EXCEPT !.met = TRUE]]

(* Distinct accounts for the rows. *)
CommitNew(r) ==
  LET w == idWork[r] IN
  /\ w.op \in {"create", "upload"}
  /\ UniqueMails(w.rows, StoredRows(Registered))
  /\ \E at \in [w.rows -> Persons \ Registered] :
       /\ \A x, y \in w.rows : at[x] = at[y] => x = y
       /\ person' = [p \in Persons |->
            IF \E x \in w.rows : at[x] = p THEN CHOOSE x \in w.rows : at[x] = p ELSE person[p]]
  /\ idWork' = Overtakes(r, {})

Replaced(new, old, keep) == IF new = keep THEN old ELSE new

CommitChange(r) ==
  LET w == idWork[r] IN
  /\ w.op \in {"mail", "correct", "update"}
  /\ w.mail # KeepMail => UniqueMails({[mail |-> w.mail]}, StoredRows(Registered \ {w.who}))
  /\ person' = [person EXCEPT ![w.who].mail = Replaced(w.mail, @, KeepMail),
                              ![w.who].number = Replaced(w.number, @, "keep")]
  /\ idWork' = Overtakes(r, {})

DropId(r) ==
  /\ idWork[r].op # "none"
  /\ idWork' = [idWork EXCEPT ![r] = NoIdWork]
  /\ UNCHANGED person

(* Onboarding: an account is activated, or deleted. *)
Activated(p) ==
  /\ person[p].pending
  /\ person' = [person EXCEPT ![p].pending = FALSE]
  /\ idWork' = Overtakes("nobody", {})

Deleted(p) ==
  /\ p \in Registered
  /\ person' = [person EXCEPT ![p] = Nobody]
  /\ idWork' = Overtakes("nobody", {p})

Files == UNION {[1..k -> Lowered \X Numbers] : k \in 1..MaxRowsUp}

IdNext ==
  \/ \E r \in IdReqs :
       \/ \E m \in Lowered : AskStaff(r, m)
       \/ \E m \in Lowered, n \in Numbers : AskStudent(r, m, n)
       \/ \E file \in Files : AskUpload(r, file)
       \/ \E p \in Persons :
            \/ \E m \in Lowered : AskMail(r, p, m)
            \/ \E m \in Lowered \union {KeepMail}, n \in Numbers \union {"keep"} : AskCorrect(r, p, m, n)
            \/ \E m \in Mails : AskUpdate(r, p, m)
       \/ CommitNew(r) \/ CommitChange(r) \/ DropId(r)
  \/ \E p \in Persons : Activated(p) \/ Deleted(p)

IdSpec == IdInit /\ [][IdNext]_idVars

---------------------------------------------------------------------------
(* What holds *)

IdTypeOK ==
  /\ person \in [Persons -> [kind : {"none", "staff", "student"}, mail : Mails,
                             number : Numbers \union {"none"}, pending : BOOLEAN]]
  /\ \A r \in IdReqs :
       /\ idWork[r].op \in {"none", "create", "upload", "mail", "correct", "update"}
       /\ idWork[r].who \in Persons \union {"none"}
       /\ idWork[r].mail \in Mails \union {KeepMail}
       /\ idWork[r].number \in Numbers \union {"keep"}
       /\ idWork[r].met \in BOOLEAN

Different(S, field) == \A p, q \in S : p # q => person[p][field] # person[q][field]

(* In one organisation no two students have the same number, unless a      *)
(* request was overtaken. *)
NumbersDiffer == Different(Pupils, "number")

(* Nobody shares an address; those that update_student() stored as typed   *)
(* are only compared as they are.                                          *)
OneAccountEach ==
  \A p, q \in Registered : p # q /\ person[p].mail # NoMail => person[p].mail # person[q].mail

(* Every number in an uploaded file is a student's afterwards, or the      *)
(* address in the first row with it is another account's.                  *)
FileTaken(file) == \A i \in DOMAIN file : LET n == file[i][2] IN
  \/ NumberTaken(n)
  \/ \E j \in DOMAIN file :
       /\ file[j][2] = n /\ \A k \in 1..(j - 1) : file[k][2] # n
       /\ MailTaken(file[j][1])

(* Two students never come to have one registration number, and an upload  *)
(* takes every row it can ("valid rows are created even if some fail",     *)
(* users.py), unless the request that commits was overtaken since it read: *)
(* only addresses have an index to fall back on, and they stay different   *)
(* whatever overtakes.                                                     *)
AccountsKept == [][
  /\ OneAccountEach'
  /\ \A r \in IdReqs :
       idWork[r].op # "none" /\ ~ idWork[r].met /\ idWork'[r].op = "none" /\ person' # person =>
         /\ NumbersDiffer => NumbersDiffer'
         /\ \A file \in {idWork[r].file} : FileTaken(file)'
  /\ NumbersDiffer /\ ~ NumbersDiffer' => \E r \in IdReqs : idWork[r].met]_idVars

=============================================================================
