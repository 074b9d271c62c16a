--------------------------- MODULE MarkingProofs ---------------------------
(***************************************************************************)
(* Proofs about Marking, for any requests, reviewers, questions and marks. *)
(* The sum of the marks is never expanded: what is proved is that totals   *)
(* are computed from the right answers, not what a sum is.                 *)
(***************************************************************************)
EXTENDS Marking, TLAPS

(* A request that the reset has not overtaken was begun on the attempt as  *)
(* it is now; so while the attempt is reset, every request is overtaken.   *)
Overtaken ==
  /\ \A r \in Requests : task[r].life <= life
  /\ status = "reset" =>
       \A r \in Requests : pc[r] \in {"loaded", "written", "summed"} => Gone(r)

(* A request that marks has an answer's row to mark. *)
RowKnown ==
  \A r \in Requests :
    /\ task[r].kind \in {"review", "accept"} => task[r].row \in Rows
    /\ pc[r] = "written" => task[r].kind = "review"

(* What a request that runs alone has loaded is still so, and the totals   *)
(* it has computed are those of the answers with its mark.                 *)
LoadedNow(r) ==
  /\ task[r].final = final
  /\ task[r].passed = passed
  /\ task[r].row \in DOMAIN marks => task[r].seen = marks[task[r].row]

SummedNow(r) ==
  /\ task[r].newFinal = FinalOf(With(marks, task[r].row, task[r].mark))
  /\ task[r].newPassed = PassedOf(With(marks, task[r].row, task[r].mark))

SoloInv ==
  \A r \in Requests :
    alone[r] /\ ~ Gone(r) =>
      /\ \A q \in Requests \ {r} : pc[q] = "idle"
      /\ task[r].kind \in {"review", "accept"} => LoadedNow(r)
      /\ task[r].kind \in {"review", "accept"} /\ pc[r] = "summed" => SummedNow(r)

Inv == TypeOK /\ RowKnown /\ Overtaken /\ NothingSurvivesReset /\ SoloInv

---------------------------------------------------------------------------
(* Types *)

LEMMA SheetTypes ==
  /\ \A m \in HandedIn : m \in Sheets
  /\ \A m \in Sheets : FinalOf(m) \in Finals /\ PassedOf(m) \in Verdicts
  /\ <<>> \in Sheets
  /\ \A m \in Sheets, x \in Rows, k \in Marks : With(m, x, k) \in Sheets
  /\ \A m \in Sheets : \A x \in DOMAIN m : x \in Rows /\ m[x] \in Marks
<1>1. \A m \in HandedIn : m \in Sheets
  <2> SUFFICES ASSUME NEW m \in HandedIn PROVE m \in Sheets
    OBVIOUS
  <2>1. PICK S \in SUBSET Items : m \in [S \X {None} -> Marks]
    BY DEF HandedIn
  <2>2. S \X {None} \in SUBSET Rows
    BY DEF Rows
  <2> QED BY <2>1, <2>2 DEF Sheets
<1>2. \A m \in Sheets : FinalOf(m) \in Finals /\ PassedOf(m) \in Verdicts
  BY DEF Finals, PassedOf, Verdicts
<1>3. <<>> \in Sheets
  <2>1. <<>> \in [{} -> Marks]
    OBVIOUS
  <2>2. {} \in SUBSET Rows
    OBVIOUS
  <2> QED BY <2>1, <2>2 DEF Sheets
<1>4. \A m \in Sheets, x \in Rows, k \in Marks : With(m, x, k) \in Sheets
  <2> SUFFICES ASSUME NEW m \in Sheets, NEW x \in Rows, NEW k \in Marks
               PROVE With(m, x, k) \in Sheets
    OBVIOUS
  <2>1. PICK S \in SUBSET Rows : m \in [S -> Marks]
    BY DEF Sheets
  <2>2. With(m, x, k) \in [S \union {x} -> Marks]
    BY <2>1 DEF With
  <2>3. S \union {x} \in SUBSET Rows
    OBVIOUS
  <2> QED BY <2>2, <2>3 DEF Sheets
<1>5. \A m \in Sheets : \A x \in DOMAIN m : x \in Rows /\ m[x] \in Marks
  BY DEF Sheets
<1> QED BY <1>1, <1>2, <1>3, <1>4, <1>5

LEMMA TaskTypes ==
  /\ Idle \in Tasks
  /\ TypeOK =>
       \A kind \in {"review", "accept"}, x \in Rows, by \in Scorers :
         Load(kind, x, by) \in Tasks
<1>1. None \in Marks /\ None \in Finals /\ None \in Verdicts /\ None \in Scorers
  BY DEF Marks, Finals, Verdicts, Scorers
<1>2. Idle \in Tasks
  BY <1>1 DEF Idle, Tasks
<1>3. ASSUME TypeOK, NEW kind \in {"review", "accept"}, NEW x \in Rows, NEW by \in Scorers
      PROVE Load(kind, x, by) \in Tasks
  <2>1. (IF x \in DOMAIN marks THEN marks[x] ELSE None) \in Marks
    BY <1>1, <1>3, SheetTypes DEF TypeOK
  <2> QED BY <1>1, <1>2, <1>3, <2>1 DEF Load, Idle, Tasks, TypeOK
<1> QED BY <1>2, <1>3

(* Init establishes the types. *)
LEMMA TypeInit == Init => TypeOK
<1> SUFFICES ASSUME Init PROVE TypeOK
  OBVIOUS
<1>1. marks \in Sheets /\ final \in Finals /\ passed \in Verdicts
  BY SheetTypes DEF Init, Rescored
<1>2. task \in [Requests -> Tasks]
  BY TaskTypes DEF Init
<1>3. late \in [Items -> Late]
  BY DEF Init, Late
<1> QED BY <1>1, <1>2, <1>3 DEF Init, TypeOK, Scorers, Phases

(* What the requests have in common keeps the types. *)
LEMMA BeginTypes ==
  ASSUME TypeOK, NEW r \in Requests, NEW t \in Tasks, NEW phase \in Phases, Begin(r, t, phase)
  PROVE TypeOK'
BY DEF TypeOK, Begin, attempt

LEMMA EndTypes ==
  ASSUME TypeOK, NEW r \in Requests, End(r)
  PROVE /\ pc' \in [Requests -> Phases]
        /\ task' \in [Requests -> Tasks]
        /\ alone' \in [Requests -> BOOLEAN]
BY TaskTypes DEF TypeOK, End, Phases

LEMMA SumTypes ==
  ASSUME TypeOK, NEW r \in Requests, NEW mark \in Marks, task[r].row \in Rows, Sum(r, mark)
  PROVE TypeOK'
<1>1. SheetOf(r, mark) \in Sheets
  BY SheetTypes DEF TypeOK, SheetOf
<1>2. FinalOf(SheetOf(r, mark)) \in Finals /\ PassedOf(SheetOf(r, mark)) \in Verdicts
  BY <1>1, SheetTypes
<1>3. task[r] \in Tasks
  BY DEF TypeOK
<1>4. task' \in [Requests -> Tasks]
  BY <1>2, <1>3 DEF TypeOK, Sum, Tasks
<1> QED BY <1>4 DEF TypeOK, Sum, Phases, attempt

---------------------------------------------------------------------------
(* Types and rows are kept by every step *)

LEMMA TypeStep == TypeOK /\ RowKnown /\ [Next]_vars => TypeOK'
<1> SUFFICES ASSUME TypeOK, RowKnown, [Next]_vars PROVE TypeOK'
  OBVIOUS
<1>1. ASSUME HandIn PROVE TypeOK'
  <2>1. marks' \in Sheets /\ final' \in Finals /\ passed' \in Verdicts
    BY <1>1, SheetTypes DEF HandIn
  <2> QED BY <1>1, <2>1 DEF HandIn, TypeOK, Scorers
<1>2. ASSUME NEW i \in Items, LateArrives(i) PROVE TypeOK'
  BY <1>2 DEF LateArrives, TypeOK, Late, attempt
<1>3. ASSUME NEW r \in Requests, Request(r) PROVE TypeOK'
  <2>1. ASSUME NEW x \in DOMAIN marks, NEW by \in Reviewers, ReviewLoad(r, x, by) PROVE TypeOK'
    <3>1. x \in Rows
      BY SheetTypes DEF TypeOK
    <3>2. Load("review", x, by) \in Tasks
      BY <3>1, TaskTypes DEF Scorers
    <3> QED BY <2>1, <3>2, BeginTypes DEF ReviewLoad, Phases
  <2>2. ASSUME NEW m \in Awardable, ReviewWrite(r, m) PROVE TypeOK'
    <3>1. m \in Marks
      BY MarksAssumption DEF Awardable, Marks
    <3>2. task' \in [Requests -> Tasks]
      BY <2>2, <3>1 DEF ReviewWrite, TypeOK, Tasks
    <3> QED BY <2>2, <3>2 DEF ReviewWrite, TypeOK, Phases, attempt
  <2>3. CASE ReviewSum(r)
    <3>1. task[r].row \in Rows /\ task[r].mark \in Marks
      BY <2>3 DEF ReviewSum, RowKnown, TypeOK, Tasks
    <3> QED BY <2>3, <3>1, SumTypes DEF ReviewSum
  <2>4. ASSUME NEW i \in Items, AcceptLoad(r, i) PROVE TypeOK'
    <3>1. PICK x \in Target(r, i) : Begin(r, Load("accept", x, None), "loaded")
      BY <2>4 DEF AcceptLoad
    <3>2. x \in Rows
      BY SheetTypes DEF Target, Rows, TypeOK
    <3>3. Load("accept", x, None) \in Tasks
      BY <3>2, TaskTypes DEF Scorers
    <3> QED BY <3>1, <3>3, BeginTypes DEF Phases
  <2>5. ASSUME NEW i \in Items, RejectLoad(r, i) PROVE TypeOK'
    <3>1. [Idle EXCEPT !.kind = "reject", !.row = <<i, None>>, !.life = life] \in Tasks
      BY TaskTypes DEF Idle, Tasks, Rows, TypeOK
    <3> QED BY <2>5, <3>1, BeginTypes DEF RejectLoad, Phases
  <2>6. ASSUME NEW m \in Marks, AcceptWrite(r, m) PROVE TypeOK'
    <3>1. task[r].row \in Rows
      BY <2>6 DEF AcceptWrite, RowKnown
    <3> QED BY <2>6, <3>1, SumTypes DEF AcceptWrite
  <2>7. CASE CommitMark(r)
    <3>1. task[r] \in Tasks /\ task[r].row \in Rows
      BY <2>7 DEF CommitMark, RowKnown, TypeOK
    <3>2. (IF task[r].row \in DOMAIN marks
             THEN Stored(task[r].mark, task[r].seen, marks[task[r].row])
             ELSE task[r].mark) \in Marks
      BY <3>1, SheetTypes DEF TypeOK, Stored, Tasks
    <3>3. marks' \in Sheets
      BY <2>7, <3>1, <3>2, SheetTypes DEF CommitMark, TypeOK
    <3>4. final' \in Finals /\ passed' \in Verdicts /\ scoredBy' \in Scorers
      BY <2>7, <3>1 DEF CommitMark, TypeOK, Stored, Tasks
    <3>5. late' \in [Items -> Late]
      BY <2>7 DEF CommitMark, TypeOK, Late
    <3> QED BY <2>7, <3>3, <3>4, <3>5, EndTypes DEF CommitMark, TypeOK
  <2>8. CASE CommitReject(r)
    BY <2>8, EndTypes DEF CommitReject, TypeOK, Late, attempt
  <2>9. CASE Rollback(r)
    BY <2>9, EndTypes DEF Rollback, TypeOK, attempt
  <2>10. CASE ResetLock(r)
    <3>1. [Idle EXCEPT !.kind = "reset"] \in Tasks
      BY TaskTypes DEF Idle, Tasks
    <3> QED BY <2>10, <3>1, BeginTypes DEF ResetLock, Phases
  <2>11. CASE ResetCommit(r)
    BY <2>11, EndTypes, SheetTypes DEF ResetCommit, TypeOK, Finals, Verdicts, Scorers, Late
  <2> QED BY <1>3, <2>1, <2>2, <2>3, <2>4, <2>5, <2>6, <2>7, <2>8, <2>9, <2>10, <2>11 DEF Request
<1>4. CASE UNCHANGED vars
  BY <1>4 DEF vars, attempt, TypeOK
<1> QED BY <1>1, <1>2, <1>3, <1>4 DEF Next

LEMMA RowStep == TypeOK /\ RowKnown /\ [Next]_vars => RowKnown'
<1> SUFFICES ASSUME TypeOK, RowKnown, [Next]_vars PROVE RowKnown'
  OBVIOUS
<1>1. CASE HandIn
  BY <1>1 DEF HandIn, RowKnown
<1>2. ASSUME NEW i \in Items, LateArrives(i) PROVE RowKnown'
  BY <1>2 DEF LateArrives, RowKnown
<1>3. ASSUME NEW r \in Requests, Request(r) PROVE RowKnown'
  <2> DEFINE Known(q) == /\ task[q].kind \in {"review", "accept"} => task[q].row \in Rows
                         /\ pc[q] = "written" => task[q].kind = "review"
  <2>0. \A q \in Requests : task[q] \in Tasks /\ Known(q)
    BY DEF TypeOK, RowKnown
  <2>1. ASSUME NEW x \in DOMAIN marks, NEW by \in Reviewers, ReviewLoad(r, x, by) PROVE RowKnown'
    <3>1. x \in Rows
      BY SheetTypes DEF TypeOK
    <3>2. Load("review", x, by).row = x /\ Load("review", x, by).kind = "review"
      BY DEF Load, Idle
    <3> QED BY <2>0, <2>1, <3>1, <3>2 DEF Begin, TypeOK, ReviewLoad, RowKnown
  <2>2. ASSUME NEW m \in Awardable, ReviewWrite(r, m) PROVE RowKnown'
    BY <2>0, <2>2 DEF ReviewWrite, RowKnown, TypeOK, Tasks
  <2>3. CASE ReviewSum(r)
    BY <2>0, <2>3 DEF Sum, TypeOK, ReviewSum, RowKnown, Tasks
  <2>4. ASSUME NEW i \in Items, AcceptLoad(r, i) PROVE RowKnown'
    <3>1. PICK x \in Target(r, i) : Begin(r, Load("accept", x, None), "loaded")
      BY <2>4 DEF AcceptLoad
    <3>2. x \in Rows
      BY SheetTypes DEF Target, Rows, TypeOK
    <3>3. Load("accept", x, None).row = x
      BY DEF Load, Idle
    <3> QED BY <2>0, <3>1, <3>2, <3>3 DEF Begin, TypeOK, RowKnown
  <2>5. ASSUME NEW i \in Items, RejectLoad(r, i) PROVE RowKnown'
    <3>1. [Idle EXCEPT !.kind = "reject", !.row = <<i, None>>, !.life = life].kind = "reject"
      BY DEF Idle
    <3> QED BY <2>0, <2>5, <3>1 DEF Begin, TypeOK, RejectLoad, RowKnown
  <2>6. ASSUME NEW m \in Marks, AcceptWrite(r, m) PROVE RowKnown'
    BY <2>0, <2>6 DEF Sum, TypeOK, AcceptWrite, RowKnown, Tasks
  <2>7. CASE ResetLock(r)
    <3>1. [Idle EXCEPT !.kind = "reset"].kind = "reset"
      BY DEF Idle
    <3> QED BY <2>0, <2>7, <3>1 DEF Begin, TypeOK, ResetLock, RowKnown
  <2>8. CASE CommitMark(r) \/ CommitReject(r) \/ Rollback(r) \/ ResetCommit(r)
    <3>1. Idle.kind = "none"
      BY DEF Idle
    <3>2. End(r)
      BY <2>8 DEF CommitMark, CommitReject, Rollback, ResetCommit
    <3> QED BY <2>0, <3>1, <3>2 DEF End, TypeOK, RowKnown
  <2> QED BY <1>3, <2>1, <2>2, <2>3, <2>4, <2>5, <2>6, <2>7, <2>8 DEF Request
<1>4. CASE UNCHANGED vars
  BY <1>4 DEF vars, RowKnown
<1> QED BY <1>1, <1>2, <1>3, <1>4 DEF Next

---------------------------------------------------------------------------
(* The reset *)

(* Only loads can meet a reset attempt, and none of them begins on one: it *)
(* is not closed, and has no late answer. Everything else is overtaken.    *)
LEMMA ResetStep ==
  TypeOK /\ Overtaken /\ NothingSurvivesReset /\ [Next]_vars
    => Overtaken' /\ NothingSurvivesReset'
<1> SUFFICES ASSUME TypeOK, Overtaken, NothingSurvivesReset, [Next]_vars
             PROVE Overtaken' /\ NothingSurvivesReset'
  OBVIOUS
<1>0. life \in Nat /\ \A q \in Requests : task[q] \in Tasks /\ task[q].life \in Nat
  BY DEF TypeOK, Tasks
<1>1. CASE HandIn
  BY <1>1 DEF HandIn, Overtaken, NothingSurvivesReset
<1>2. ASSUME NEW i \in Items, LateArrives(i) PROVE Overtaken' /\ NothingSurvivesReset'
  BY <1>2 DEF LateArrives, Overtaken, NothingSurvivesReset, Gone, attempt
<1>3. ASSUME NEW r \in Requests, Request(r) PROVE Overtaken' /\ NothingSurvivesReset'
  <2>1. ASSUME NEW x, NEW by, ReviewLoad(r, x, by) PROVE Overtaken' /\ NothingSurvivesReset'
    <3>1. Load("review", x, by).life = life
      BY DEF Load, Idle
    <3>2. status = "closed"
      BY <2>1 DEF ReviewLoad
    <3> QED
      BY <1>0, <2>1, <3>1, <3>2 DEF ReviewLoad, Begin, attempt, TypeOK, Overtaken, NothingSurvivesReset
  <2>2. ASSUME NEW m, ReviewWrite(r, m) PROVE Overtaken' /\ NothingSurvivesReset'
    BY <1>0, <2>2 DEF ReviewWrite, attempt, TypeOK, Tasks, Overtaken, NothingSurvivesReset, Gone
  <2>3. ASSUME NEW m, Sum(r, m), pc[r] \in {"loaded", "written"}
        PROVE Overtaken' /\ NothingSurvivesReset'
    BY <1>0, <2>3 DEF Sum, attempt, TypeOK, Tasks, Overtaken, NothingSurvivesReset, Gone
  <2>4. ASSUME NEW i \in Items, AcceptLoad(r, i) \/ RejectLoad(r, i)
        PROVE Overtaken' /\ NothingSurvivesReset'
    <3>a. \A x : Load("accept", x, None).life = life
      BY DEF Load, Idle
    <3>b. [Idle EXCEPT !.kind = "reject", !.row = <<i, None>>, !.life = life].life = life
      BY DEF Idle
    <3>1. PICK t : Begin(r, t, "loaded") /\ t.life = life
      BY <2>4, <3>a, <3>b DEF AcceptLoad, RejectLoad
    <3>2. status = "closed"
      BY <2>4 DEF AcceptLoad, RejectLoad, NothingSurvivesReset, TypeOK
    <3> QED
      BY <1>0, <3>1, <3>2 DEF Begin, attempt, TypeOK, Overtaken, NothingSurvivesReset
  <2>5. CASE CommitMark(r)
    <3>1. status = "closed"
      BY <2>5 DEF CommitMark, Overtaken, TypeOK
    <3>2. Idle.life = 0
      BY DEF Idle
    <3> QED
      BY <1>0, <2>5, <3>1, <3>2 DEF CommitMark, End, TypeOK, Overtaken, NothingSurvivesReset
  <2>6. CASE CommitReject(r)
    <3>1. status = "closed"
      BY <2>6 DEF CommitReject, Overtaken, TypeOK
    <3>2. Idle.life = 0
      BY DEF Idle
    <3> QED
      BY <1>0, <2>6, <3>1, <3>2 DEF CommitReject, End, attempt, TypeOK, Overtaken, NothingSurvivesReset
  <2>7. CASE Rollback(r)
    <3>1. Idle.life = 0
      BY DEF Idle
    <3> QED
      BY <1>0, <2>7, <3>1 DEF Rollback, End, attempt, TypeOK, Overtaken, NothingSurvivesReset, Gone
  <2>8. CASE ResetLock(r)
    <3>1. [Idle EXCEPT !.kind = "reset"].life = 0
      BY DEF Idle
    <3> QED
      BY <1>0, <2>8, <3>1 DEF ResetLock, Begin, attempt, TypeOK, Overtaken, NothingSurvivesReset, Gone
  <2>9. CASE ResetCommit(r)
    <3>1. Idle.life = 0
      BY DEF Idle
    <3>2. \A q \in Requests : task'[q].life <= life
      BY <1>0, <2>9, <3>1 DEF ResetCommit, End, TypeOK, Overtaken
    <3>3. life' = life + 1
      BY <2>9 DEF ResetCommit
    <3>4. Overtaken'
      BY <1>0, <2>9, <3>1, <3>2, <3>3 DEF ResetCommit, End, TypeOK, Overtaken, Gone
    <3> QED
      BY <2>9, <3>4 DEF ResetCommit, NothingSurvivesReset
  <2> QED
    BY <1>3, <2>1, <2>2, <2>3, <2>4, <2>5, <2>6, <2>7, <2>8, <2>9
    DEF Request, ReviewSum, AcceptWrite
<1>4. CASE UNCHANGED vars
  BY <1>4 DEF vars, attempt, Overtaken, NothingSurvivesReset, Gone
<1> QED BY <1>1, <1>2, <1>3, <1>4 DEF Next

---------------------------------------------------------------------------
(* Requests that run alone *)

(* A row that has the mark it was loaded with, or is given another, ends   *)
(* up with the mark it was given.                                          *)
LEMMA StoredAsGiven == \A new, loaded : Stored(new, loaded, loaded) = new
BY DEF Stored

(* Whoever begins ends the solitude of all others.                         *)
LEMMA SoloBegin ==
  ASSUME TypeOK, NEW r \in Requests, NEW t, NEW phase \in {"loaded", "holding"}, Begin(r, t, phase),
         t.kind \in {"review", "accept"} =>
           /\ t.final = final /\ t.passed = passed
           /\ t.row \in DOMAIN marks => t.seen = marks[t.row]
  PROVE SoloInv'
<1> SUFFICES ASSUME NEW q \in Requests, alone'[q]
             PROVE /\ \A p \in Requests \ {q} : pc'[p] = "idle"
                   /\ task'[q].kind \in {"review", "accept"} => LoadedNow(q)'
                   /\ ~ (pc'[q] = "summed")
  BY DEF SoloInv
<1>1. q = r /\ (\A p \in Requests \ {r} : pc[p] = "idle")
  BY DEF Begin, TypeOK
<1>2. pc'[r] = phase /\ task'[r] = t /\ (\A p \in Requests \ {r} : pc'[p] = pc[p])
  BY DEF Begin, TypeOK
<1>3. UNCHANGED <<final, passed, marks>>
  BY DEF Begin, attempt
<1> QED BY <1>1, <1>2, <1>3 DEF LoadedNow

LEMMA SoloStep == TypeOK /\ SoloInv /\ Overtaken /\ [Next]_vars => SoloInv'
<1> SUFFICES ASSUME TypeOK, SoloInv, Overtaken, [Next]_vars PROVE SoloInv'
  OBVIOUS
<1>0. life \in Nat /\ \A q \in Requests : task[q] \in Tasks /\ task[q].life \in Nat
  BY DEF TypeOK, Tasks
<1>1. CASE HandIn
  BY <1>1 DEF HandIn, SoloInv
<1>2. ASSUME NEW i \in Items, LateArrives(i) PROVE SoloInv'
  BY <1>2 DEF LateArrives, SoloInv, Gone, LoadedNow, SummedNow, attempt
<1>3. ASSUME NEW r \in Requests, Request(r) PROVE SoloInv'
  <2>1. ASSUME NEW x, NEW by, ReviewLoad(r, x, by) PROVE SoloInv'
    <3>1. LET t == Load("review", x, by) IN
            /\ t.final = final /\ t.passed = passed /\ t.row = x
            /\ x \in DOMAIN marks => t.seen = marks[x]
      BY DEF Load, Idle
    <3> QED BY <2>1, <3>1, SoloBegin DEF ReviewLoad
  <2>2. ASSUME NEW i \in Items, AcceptLoad(r, i) PROVE SoloInv'
    <3>1. PICK x : Begin(r, Load("accept", x, None), "loaded")
      BY <2>2 DEF AcceptLoad
    <3>2. LET t == Load("accept", x, None) IN
            /\ t.final = final /\ t.passed = passed /\ t.row = x
            /\ x \in DOMAIN marks => t.seen = marks[x]
      BY DEF Load, Idle
    <3> QED BY <3>1, <3>2, SoloBegin
  <2>3. ASSUME NEW i \in Items, RejectLoad(r, i) PROVE SoloInv'
    <3>1. [Idle EXCEPT !.kind = "reject", !.row = <<i, None>>, !.life = life].kind = "reject"
      BY DEF Idle
    <3> QED BY <2>3, <3>1, SoloBegin DEF RejectLoad
  <2>4. CASE ResetLock(r)
    <3>1. [Idle EXCEPT !.kind = "reset"].kind = "reset"
      BY DEF Idle
    <3> QED BY <2>4, <3>1, SoloBegin DEF ResetLock
  <2>5. ASSUME NEW m, ReviewWrite(r, m) PROVE SoloInv'
    BY <1>0, <2>5 DEF ReviewWrite, SoloInv, Gone, LoadedNow, SummedNow, attempt, TypeOK, Tasks
  <2>6. ASSUME NEW m, Sum(r, m), pc[r] \in {"loaded", "written"} PROVE SoloInv'
    <3>1. SummedNow(r)'
      BY <1>0, <2>6 DEF Sum, SheetOf, SummedNow, TypeOK, Tasks
    <3> QED
      BY <1>0, <2>6, <3>1 DEF Sum, SoloInv, Gone, LoadedNow, SummedNow, attempt, TypeOK, Tasks
  <2>7. CASE CommitMark(r) \/ CommitReject(r) \/ Rollback(r) \/ ResetCommit(r)
    <3> SUFFICES ASSUME NEW q \in Requests, alone'[q], ~ Gone(q)'
                 PROVE FALSE
      BY DEF SoloInv
    <3>1. End(r) /\ pc[r] # "idle"
      BY <2>7 DEF CommitMark, CommitReject, Rollback, ResetCommit
    <3>2. q # r /\ alone[q] /\ task'[q] = task[q] /\ pc'[q] = pc[q]
      BY <3>1 DEF End, TypeOK
    <3>3. life' = life \/ life' = life + 1
      BY <2>7 DEF CommitMark, CommitReject, Rollback, ResetCommit
    <3>4. ~ Gone(q)
      BY <1>0, <3>2, <3>3 DEF Gone, Overtaken
    <3>5. pc[r] = "idle"
      BY <3>2, <3>4 DEF SoloInv
    <3> QED BY <3>1, <3>5
  <2> QED
    BY <1>3, <2>1, <2>2, <2>3, <2>4, <2>5, <2>6, <2>7 DEF Request, ReviewSum, AcceptWrite
<1>4. CASE UNCHANGED vars
  BY <1>4 DEF vars, attempt, SoloInv, Gone, LoadedNow, SummedNow
<1> QED BY <1>1, <1>2, <1>3, <1>4 DEF Next

(* The commit of a request that ran alone: what it writes is what it gave  *)
(* and summed, whether or not the columns differ from what it loaded.      *)
LEMMA SoloCommit ==
  ASSUME Inv, NEW r \in Requests, CommitMark(r), alone[r]
  PROVE Rescored'
<1>1. LoadedNow(r) /\ SummedNow(r)
  BY DEF CommitMark, Inv, SoloInv
<1>2. marks' = With(marks, task[r].row, task[r].mark)
  BY <1>1, StoredAsGiven DEF CommitMark, LoadedNow
<1>3. final' = task[r].newFinal /\ passed' = task[r].newPassed
  BY <1>1, StoredAsGiven DEF CommitMark, LoadedNow
<1>4. final' = FinalOf(marks') /\ passed' = PassedOf(marks')
  BY <1>1, <1>2, <1>3 DEF SummedNow
<1> QED BY <1>4 DEF Rescored

---------------------------------------------------------------------------
(* Theorems *)

(* The inductive invariant: a request that began before a reset can only   *)
(* fail, and one that runs alone has loaded what is stored (manual_review, *)
(* decide_late_answer, reset_attempt).                                     *)
THEOREM Invariance == Spec => []Inv
<1>1. Init => Inv
  <2> SUFFICES ASSUME Init PROVE Inv
    OBVIOUS
  <2>1. Idle.kind = "none" /\ Idle.life = 0
    BY DEF Idle
  <2> QED
    BY <2>1, TypeInit DEF Init, Inv, RowKnown, Overtaken, NothingSurvivesReset, SoloInv
<1>2. Inv /\ [Next]_vars => Inv'
  BY TypeStep, RowStep, ResetStep, SoloStep DEF Inv
<1> QED BY <1>1, <1>2, PTL DEF Spec

(* The rows of the attempt, and what each request knows, have their types. *)
THEOREM TypeCorrect == Spec => []TypeOK
BY Invariance, PTL DEF Inv

(* No mark, decision or total of the time before reaches a reset attempt,  *)
(* whatever was in flight when it was reset.                               *)
THEOREM CleanSlate == Spec => []NothingSurvivesReset
BY Invariance, PTL DEF Inv

(* A request that ran alone leaves totals that follow from the answers.    *)
THEOREM SoloTotals == Spec => SoloRescores
<1>1. Inv /\ [Next]_vars => [\A r \in Requests : CommitMark(r) /\ alone[r] => Rescored']_vars
  BY SoloCommit
<1> QED BY <1>1, Invariance, PTL DEF Spec, SoloRescores

=============================================================================
