------------------------- MODULE AttemptSlotsProofs -------------------------
(***************************************************************************)
(* Proofs about AttemptSlots, for every set of requests, every set of      *)
(* limits and every bound.                                                 *)
(*                                                                         *)
(* Nothing is assumed about which rows a submit or a reset writes, or how  *)
(* stale its copy is: they never make a row "started".  Only a start does, *)
(* and only while it holds the assignment row, which is why its copy of    *)
(* the rows still tells it whether one is in progress.                     *)
(***************************************************************************)
EXTENDS AttemptSlots, SequenceTheorems, WellFoundedInduction, TLAPS

---------------------------------------------------------------------------
(* Rows *)

(* Giving a row another status gives a list of rows of the same length. *)
LEMMA RowRewritten ==
  ASSUME NEW rows \in Seq(Rows), NEW i, NEW s \in RowStatus
  PROVE  LET new == [rows EXCEPT ![i].status = s]
         IN  /\ new \in Seq(Rows)
             /\ Len(new) = Len(rows)
             /\ \A j \in 1..Len(rows) :
                  new[j].status = IF j = i THEN s ELSE rows[j].status
<1>1. rows \in [1..Len(rows) -> Rows] /\ DOMAIN rows = 1..Len(rows) /\ Len(rows) \in Nat
  BY LenProperties
<1>2. CASE i \in 1..Len(rows)
  <2> DEFINE v == [rows[i] EXCEPT !.status = s]
  <2>1. v \in Rows /\ v.status = s
    BY <1>1, <1>2 DEF Rows
  <2>2. [rows EXCEPT ![i].status = s] = [rows EXCEPT ![i] = v]
    OBVIOUS
  <2> HIDE DEF v
  <2>3. QED
    BY <1>2, <2>1, <2>2, ExceptSeq
<1>3. CASE i \notin 1..Len(rows)
  <2>1. [rows EXCEPT ![i].status = s] = rows
    BY <1>1, <1>3
  <2>2. QED
    BY <1>1, <1>3, <2>1
<1>4. QED
  BY <1>2, <1>3

(* Replacing a row gives a list of rows of the same length. *)
LEMMA RowReplaced ==
  ASSUME NEW rows \in Seq(Rows), NEW i, NEW v \in Rows
  PROVE  LET new == [rows EXCEPT ![i] = v]
         IN  /\ new \in Seq(Rows)
             /\ Len(new) = Len(rows)
             /\ \A j \in 1..Len(rows) : new[j] = IF j = i THEN v ELSE rows[j]
<1>1. rows \in [1..Len(rows) -> Rows] /\ DOMAIN rows = 1..Len(rows) /\ Len(rows) \in Nat
  BY LenProperties
<1>2. CASE i \in 1..Len(rows)
  BY <1>2, ExceptSeq
<1>3. CASE i \notin 1..Len(rows)
  <2>1. [rows EXCEPT ![i] = v] = rows
    BY <1>1, <1>3
  <2>2. QED
    BY <1>1, <1>3, <2>1
<1>4. QED
  BY <1>2, <1>3

(* The numbers of the rows with a status are row numbers. *)
LEMMA StatusRows ==
  ASSUME NEW rows \in Seq(Rows)
  PROVE  \A i, s : i \in HasStatus(rows, s) <=> i \in 1..Len(rows) /\ rows[i].status = s
BY LenProperties DEF HasStatus

(* A set of numbers that is not empty has a least one. *)
LEMMA LeastNumber ==
  ASSUME NEW T, T \subseteq Nat, T # {}
  PROVE  \E m \in T : \A k \in T : m <= k
<1>1. PICK m \in T : \A k \in T : ~ (<<k, m>> \in OpToRel(<, Nat))
  BY NatLessThanWellFounded, WFMin
<1>2. \A k \in T : ~ (k < m)
  BY <1>1 DEF OpToRel
<1>3. QED
  BY <1>2

(* Of finitely many numbers one is the largest. *)
LEMMA LargestOfSome ==
  ASSUME NEW n \in Nat, NEW D \in SUBSET (1..n), NEW f \in [D -> Nat], D # {}
  PROVE  \E i \in D : \A j \in D : f[j] <= f[i]
<1> DEFINE Largest(m) == \E i \in D : i <= m /\ \A j \in D : j <= m => f[j] <= f[i]
           Some(m)    == \E i \in D : i <= m
           Bad        == {m \in Nat : Some(m) /\ ~ Largest(m)}
<1>1. Bad = {}
  <2> SUFFICES ASSUME Bad # {} PROVE FALSE
    OBVIOUS
  <2>1. PICK m \in Bad : \A k \in Bad : m <= k
    BY LeastNumber
  <2>2. m \in Nat /\ Some(m) /\ ~ Largest(m)
    BY <2>1
  <2>3. m - 1 \in Nat /\ m - 1 \notin Bad
    <3>1. \A i \in D : i >= 1
      OBVIOUS
    <3>2. m # 0
      BY <2>2, <3>1
    <3>3. \A k \in Nat : k < m => k \notin Bad
      <4> HIDE DEF Bad
      <4>1. QED
        BY <2>1, <2>2
    <3>4. m - 1 \in Nat /\ m - 1 < m
      BY <2>2, <3>2
    <3>5. QED
      BY <3>3, <3>4
  <2>4. CASE ~ Some(m - 1)
    <3>1. \A i \in D : i <= m => i = m
      BY <2>2, <2>4
    <3>2. QED
      BY <2>2, <3>1
  <2>5. CASE Largest(m - 1)
    <3>1. PICK i \in D : i <= m - 1 /\ \A j \in D : j <= m - 1 => f[j] <= f[i]
      BY <2>5
    <3>2. \A j \in D : j <= m => j <= m - 1 \/ j = m
      BY <2>2
    <3>3. CASE m \notin D
      BY <2>2, <3>1, <3>2, <3>3
    <3>4. CASE m \in D /\ f[i] <= f[m]
      BY <2>2, <3>1, <3>2, <3>4
    <3>5. CASE m \in D /\ f[m] <= f[i]
      BY <2>2, <3>1, <3>2, <3>5
    <3>6. m \in D => f[m] <= f[i] \/ f[i] <= f[m]
      OBVIOUS
    <3>7. QED
      BY <3>3, <3>4, <3>5, <3>6
  <2>6. QED
    BY <2>3, <2>4, <2>5
<1>2. Largest(n)
  <2>1. \A i \in D : i <= n
    OBVIOUS
  <2>2. Some(n)
    BY <2>1
  <2>3. QED
    BY <1>1, <2>2
<1>3. QED
  BY <1>2

(* Of rows that were reset one is the latest, and that is the one chosen.  *)
LEMMA LatestResetIsReset ==
  ASSUME NEW rows \in Seq(Rows), HasStatus(rows, "reset") # {}
  PROVE  LatestReset(rows) \in HasStatus(rows, "reset")
<1> DEFINE D == HasStatus(rows, "reset")
           f == [i \in D |-> rows[i].startedAt]
<1>1. D \in SUBSET (1..Len(rows)) /\ Len(rows) \in Nat
  BY StatusRows, LenProperties
<1>2. \A i \in D : rows[i] \in Rows
  BY <1>1, ElementOfSeq
<1>3. f \in [D -> Nat]
  BY <1>2 DEF Rows
<1>4. PICK i \in D : \A j \in D : f[j] <= f[i]
  BY <1>1, <1>3, LargestOfSome
<1>5. \A j \in D : rows[j].startedAt <= rows[i].startedAt
  BY <1>4
<1>6. QED
  BY <1>5 DEF LatestReset

(* A limit always allows at least one attempt. *)
LEMMA AllowedPositive ==
  ASSUME NEW l \in Limits
  PROVE  Allowed(l) \in Nat /\ Allowed(l) >= 1
BY LimitsAssumption DEF Allowed

---------------------------------------------------------------------------
(* Type correctness *)

LEMMA TypeInit == Init => TypeOK
<1> SUFFICES ASSUME Init PROVE TypeOK
  OBVIOUS
<1>1. <<>> \in Seq(Rows)
  OBVIOUS
<1>2. highest \in Nat
  BY AllowedPositive DEF Init
<1>3. QED
  BY <1>1, <1>2 DEF Init, TypeOK, Outcomes, Phases

LEMMA TypeStep == TypeOK /\ [Next]_vars => TypeOK'
<1> SUFFICES ASSUME TypeOK, [Next]_vars PROVE TypeOK'
  OBVIOUS
<1> USE DEF TypeOK
<1>0. <<>> \in Seq(Rows)
  OBVIOUS
<1>f. ASSUME NEW r \in Requests, Finish(r)
      PROVE  /\ pc' \in [Requests -> Phases]
             /\ seen' \in [Requests -> Seq(Rows)]
             /\ row' \in [Requests -> Nat]
             /\ limitSeen' \in [Requests -> Limits]
             /\ outcome' \in [Requests -> Outcomes]
             /\ moves' \in [Requests -> BOOLEAN]
  BY <1>0, <1>f DEF Finish, Phases
<1>1. ASSUME NEW r \in Requests, StartLoadExam(r) PROVE TypeOK'
  BY <1>1 DEF StartLoadExam, exam, Phases
<1>2. ASSUME NEW r \in Requests, StartLock(r) PROVE TypeOK'
  BY <1>2 DEF StartLock, exam, Phases
<1>3. ASSUME NEW r \in Requests, StartOutsideWindow(r) PROVE TypeOK'
  BY <1>3, <1>f DEF StartOutsideWindow, FinishStart, exam
<1>4. ASSUME NEW r \in Requests, StartAnswer(r) PROVE TypeOK'
  BY <1>4, <1>f DEF StartAnswer, FinishStart, exam
<1>5. ASSUME NEW r \in Requests, StartReactivate(r) PROVE TypeOK'
  <2> DEFINE new == [status |-> "started", startedAt |-> stamp + 1]
  <2>1. new \in Rows /\ stamp' \in Nat
    BY <1>5 DEF StartReactivate, Rows, RowStatus
  <2>2. attempts' = [attempts EXCEPT ![LatestReset(seen[r])] = new]
    BY <1>5 DEF StartReactivate
  <2> HIDE DEF new
  <2>3. attempts' \in Seq(Rows)
    BY <2>1, <2>2, RowReplaced
  <2>4. QED
    BY <1>5, <1>f, <2>1, <2>3 DEF StartReactivate, FinishStart, exam
<1>6. ASSUME NEW r \in Requests, StartCreate(r) PROVE TypeOK'
  <2> DEFINE new == [status |-> "started", startedAt |-> stamp + 1]
  <2>1. new \in Rows /\ stamp + 1 \in Nat
    BY DEF Rows, RowStatus
  <2>2. Append(attempts, new) \in Seq(Rows)
    BY <2>1, AppendProperties
  <2>3. /\ attempts' \in Seq(Rows)
        /\ assignment' \in {"assigned", "started", "submitted"}
        /\ stamp' \in Nat
    BY <1>6, <2>1, <2>2 DEF StartCreate
  <2>4. QED
    BY <1>6, <1>f, <2>3 DEF StartCreate, FinishStart, exam
<1>7. ASSUME NEW r \in Requests, NEW i \in DOMAIN attempts, SubmitLoad(r, i) PROVE TypeOK'
  <2>1. i \in Nat
    BY LenProperties
  <2>2. QED
    BY <1>7, <2>1 DEF SubmitLoad, exam, Phases, Outcomes
<1>8. ASSUME NEW r \in Requests, NEW i \in DOMAIN attempts, NEW o \in Outcomes, LockRow(r, i, o)
      PROVE  TypeOK'
  <2>1. i \in Nat
    BY LenProperties
  <2>2. QED
    BY <1>8, <2>1 DEF LockRow, exam, Phases
<1>9. ASSUME NEW r \in Requests, SubmitFlush(r) PROVE TypeOK'
  BY <1>9 DEF SubmitFlush, exam, locals, Phases
<1>10. ASSUME NEW r \in Requests, ReadAssignment(r) PROVE TypeOK'
  BY <1>10 DEF ReadAssignment, MovesAssignment, exam, Phases
<1>11. ASSUME NEW r \in Requests, CloseCommit(r) PROVE TypeOK'
  <2>1. attempts' \in Seq(Rows)
    BY <1>11, RowRewritten DEF CloseCommit, RowStatus
  <2>2. assignment' \in {"assigned", "started", "submitted"}
    BY <1>11 DEF CloseCommit, AssignmentFor
  <2>3. QED
    BY <1>11, <1>f, <2>1, <2>2 DEF CloseCommit, exam
<1>12. ASSUME NEW r \in Requests, Rollback(r) PROVE TypeOK'
  BY <1>12, <1>f DEF Rollback, exam
<1>13. ASSUME NEW l \in Limits, SetMaxAttempts(l) PROVE TypeOK'
  <2>1. Allowed(l) \in Nat
    BY AllowedPositive
  <2>2. QED
    BY <1>13, <2>1 DEF SetMaxAttempts, Larger, locals
<1>14. CASE UNCHANGED vars
  BY <1>14 DEF vars, exam, locals
<1>15. QED
  BY <1>1, <1>2, <1>3, <1>4, <1>5, <1>6, <1>7, <1>8, <1>9, <1>10, <1>11, <1>12, <1>13, <1>14
  DEF Next, StartStep, StartFinish, CloseStep

(* Every reachable state is of the declared types. *)
THEOREM TypeCorrect == Spec => []TypeOK
BY TypeInit, TypeStep, PTL DEF Spec

---------------------------------------------------------------------------
(* The inductive invariant *)

(* The assignment row is locked exactly by the start that has read under it. *)
LockHeld == \A r \in Requests : pc[r] = "locked" <=> lock = r

(* A limit that a start has loaded is one that the exam has had. *)
LimitsKnown ==
  /\ Allowed(maxAttempts) <= highest
  /\ \A r \in Requests : Allowed(limitSeen[r]) <= highest

(* What a start read under the lock is stale only in harmless ways: no row *)
(* has been added, and none has come into progress.                        *)
SeenCurrent ==
  \A r \in Requests : pc[r] = "locked" =>
    /\ Len(seen[r]) = Len(attempts)
    /\ \A i \in 1..Len(attempts) :
         attempts[i].status = "started" => seen[r][i].status = "started"

IInv ==
  /\ TypeOK
  /\ LockHeld
  /\ LimitsKnown
  /\ SeenCurrent
  /\ AtMostOneInProgress
  /\ WithinLimit

(* If nothing that IInv reads gets worse, IInv is kept: the steps of a     *)
(* request that leave the lock and the rows alone, or only close rows.     *)
LEMMA Harmless ==
  ASSUME IInv, TypeOK', UNCHANGED <<maxAttempts, highest, limitSeen>>,
         LockHeld',
         Len(attempts') = Len(attempts),
         \A i \in 1..Len(attempts) :
           attempts'[i].status = "started" => attempts[i].status = "started",
         \A r \in Requests : pc'[r] = "locked" => pc[r] = "locked" /\ seen'[r] = seen[r]
  PROVE  IInv'
<1>1. LimitsKnown'
  BY DEF IInv, LimitsKnown
<1>2. SeenCurrent'
  BY DEF IInv, SeenCurrent
<1>3. AtMostOneInProgress'
  <2>1. HasStatus(attempts', "started") \subseteq HasStatus(attempts, "started")
    BY StatusRows DEF IInv, TypeOK
  <2>2. QED
    BY <2>1 DEF IInv, AtMostOneInProgress
<1>4. WithinLimit'
  BY DEF IInv, WithinLimit
<1>5. QED
  BY <1>1, <1>2, <1>3, <1>4 DEF IInv

LEMMA IInvInit == Init => IInv
<1> SUFFICES ASSUME Init PROVE IInv
  OBVIOUS
<1>1. TypeOK
  BY TypeInit
<1>2. LockHeld
  BY NoRequestAssumption DEF Init, LockHeld
<1>3. LimitsKnown
  BY AllowedPositive DEF Init, LimitsKnown
<1>4. SeenCurrent
  BY DEF Init, SeenCurrent
<1>5. AtMostOneInProgress
  <2>1. HasStatus(attempts, "started") = {}
    BY DEF Init, HasStatus
  <2>2. QED
    BY <2>1 DEF AtMostOneInProgress
<1>6. WithinLimit
  BY AllowedPositive DEF Init, WithinLimit
<1>7. QED
  BY <1>1, <1>2, <1>3, <1>4, <1>5, <1>6 DEF IInv

(* A start that ends gives up the lock, and nobody else has it. *)
LEMMA LockGivenUp ==
  ASSUME IInv, NEW r \in Requests, pc[r] = "locked" \/ lock = NoRequest, FinishStart(r)
  PROVE  LockHeld' /\ \A s \in Requests : pc'[s] # "locked"
<1>1. \A s \in Requests : s # r => pc[s] # "locked"
  BY NoRequestAssumption DEF IInv, LockHeld
<1>2. \A s \in Requests : pc'[s] # "locked"
  BY <1>1 DEF IInv, TypeOK, FinishStart, Finish
<1>3. LockHeld'
  BY <1>2, NoRequestAssumption DEF LockHeld, FinishStart
<1>4. QED
  BY <1>2, <1>3

(* A start that puts a row in progress knows that none was. *)
LEMMA NobodySits ==
  ASSUME IInv, NEW r \in Requests, pc[r] = "locked", NoneInProgress(r)
  PROVE  \A i \in 1..Len(attempts) : attempts[i].status # "started"
<1>1. \A i \in 1..Len(seen[r]) : seen[r][i].status # "started"
  BY StatusRows DEF NoneInProgress, IInv, TypeOK
<1>2. QED
  BY <1>1 DEF IInv, SeenCurrent

LEMMA IInvStep == IInv /\ [Next]_vars => IInv'
<1> SUFFICES ASSUME IInv, [Next]_vars PROVE IInv'
  OBVIOUS
<1>0. TypeOK /\ TypeOK'
  BY TypeStep DEF IInv
<1>1. ASSUME NEW r \in Requests, StartLoadExam(r) PROVE IInv'
  <2>1. LockHeld'
    BY <1>0, <1>1, NoRequestAssumption DEF StartLoadExam, IInv, LockHeld, TypeOK
  <2>2. LimitsKnown'
    BY <1>0, <1>1 DEF StartLoadExam, IInv, LimitsKnown, TypeOK, exam
  <2>3. SeenCurrent'
    BY <1>0, <1>1 DEF StartLoadExam, IInv, SeenCurrent, TypeOK
  <2>4. AtMostOneInProgress' /\ WithinLimit'
    BY <1>1 DEF StartLoadExam, IInv, AtMostOneInProgress, WithinLimit, HasStatus, exam
  <2>5. QED
    BY <1>0, <2>1, <2>2, <2>3, <2>4 DEF IInv
<1>2. ASSUME NEW r \in Requests, StartLock(r) PROVE IInv'
  <2>1. LockHeld'
    BY <1>0, <1>2, NoRequestAssumption DEF StartLock, LockFree, IInv, LockHeld, TypeOK
  <2>2. LimitsKnown'
    BY <1>2 DEF StartLock, IInv, LimitsKnown, exam
  <2>3. SeenCurrent'
    BY <1>0, <1>2, NoRequestAssumption DEF StartLock, LockFree, IInv, SeenCurrent, LockHeld, TypeOK
  <2>4. AtMostOneInProgress' /\ WithinLimit'
    BY <1>2 DEF StartLock, IInv, AtMostOneInProgress, WithinLimit, HasStatus, exam
  <2>5. QED
    BY <1>0, <2>1, <2>2, <2>3, <2>4 DEF IInv
<1>3. ASSUME NEW r \in Requests, StartOutsideWindow(r) PROVE IInv'
  <2>1. LockHeld' /\ \A s \in Requests : pc'[s] # "locked"
    BY <1>3, LockGivenUp DEF StartOutsideWindow, LockFree
  <2>2. QED
    BY <1>0, <1>3, <2>1, Harmless DEF StartOutsideWindow, FinishStart, Finish, exam
<1>4. ASSUME NEW r \in Requests, StartAnswer(r) PROVE IInv'
  <2>1. LockHeld' /\ \A s \in Requests : pc'[s] # "locked"
    BY <1>4, LockGivenUp DEF StartAnswer
  <2>2. QED
    BY <1>0, <1>4, <2>1, Harmless DEF StartAnswer, FinishStart, Finish, exam
<1>5. ASSUME NEW r \in Requests, StartReactivate(r) PROVE IInv'
  <2> DEFINE new == [status |-> "started", startedAt |-> stamp + 1]
             k   == LatestReset(seen[r])
  <2>1. LockHeld' /\ \A s \in Requests : pc'[s] # "locked"
    BY <1>5, LockGivenUp DEF StartReactivate
  <2>2. SeenCurrent'
    BY <2>1 DEF SeenCurrent
  <2>3. \A i \in 1..Len(attempts) : attempts[i].status # "started"
    BY <1>5, NobodySits DEF StartReactivate
  <2>4. new \in Rows
    BY <1>0 DEF Rows, RowStatus, TypeOK
  <2>5. attempts' = [attempts EXCEPT ![k] = new]
    BY <1>5 DEF StartReactivate
  <2> HIDE DEF new, k
  <2>6. /\ Len(attempts') = Len(attempts)
        /\ \A i \in 1..Len(attempts) : i # k => attempts'[i] = attempts[i]
    BY <1>0, <2>4, <2>5, RowReplaced DEF TypeOK
  <2>7. AtMostOneInProgress'
    <3>1. \A i \in HasStatus(attempts', "started") : i = k
      BY <1>0, <2>3, <2>6, StatusRows DEF TypeOK
    <3>2. QED
      BY <3>1 DEF AtMostOneInProgress
  <2>8. LimitsKnown' /\ WithinLimit'
    BY <1>5, <2>6 DEF StartReactivate, FinishStart, Finish, exam, IInv, LimitsKnown, WithinLimit
  <2>9. QED
    BY <1>0, <2>1, <2>2, <2>7, <2>8 DEF IInv
<1>6. ASSUME NEW r \in Requests, StartCreate(r) PROVE IInv'
  <2> DEFINE new == [status |-> "started", startedAt |-> stamp + 1]
  <2>1. LockHeld' /\ \A s \in Requests : pc'[s] # "locked"
    BY <1>6, LockGivenUp DEF StartCreate
  <2>2. SeenCurrent'
    BY <2>1 DEF SeenCurrent
  <2>3. \A i \in 1..Len(attempts) : attempts[i].status # "started"
    BY <1>6, NobodySits DEF StartCreate
  <2>4. new \in Rows
    BY <1>0 DEF Rows, RowStatus, TypeOK
  <2>5. Len(seen[r]) = Len(attempts)
    BY <1>6 DEF StartCreate, IInv, SeenCurrent
  <2>6. attempts' = Append(attempts, new)
    BY <1>6, <2>5 DEF StartCreate
  <2> HIDE DEF new
  <2>7. /\ Len(attempts') = Len(attempts) + 1
        /\ Len(attempts) \in Nat
        /\ \A i \in 1..Len(attempts) : attempts'[i] = attempts[i]
    BY <1>0, <2>4, <2>6, AppendProperties, LenProperties DEF TypeOK
  <2>8. AtMostOneInProgress'
    <3>1. \A i \in HasStatus(attempts', "started") :
            i \in 1..(Len(attempts) + 1) /\ attempts'[i].status = "started"
      BY <1>0, <2>7, StatusRows DEF TypeOK
    <3>2. \A i \in HasStatus(attempts', "started") : i \notin 1..Len(attempts)
      BY <2>3, <2>7, <3>1
    <3>3. \A i \in HasStatus(attempts', "started") : i = Len(attempts) + 1
      BY <2>7, <3>1, <3>2
    <3>4. QED
      BY <3>3 DEF AtMostOneInProgress
  <2>9. LimitsKnown'
    BY <1>6 DEF StartCreate, FinishStart, Finish, exam, IInv, LimitsKnown
  <2>10. WithinLimit'
    <3>1. Allowed(limitSeen[r]) \in Nat
      BY <1>0, AllowedPositive DEF TypeOK
    <3>2. Len(attempts) + 1 <= Allowed(limitSeen[r])
      BY <1>6, <2>5, <2>7, <3>1 DEF StartCreate, AttemptLeft
    <3>3. Allowed(limitSeen[r]) <= highest /\ highest' = highest
      BY <1>6 DEF StartCreate, exam, IInv, LimitsKnown
    <3>4. QED
      BY <1>0, <2>7, <3>1, <3>2, <3>3 DEF WithinLimit, TypeOK
  <2>11. QED
    BY <1>0, <2>1, <2>2, <2>8, <2>9, <2>10 DEF IInv
<1>7. ASSUME NEW r \in Requests, NEW i \in DOMAIN attempts, SubmitLoad(r, i) PROVE IInv'
  <2>1. LockHeld'
    BY <1>0, <1>7, NoRequestAssumption DEF SubmitLoad, IInv, LockHeld, TypeOK
  <2>2. QED
    BY <1>0, <1>7, <2>1, Harmless DEF SubmitLoad, exam, TypeOK
<1>8. ASSUME NEW r \in Requests, NEW i \in DOMAIN attempts, NEW o \in Outcomes, LockRow(r, i, o)
      PROVE  IInv'
  <2>1. LockHeld'
    BY <1>0, <1>8, NoRequestAssumption DEF LockRow, IInv, LockHeld, TypeOK
  <2>2. QED
    BY <1>0, <1>8, <2>1, Harmless DEF LockRow, exam, TypeOK
<1>9. ASSUME NEW r \in Requests, SubmitFlush(r) PROVE IInv'
  <2>1. LockHeld'
    BY <1>0, <1>9, NoRequestAssumption DEF SubmitFlush, IInv, LockHeld, TypeOK
  <2>2. QED
    BY <1>0, <1>9, <2>1, Harmless DEF SubmitFlush, exam, locals, TypeOK
<1>10. ASSUME NEW r \in Requests, ReadAssignment(r) PROVE IInv'
  <2>1. LockHeld'
    BY <1>0, <1>10, NoRequestAssumption DEF ReadAssignment, IInv, LockHeld, TypeOK
  <2>2. QED
    BY <1>0, <1>10, <2>1, Harmless DEF ReadAssignment, exam, TypeOK
<1>11. ASSUME NEW r \in Requests, CloseCommit(r) PROVE IInv'
  <2>1. LockHeld'
    BY <1>0, <1>11, NoRequestAssumption DEF CloseCommit, Finish, IInv, LockHeld, TypeOK
  <2>2. outcome[r] \in RowStatus /\ outcome[r] # "started"
    BY <1>0 DEF TypeOK, Outcomes, RowStatus
  <2>3. attempts' = [attempts EXCEPT ![row[r]].status = outcome[r]]
    BY <1>11 DEF CloseCommit
  <2>4. /\ Len(attempts') = Len(attempts)
        /\ \A i \in 1..Len(attempts) :
             attempts'[i].status = "started" => attempts[i].status = "started"
    BY <1>0, <2>2, <2>3, RowRewritten DEF TypeOK
  <2>5. \A s \in Requests : pc'[s] = "locked" => pc[s] = "locked" /\ seen'[s] = seen[s]
    BY <1>0, <1>11 DEF CloseCommit, Finish, TypeOK
  <2>6. UNCHANGED <<maxAttempts, highest, limitSeen>>
    BY <1>11 DEF CloseCommit, Finish, exam
  <2>7. QED
    BY <1>0, <2>1, <2>4, <2>5, <2>6, Harmless
<1>12. ASSUME NEW r \in Requests, Rollback(r) PROVE IInv'
  <2>1. LockHeld'
    BY <1>0, <1>12, NoRequestAssumption DEF Rollback, Finish, IInv, LockHeld, TypeOK
  <2>2. \A s \in Requests : pc'[s] = "locked" => pc[s] = "locked" /\ seen'[s] = seen[s]
    BY <1>0, <1>12 DEF Rollback, Finish, TypeOK
  <2>3. QED
    BY <1>0, <1>12, <2>1, <2>2, Harmless DEF Rollback, Finish, exam
<1>13. ASSUME NEW l \in Limits, SetMaxAttempts(l) PROVE IInv'
  <2>1. LockHeld' /\ SeenCurrent' /\ AtMostOneInProgress'
    BY <1>13 DEF SetMaxAttempts, locals, IInv, LockHeld, SeenCurrent, AtMostOneInProgress, HasStatus
  <2>2. Allowed(l) \in Nat /\ highest \in Nat /\ Len(attempts) \in Nat
    BY <1>0, AllowedPositive, LenProperties DEF TypeOK
  <2>3. highest <= highest' /\ Allowed(l) <= highest' /\ highest' \in Nat
    BY <1>13, <2>2 DEF SetMaxAttempts, Larger
  <2>4. WithinLimit'
    BY <1>13, <2>2, <2>3 DEF SetMaxAttempts, IInv, WithinLimit
  <2>5. LimitsKnown'
    <3>1. \A r \in Requests : Allowed(limitSeen[r]) \in Nat
      BY <1>0, AllowedPositive DEF TypeOK
    <3>2. QED
      BY <1>13, <2>2, <2>3, <3>1 DEF SetMaxAttempts, locals, IInv, LimitsKnown
  <2>6. QED
    BY <1>0, <2>1, <2>4, <2>5 DEF IInv
<1>14. CASE UNCHANGED vars
  <2>1. UNCHANGED <<attempts, maxAttempts, highest, limitSeen, seen, pc, lock>>
    BY <1>14 DEF vars, exam, locals
  <2>2. LockHeld'
    BY <2>1 DEF IInv, LockHeld
  <2>3. QED
    BY <1>0, <2>1, <2>2, Harmless
<1>15. QED
  BY <1>1, <1>2, <1>3, <1>4, <1>5, <1>6, <1>7, <1>8, <1>9, <1>10, <1>11, <1>12, <1>13, <1>14
  DEF Next, StartStep, StartFinish, CloseStep

(* The inductive invariant holds in every reachable state. *)
THEOREM Invariance == Spec => []IInv
BY IInvInit, IInvStep, PTL DEF Spec

(* A student never has two attempts of an exam in progress. *)
THEOREM OneInProgress == Spec => []AtMostOneInProgress
<1>1. IInv => AtMostOneInProgress
  BY DEF IInv
<1>2. QED
  BY <1>1, Invariance, PTL

(* A student is never handed more attempts than the exam has allowed. *)
THEOREM LimitKept == Spec => []WithinLimit
<1>1. IInv => WithinLimit
  BY DEF IInv
<1>2. QED
  BY <1>1, Invariance, PTL

(* Both, however starts, closes and resets race.                           *)
THEOREM SlotsAreKept == Spec => []SlotsKept
<1>1. IInv => SlotsKept
  BY DEF IInv, SlotsKept
<1>2. QED
  BY <1>1, Invariance, PTL

(* The number a start gives a new attempt is never taken. *)
THEOREM NumberAlwaysFree == Spec => []NumberIsFree
<1>1. IInv => NumberIsFree
  BY DEF IInv, SeenCurrent, NumberIsFree
<1>2. QED
  BY <1>1, Invariance, PTL

---------------------------------------------------------------------------
(* The assignment *)

(* A request that has a row locked or updated, and has yet to commit. *)
Holds(r) == pc[r] \in {"holding", "ready"}

(* A request that will write a row knows a row there is. *)
RowsThere == \A r \in Requests : pc[r] = "loaded" \/ Holds(r) => row[r] \in 1..Len(attempts)

(* No two requests have the same row. *)
OneHolder == \A q, r \in Requests : Holds(q) /\ Holds(r) /\ row[q] = row[r] => q = r

(* A row that can still be sat, or restarted, and that nobody is about to  *)
(* close without writing the assignment with it.                           *)
KeptOpen(i) ==
  /\ attempts[i].status \in {"started", "reset"}
  /\ \A r \in Requests : pc[r] = "ready" /\ row[r] = i /\ outcome[r] # "reset" => moves[r]

(* An assignment that does not say "submitted" has such a row. *)
OneLeftOpen ==
  Len(attempts) > 0 /\ assignment # "submitted" => \E i \in 1..Len(attempts) : KeptOpen(i)

AssignmentInv == RowsThere /\ OneHolder /\ OneLeftOpen

LEMMA AssignmentInit == Init => AssignmentInv
<1> SUFFICES ASSUME Init PROVE AssignmentInv
  OBVIOUS
<1>1. \A r \in Requests : pc[r] = "idle"
  BY DEF Init
<1>2. RowsThere /\ OneHolder
  BY <1>1 DEF RowsThere, OneHolder, Holds
<1>3. OneLeftOpen
  BY DEF Init, OneLeftOpen
<1>4. QED
  BY <1>2, <1>3 DEF AssignmentInv

(* If no row goes away, and a request that comes to have a row asked that  *)
(* it is there and free, what requests have stays right.                   *)
LEMMA HoldersKept ==
  ASSUME TypeOK, RowsThere, OneHolder, Len(attempts') \in Nat, Len(attempts') >= Len(attempts),
         NEW r \in Requests,
         \A s \in Requests : s # r => pc'[s] = pc[s] /\ row'[s] = row[s],
         \/ pc'[r] \notin {"loaded", "holding", "ready"}
         \/ pc'[r] = "loaded" /\ row'[r] \in 1..Len(attempts)
         \/ row'[r] \in 1..Len(attempts) /\ RowFree(row'[r])
         \/ Holds(r) /\ row'[r] = row[r]
  PROVE  RowsThere' /\ OneHolder'
<1>1. Len(attempts) \in Nat
  BY LenProperties DEF TypeOK
<1>2. RowsThere'
  BY <1>1 DEF RowsThere, Holds
<1>3. OneHolder'
  BY DEF OneHolder, Holds, RowFree
<1>4. QED
  BY <1>2, <1>3

(* If a row that is open stays as it is, and so does what requests are     *)
(* about to make of it, it stays open.                                     *)
LEMMA OpenKept ==
  ASSUME NEW i, KeptOpen(i), attempts'[i].status = attempts[i].status,
         \A s \in Requests : pc'[s] = "ready" /\ row'[s] = i /\ outcome'[s] # "reset" =>
           \/ moves'[s]
           \/ /\ pc[s] = "ready" /\ row[s] = i
              /\ outcome'[s] = outcome[s] /\ moves'[s] = moves[s]
  PROVE  KeptOpen(i)'
BY DEF KeptOpen

(* A step that leaves rows and assignment alone, and with which no request *)
(* comes to the point of its commit, keeps a row open.                     *)
LEMMA OpenUntouched ==
  ASSUME OneLeftOpen, UNCHANGED <<attempts, assignment>>,
         \A s \in Requests : pc'[s] = "ready" =>
           pc[s] = "ready" /\ row'[s] = row[s] /\ outcome'[s] = outcome[s] /\ moves'[s] = moves[s]
  PROVE  OneLeftOpen'
<1> SUFFICES ASSUME Len(attempts) > 0, assignment # "submitted"
             PROVE  \E i \in 1..Len(attempts) : KeptOpen(i)'
  BY DEF OneLeftOpen
<1>1. PICK i \in 1..Len(attempts) : KeptOpen(i)
  BY DEF OneLeftOpen
<1>2. KeptOpen(i)'
  BY <1>1, OpenKept
<1>3. QED
  BY <1>2

LEMMA AssignmentStep == IInv /\ IInv' /\ AssignmentInv /\ [Next]_vars => AssignmentInv'
<1> SUFFICES ASSUME IInv, IInv', AssignmentInv, [Next]_vars PROVE AssignmentInv'
  OBVIOUS
<1>0. /\ TypeOK /\ TypeOK'
      /\ Len(attempts) \in Nat /\ DOMAIN attempts = 1..Len(attempts)
      /\ RowsThere /\ OneHolder /\ OneLeftOpen
  BY LenProperties DEF IInv, TypeOK, AssignmentInv
<1>f. ASSUME NEW r \in Requests, Finish(r)
      PROVE  /\ pc'[r] = "idle"
             /\ \A s \in Requests : s # r => pc'[s] = pc[s] /\ row'[s] = row[s]
             /\ UNCHANGED <<outcome, moves>>
  BY <1>0, <1>f DEF Finish, TypeOK
<1>1. ASSUME NEW r \in Requests, StartLoadExam(r) PROVE AssignmentInv'
  <2>1. UNCHANGED <<attempts, assignment, row, outcome, moves>> /\ pc'[r] = "waiting"
        /\ \A s \in Requests : s # r => pc'[s] = pc[s]
    BY <1>0, <1>1 DEF StartLoadExam, TypeOK
  <2>2. RowsThere' /\ OneHolder'
    BY <1>0, <2>1, HoldersKept
  <2>3. OneLeftOpen'
    BY <1>0, <2>1, OpenUntouched
  <2>4. QED
    BY <2>2, <2>3 DEF AssignmentInv
<1>2. ASSUME NEW r \in Requests, StartLock(r) PROVE AssignmentInv'
  <2>1. UNCHANGED <<attempts, assignment, row, outcome, moves>> /\ pc'[r] = "locked"
        /\ \A s \in Requests : s # r => pc'[s] = pc[s]
    BY <1>0, <1>2 DEF StartLock, TypeOK
  <2>2. RowsThere' /\ OneHolder'
    BY <1>0, <2>1, HoldersKept
  <2>3. OneLeftOpen'
    BY <1>0, <2>1, OpenUntouched
  <2>4. QED
    BY <2>2, <2>3 DEF AssignmentInv
<1>3. ASSUME NEW r \in Requests, StartOutsideWindow(r) \/ StartAnswer(r) \/ Rollback(r)
      PROVE  AssignmentInv'
  <2>1. UNCHANGED <<attempts, assignment>> /\ Finish(r)
    BY <1>3 DEF StartOutsideWindow, StartAnswer, Rollback, FinishStart
  <2>2. RowsThere' /\ OneHolder'
    BY <1>0, <1>f, <2>1, HoldersKept
  <2>3. OneLeftOpen'
    BY <1>0, <1>f, <2>1, OpenUntouched
  <2>4. QED
    BY <2>2, <2>3 DEF AssignmentInv
<1>4. ASSUME NEW r \in Requests, StartReactivate(r) PROVE AssignmentInv'
  <2> DEFINE new == [status |-> "started", startedAt |-> stamp + 1]
             k   == LatestReset(seen[r])
  <2>1. Finish(r) /\ RowFree(k) /\ attempts' = [attempts EXCEPT ![k] = new]
    BY <1>4 DEF StartReactivate, FinishStart
  <2>2. k \in 1..Len(attempts)
    <3>1. k \in HasStatus(seen[r], "reset")
      BY <1>0, <1>4, LatestResetIsReset DEF TypeOK, StartReactivate
    <3>2. Len(seen[r]) = Len(attempts)
      BY <1>4 DEF StartReactivate, IInv, SeenCurrent
    <3>3. QED
      BY <1>0, <3>1, <3>2, StatusRows DEF TypeOK
  <2>3. new \in Rows /\ new.status = "started"
    BY <1>0 DEF Rows, RowStatus, TypeOK
  <2> HIDE DEF new, k
  <2>4. Len(attempts') = Len(attempts) /\ attempts'[k] = new
    BY <1>0, <2>1, <2>2, <2>3, RowReplaced DEF TypeOK
  <2>5. RowsThere' /\ OneHolder'
    BY <1>0, <1>f, <2>1, <2>4, HoldersKept
  <2>6. PICK i : i = k
    OBVIOUS
  <2>7. KeptOpen(i)'
    BY <1>f, <2>1, <2>3, <2>4, <2>6 DEF KeptOpen, RowFree
  <2>8. QED
    BY <2>2, <2>4, <2>5, <2>6, <2>7 DEF AssignmentInv, OneLeftOpen
<1>5. ASSUME NEW r \in Requests, StartCreate(r) PROVE AssignmentInv'
  <2> DEFINE new == [status |-> "started", startedAt |-> stamp + 1]
             k   == Len(attempts) + 1
  <2>1. Finish(r) /\ attempts' = Append(attempts, new)
    BY <1>5 DEF StartCreate, FinishStart, IInv, SeenCurrent
  <2>2. new \in Rows /\ new.status = "started"
    BY <1>0 DEF Rows, RowStatus, TypeOK
  <2> HIDE DEF new
  <2>3. Len(attempts') = k /\ attempts'[k] = new
    BY <1>0, <2>1, <2>2, AppendProperties DEF TypeOK
  <2>4. RowsThere' /\ OneHolder'
    BY <1>0, <1>f, <2>1, <2>3, HoldersKept
  <2>5. PICK i : i = k
    OBVIOUS
  <2>6. KeptOpen(i)'
    <3>1. \A s \in Requests : pc'[s] = "ready" => row'[s] \in 1..Len(attempts)
      BY <1>0, <1>f, <2>1 DEF RowsThere, Holds
    <3>2. k \notin 1..Len(attempts)
      BY <1>0
    <3>3. QED
      BY <2>2, <2>3, <2>5, <3>1, <3>2 DEF KeptOpen
  <2>7. i \in 1..Len(attempts')
    BY <1>0, <2>3, <2>5
  <2>8. QED
    BY <2>4, <2>6, <2>7 DEF AssignmentInv, OneLeftOpen
<1>6. ASSUME NEW r \in Requests, NEW i \in DOMAIN attempts, SubmitLoad(r, i) PROVE AssignmentInv'
  <2>1. /\ UNCHANGED <<attempts, assignment>> /\ pc'[r] = "loaded" /\ row'[r] = i
        /\ \A s \in Requests : s # r =>
             /\ pc'[s] = pc[s] /\ row'[s] = row[s]
             /\ outcome'[s] = outcome[s] /\ moves'[s] = moves[s]
    BY <1>0, <1>6 DEF SubmitLoad, TypeOK
  <2>2. RowsThere' /\ OneHolder'
    BY <1>0, <2>1, HoldersKept
  <2>3. OneLeftOpen'
    BY <1>0, <2>1, OpenUntouched
  <2>4. QED
    BY <2>2, <2>3 DEF AssignmentInv
<1>7. ASSUME NEW r \in Requests, NEW i \in DOMAIN attempts, NEW o \in Outcomes, LockRow(r, i, o)
      PROVE  AssignmentInv'
  <2>1. /\ UNCHANGED <<attempts, assignment>> /\ pc'[r] = "holding" /\ row'[r] = i /\ RowFree(i)
        /\ \A s \in Requests : s # r =>
             /\ pc'[s] = pc[s] /\ row'[s] = row[s]
             /\ outcome'[s] = outcome[s] /\ moves'[s] = moves[s]
    BY <1>0, <1>7 DEF LockRow, TypeOK
  <2>2. RowsThere' /\ OneHolder'
    BY <1>0, <2>1, HoldersKept
  <2>3. OneLeftOpen'
    BY <1>0, <2>1, OpenUntouched
  <2>4. QED
    BY <2>2, <2>3 DEF AssignmentInv
<1>8. ASSUME NEW r \in Requests, SubmitFlush(r) PROVE AssignmentInv'
  <2>1. /\ UNCHANGED <<attempts, assignment, row, outcome, moves>> /\ pc'[r] = "holding"
        /\ RowFree(row[r]) /\ row[r] \in 1..Len(attempts)
        /\ \A s \in Requests : s # r => pc'[s] = pc[s]
    BY <1>0, <1>8 DEF SubmitFlush, TypeOK, locals, RowsThere
  <2>2. RowsThere' /\ OneHolder'
    BY <1>0, <2>1, HoldersKept
  <2>3. OneLeftOpen'
    BY <1>0, <2>1, OpenUntouched
  <2>4. QED
    BY <2>2, <2>3 DEF AssignmentInv
<1>9. ASSUME NEW r \in Requests, ReadAssignment(r) PROVE AssignmentInv'
  <2>1. /\ UNCHANGED <<attempts, assignment, row, outcome>>
        /\ Holds(r) /\ pc'[r] = "ready" /\ moves'[r] = MovesAssignment(r)
        /\ \A s \in Requests : s # r => pc'[s] = pc[s] /\ moves'[s] = moves[s]
    BY <1>0, <1>9 DEF ReadAssignment, TypeOK, Holds
  <2>2. RowsThere' /\ OneHolder'
    BY <1>0, <2>1, HoldersKept
  <2>3. OneLeftOpen'
    <3> SUFFICES ASSUME Len(attempts) > 0, assignment # "submitted"
                 PROVE  \E i \in 1..Len(attempts) : KeptOpen(i)'
      BY <2>1 DEF OneLeftOpen
    <3>1. PICK i \in 1..Len(attempts) : KeptOpen(i)
      BY <1>0 DEF OneLeftOpen
    <3>2. outcome[r] # "reset" => moves'[r]
      BY <2>1 DEF MovesAssignment, AssignmentFor
    <3>3. KeptOpen(i)'
      BY <2>1, <3>1, <3>2, OpenKept
    <3>4. QED
      BY <3>3
  <2>4. QED
    BY <2>2, <2>3 DEF AssignmentInv
<1>10. ASSUME NEW r \in Requests, CloseCommit(r) PROVE AssignmentInv'
  <2>1. /\ Finish(r) /\ pc[r] = "ready" /\ outcome[r] \in Outcomes
        /\ attempts' = [attempts EXCEPT ![row[r]].status = outcome[r]]
        /\ assignment' = IF moves[r] THEN AssignmentFor(outcome[r]) ELSE assignment
    BY <1>0, <1>10 DEF CloseCommit, TypeOK
  <2>2. /\ Len(attempts') = Len(attempts)
        /\ \A j \in 1..Len(attempts) :
             attempts'[j].status = IF j = row[r] THEN outcome[r] ELSE attempts[j].status
    BY <1>0, <2>1, RowRewritten DEF TypeOK, RowStatus
  <2>3. RowsThere' /\ OneHolder'
    BY <1>0, <1>f, <2>1, <2>2, HoldersKept
  <2>4. OneLeftOpen'
    <3> SUFFICES ASSUME Len(attempts) > 0, assignment' # "submitted"
                 PROVE  \E i \in 1..Len(attempts) : KeptOpen(i)'
      BY <2>2 DEF OneLeftOpen
    <3>1. CASE outcome[r] = "reset"
      <4>1. PICK i \in 1..Len(attempts) : i = row[r]
        BY <1>0, <2>1 DEF RowsThere, Holds
      <4>2. attempts'[i].status = "reset"
        BY <2>2, <3>1, <4>1
      <4>3. \A s \in Requests : pc'[s] = "ready" => row'[s] # i
        BY <1>0, <1>f, <2>1, <4>1 DEF OneHolder, Holds
      <4>4. KeptOpen(i)'
        BY <4>2, <4>3 DEF KeptOpen
      <4>5. QED
        BY <4>1, <4>4
    <3>2. CASE outcome[r] # "reset"
      <4>1. ~ moves[r] /\ assignment # "submitted"
        BY <2>1, <3>2 DEF AssignmentFor
      <4>2. PICK i \in 1..Len(attempts) : KeptOpen(i)
        BY <1>0, <4>1 DEF OneLeftOpen
      <4>3. row[r] # i
        BY <2>1, <3>2, <4>1, <4>2 DEF KeptOpen
      <4>4. attempts'[i].status = attempts[i].status
        BY <2>2, <4>3
      <4>5. KeptOpen(i)'
        BY <1>f, <2>1, <4>2, <4>4, OpenKept
      <4>6. QED
        BY <4>5
    <3>3. QED
      BY <3>1, <3>2
  <2>5. QED
    BY <2>3, <2>4 DEF AssignmentInv
<1>11. ASSUME NEW l \in Limits, SetMaxAttempts(l) \/ UNCHANGED vars PROVE AssignmentInv'
  <2>1. UNCHANGED <<attempts, assignment, pc, row, outcome, moves>>
    BY <1>11 DEF SetMaxAttempts, locals, vars
  <2>2. RowsThere' /\ OneHolder'
    BY <1>0, <2>1 DEF RowsThere, OneHolder, Holds
  <2>3. OneLeftOpen'
    BY <1>0, <2>1, OpenUntouched
  <2>4. QED
    BY <2>2, <2>3 DEF AssignmentInv
<1>12. QED
  BY <1>1, <1>2, <1>3, <1>4, <1>5, <1>6, <1>7, <1>8, <1>9, <1>10, <1>11, LimitsAssumption
  DEF Next, StartStep, StartFinish, CloseStep

(* With every attempt closed and none reset, the assignment says           *)
(* "submitted", although it is read before the commit and without a lock.  *)
THEOREM AssignmentInStep == Spec => []ClosedInStep
<1>1. IInv /\ AssignmentInv => ClosedInStep
  <2> SUFFICES ASSUME IInv, AssignmentInv, attempts # <<>>, assignment # "submitted"
               PROVE  \E i \in DOMAIN attempts : attempts[i].status \notin {"submitted", "terminated"}
    BY DEF ClosedInStep
  <2>1. Len(attempts) \in Nat /\ Len(attempts) # 0 /\ DOMAIN attempts = 1..Len(attempts)
    BY LenProperties, EmptySeq DEF IInv, TypeOK
  <2>2. PICK i \in 1..Len(attempts) : KeptOpen(i)
    BY <2>1 DEF AssignmentInv, OneLeftOpen
  <2>3. QED
    BY <2>1, <2>2 DEF KeptOpen
<1>2. IInv /\ IInv' /\ AssignmentInv /\ [Next]_vars => AssignmentInv'
  BY AssignmentStep
<1>3. QED
  BY AssignmentInit, Invariance, <1>1, <1>2, PTL DEF Spec

---------------------------------------------------------------------------
(* Refinement of Sittings *)

LEMMA AbstractInit == Init => Abstract!Init
<1> SUFFICES ASSUME Init PROVE Abstract!Init
  OBVIOUS
<1>1. HasStatus(attempts, "started") = {} /\ Len(attempts) = 0
  BY DEF Init, HasStatus
<1>2. highest \in Nat \ {0}
  BY AllowedPositive DEF Init
<1>3. QED
  BY <1>1, <1>2 DEF Abstract!Init

(* A step that adds no row, puts none in progress and leaves the limit     *)
(* alone ends the sitting or is not seen.                                  *)
LEMMA LeaveOrStutter ==
  ASSUME TypeOK, TypeOK', UNCHANGED highest, Len(attempts') = Len(attempts),
         \A i \in 1..Len(attempts) :
           attempts'[i].status = "started" => attempts[i].status = "started"
  PROVE  [Abstract!Next]_(Abstract!view)
<1>1. HasStatus(attempts', "started") \subseteq HasStatus(attempts, "started")
  BY StatusRows DEF TypeOK
<1>2. CASE HasStatus(attempts', "started") # {}
  BY <1>1, <1>2 DEF Abstract!view
<1>3. CASE HasStatus(attempts', "started") = {} /\ HasStatus(attempts, "started") # {}
  BY <1>3 DEF Abstract!Next, Abstract!Leave
<1>4. CASE HasStatus(attempts', "started") = {} /\ HasStatus(attempts, "started") = {}
  BY <1>4 DEF Abstract!view
<1>5. QED
  BY <1>2, <1>3, <1>4

LEMMA AbstractStep == IInv /\ IInv' /\ [Next]_vars => [Abstract!Next]_(Abstract!view)
<1> SUFFICES ASSUME IInv, IInv', [Next]_vars PROVE [Abstract!Next]_(Abstract!view)
  OBVIOUS
<1>0. TypeOK /\ TypeOK' /\ Len(attempts) \in Nat
  BY LenProperties DEF IInv, TypeOK
<1>1. CASE UNCHANGED <<attempts, highest>>
  BY <1>1 DEF Abstract!view
<1>2. ASSUME NEW r \in Requests, StartReactivate(r) PROVE [Abstract!Next]_(Abstract!view)
  <2> DEFINE new == [status |-> "started", startedAt |-> stamp + 1]
             k   == LatestReset(seen[r])
  <2>1. HasStatus(attempts, "started") = {}
    BY <1>0, <1>2, NobodySits, StatusRows DEF StartReactivate, TypeOK
  <2>2. new \in Rows
    BY <1>0 DEF Rows, RowStatus, TypeOK
  <2>3. attempts' = [attempts EXCEPT ![k] = new] /\ highest' = highest
    BY <1>2 DEF StartReactivate, exam
  <2> HIDE DEF new, k
  <2>4. Len(attempts') = Len(attempts)
    BY <1>0, <2>2, <2>3, RowReplaced DEF TypeOK
  <2>5. CASE HasStatus(attempts', "started") = {}
    BY <2>1, <2>3, <2>4, <2>5 DEF Abstract!view
  <2>6. CASE HasStatus(attempts', "started") # {}
    BY <1>0, <2>1, <2>3, <2>4, <2>6 DEF Abstract!Next, Abstract!Sit, IInv, WithinLimit, TypeOK
  <2>7. QED
    BY <2>5, <2>6
<1>3. ASSUME NEW r \in Requests, StartCreate(r) PROVE [Abstract!Next]_(Abstract!view)
  <2> DEFINE new == [status |-> "started", startedAt |-> stamp + 1]
  <2>1. HasStatus(attempts, "started") = {}
    BY <1>0, <1>3, NobodySits, StatusRows DEF StartCreate, TypeOK
  <2>2. new \in Rows /\ new.status = "started"
    BY <1>0 DEF Rows, RowStatus, TypeOK
  <2>3. attempts' = Append(attempts, new) /\ highest' = highest
    BY <1>3 DEF StartCreate, exam, IInv, SeenCurrent
  <2> HIDE DEF new
  <2>4. Len(attempts') = Len(attempts) + 1 /\ attempts'[Len(attempts) + 1] = new
    BY <1>0, <2>2, <2>3, AppendProperties DEF TypeOK
  <2>5. HasStatus(attempts', "started") # {}
    <3>1. DOMAIN attempts' = 1..(Len(attempts) + 1)
      BY <1>0, <2>4, LenProperties DEF TypeOK
    <3>2. attempts'[Len(attempts) + 1].status = "started" /\ Len(attempts) + 1 \in DOMAIN attempts'
      BY <1>0, <2>2, <2>4, <3>1
    <3>3. QED
      BY <3>2 DEF HasStatus
  <2>6. Len(attempts') <= highest
    BY <2>3 DEF IInv, WithinLimit
  <2>7. QED
    BY <2>1, <2>3, <2>4, <2>5, <2>6 DEF Abstract!Next, Abstract!Sit
<1>4. ASSUME NEW r \in Requests, CloseCommit(r) PROVE [Abstract!Next]_(Abstract!view)
  <2>1. outcome[r] \in RowStatus /\ outcome[r] # "started"
    BY <1>0 DEF TypeOK, Outcomes, RowStatus
  <2>2. attempts' = [attempts EXCEPT ![row[r]].status = outcome[r]] /\ highest' = highest
    BY <1>4 DEF CloseCommit, exam
  <2>3. /\ Len(attempts') = Len(attempts)
        /\ \A i \in 1..Len(attempts) :
             attempts'[i].status = "started" => attempts[i].status = "started"
    BY <1>0, <2>1, <2>2, RowRewritten DEF TypeOK
  <2>4. QED
    BY <1>0, <2>2, <2>3, LeaveOrStutter
<1>5. ASSUME NEW l \in Limits, SetMaxAttempts(l) PROVE [Abstract!Next]_(Abstract!view)
  <2>1. Allowed(l) \in Nat /\ highest \in Nat
    BY <1>0, AllowedPositive DEF TypeOK
  <2>2. attempts' = attempts /\ highest' \in Nat /\ (highest' = highest \/ highest' > highest)
    BY <1>5, <2>1 DEF SetMaxAttempts, Larger
  <2>3. QED
    BY <2>1, <2>2 DEF Abstract!Next, Abstract!Allow, Abstract!view
<1>6. QED
  BY <1>1, <1>2, <1>3, <1>4, <1>5
  DEF Next, StartStep, StartFinish, CloseStep, vars, exam, StartLoadExam, StartLock,
      StartOutsideWindow, StartAnswer, SubmitLoad, SubmitFlush, LockRow, ReadAssignment, Rollback

(* Every interleaving of the requests is a series of sittings, one at a    *)
(* time and no more than the exam has allowed.                             *)
THEOREM SittingsImplemented == Spec => OneSittingAtATime
<1>1. IInv /\ IInv' /\ [Next]_vars => [Abstract!Next]_(Abstract!view)
  BY AbstractStep
<1>2. QED
  BY AbstractInit, Invariance, <1>1, PTL DEF Spec, OneSittingAtATime, Abstract!Spec

=============================================================================
