----------------------------- MODULE AuthProofs -----------------------------
(***************************************************************************)
(* Proofs about the auth service's parts OtpCodes, OrgOpening, Onboarding, *)
(* Credentials, Sessions and Cohorts, one section each, and all of them    *)
(* together (MCAuth): for any number of requests in flight, people, plans, *)
(* tokens and cohorts, and any limits.                                     *)
(*                                                                         *)
(* Codes: what a window has granted is at most its count and what was      *)
(* given back from it, whoever changes the count in between; a count       *)
(* becomes 1 only by the request that is about to set its time to live;    *)
(* and a code accepted while nothing else is in flight leaves no copy      *)
(* behind, so that only a number that is new can be written again.         *)
(*                                                                         *)
(* Opening: of the verifications that may make rows one is in flight at a  *)
(* time, unless one of them finds the address verified and locks nothing,  *)
(* so what it has read stands; billing requests come only after one has    *)
(* committed, and choose a row that is there.                              *)
(*                                                                         *)
(* People: a membership gets the owner's role only when the owner          *)
(* verifies, no operation gives that role to another row, and the owner of *)
(* an organisation is never replaced and never deleted.                    *)
(*                                                                         *)
(* Ways in: what a request is about to write fits the account as it is,    *)
(* for as long as nobody else has committed.                               *)
(*                                                                         *)
(* Sessions: a blacklist entry never goes before the last second of its    *)
(* token, and a token somebody is about to revoke only gets older.         *)
(*                                                                         *)
(* Cohorts: the index and the foreign keys, which a commit checks whatever *)
(* it has read, keep the roll sound. A request that overlaps no other      *)
(* still knows the roll when it commits: what it has read is what it would *)
(* read again.                                                             *)
(***************************************************************************)
EXTENDS MCAuth, WellFoundedInduction, TLAPS

---------------------------------------------------------------------------
(* One-time codes                                                          *)

(* The count covers what was granted and not given back. *)
CountCovers ==
  /\ count = Nil => granted = 0 /\ refunded = 0
  /\ count # Nil => granted <= count + refunded

(* The calls that use the copy of a code.                                  *)
NeedCopy == {"askExpire", "askSet", "missTtl", "missSet", "hitDel"}

(* Every copy of a code in flight is of one that was generated and has not *)
(* been spent; a request that is over has none.                            *)
CopiesUnspent ==
  /\ \A c \in Clients : call[c] \in NeedCopy => seen[c] # Nil
  /\ \A c \in Clients : Idle(c) => seen[c] = Nil
  /\ \A c \in Clients : seen[c] # Nil => seen[c].code \in Issued \ spent
  /\ code # Nil => code.code \in Issued
  /\ spent \subseteq Issued

CodeInv ==
  /\ CodeTypeOK
  /\ CountCovers /\ CodeBudget
  /\ CountGoesAway
  /\ CopiesUnspent /\ SpentStaysSpent

---------------------------------------------------------------------------
(* Lemmas *)

(* A copy with one more wrong guess is a copy of the same code. *)
LEMMA OneMoreWrong ==
  ASSUME NEW s \in Codes, NEW g \in Ages
  PROVE  /\ [s EXCEPT !.wrong = @ + 1, !.age = g] \in Codes
         /\ [s EXCEPT !.wrong = @ + 1, !.age = g].code = s.code
<1>1. s.wrong + 1 \in Nat
  BY DEF Codes
<1>2. ASSUME NEW n \in Nat PROVE [s EXCEPT !.wrong = n, !.age = g] \in Codes
  BY DEF Codes
<1>3. QED
  BY <1>1, <1>2 DEF Codes

(* A request that only moves on, and perhaps looks at or takes a copy of   *)
(* the code that is there.                                                 *)
LookedAt(c) ==
  /\ \E next \in Calls \ {"idle"} : Goto(c, next) /\ (next \in NeedCopy => seen'[c] # Nil)
  /\ UNCHANGED seen \/ \E x \in Codes : Keep(c, x) /\ x.code = code.code
  /\ code # Nil \/ UNCHANGED seen
  /\ call[c] # "askExpire"
  /\ UNCHANGED <<code, limit, issued, cut, spent>>

(* A request that ends, with or without the code going.                    *)
Finished(c) ==
  /\ Done(c)
  /\ call[c] # "askExpire"
  /\ code' \in {code, Nil}
  /\ UNCHANGED <<limit, issued, cut, spent>>

LEMMA LookedAtKeeps ==
  ASSUME CodeInv, NEW c \in Clients, LookedAt(c)
  PROVE  CodeInv'
<1> USE NilAssumption DEF limit, Goto, Keep, NeedCopy, Codes, Ages
<1>0. CodeTypeOK /\ CopiesUnspent /\ SpentStaysSpent
  BY DEF CodeInv
<1>1. CodeTypeOK'
  BY <1>0 DEF LookedAt, CodeTypeOK
<1>2. CountCovers' /\ CodeBudget'
  BY DEF LookedAt, CodeInv, CountCovers, CodeBudget
<1>3. CountGoesAway'
  BY <1>0 DEF LookedAt, CodeInv, CountGoesAway, CodeTypeOK
<1>4. CopiesUnspent' /\ SpentStaysSpent'
  <2>1. CASE UNCHANGED seen
    BY <1>0, <2>1 DEF LookedAt, CodeTypeOK, CopiesUnspent, SpentStaysSpent, Idle, Issued
  <2>2. CASE code # Nil /\ \E x \in Codes : Keep(c, x) /\ x.code = code.code
    BY <1>0, <2>2 DEF LookedAt, CodeTypeOK, CopiesUnspent, SpentStaysSpent, Idle, Issued
  <2>3. QED
    BY <2>1, <2>2 DEF LookedAt
<1>5. QED
  BY <1>1, <1>2, <1>3, <1>4 DEF CodeInv

LEMMA EndedKeeps ==
  ASSUME CodeInv, NEW c \in Clients, Finished(c)
  PROVE  CodeInv'
<1> USE DEF limit, Done, Goto, Keep, Calls, NeedCopy
<1>0. CodeTypeOK /\ CopiesUnspent /\ SpentStaysSpent
  BY DEF CodeInv
<1>1. CodeTypeOK'
  BY <1>0 DEF Finished, CodeTypeOK
<1>2. CountCovers' /\ CodeBudget'
  BY DEF Finished, CodeInv, CountCovers, CodeBudget
<1>3. CountGoesAway'
  BY <1>0 DEF Finished, CodeInv, CountGoesAway, CodeTypeOK
<1>4. CopiesUnspent' /\ SpentStaysSpent'
  BY <1>0 DEF Finished, CodeTypeOK, CopiesUnspent, SpentStaysSpent, Idle, Issued
<1>5. QED
  BY <1>1, <1>2, <1>3, <1>4 DEF CodeInv

(* SET of a copy. *)
LEMMA WrittenBack ==
  ASSUME CodeInv, NEW c \in Clients, code' = seen[c],
         UNCHANGED <<limit, issued, cut, spent>>, call[c] # "askExpire",
         \/ Done(c)
         \/ Goto(c, "send") /\ UNCHANGED seen
  PROVE  CodeInv'
<1> USE DEF limit, Done, Goto, Keep, Calls, NeedCopy
<1>0. CodeTypeOK /\ CopiesUnspent /\ SpentStaysSpent
  BY DEF CodeInv
<1>1. CodeTypeOK'
  BY <1>0 DEF CodeTypeOK
<1>2. CountCovers' /\ CodeBudget'
  BY DEF CodeInv, CountCovers, CodeBudget
<1>3. CountGoesAway'
  BY <1>0 DEF CodeInv, CountGoesAway, CodeTypeOK
<1>4. CopiesUnspent' /\ SpentStaysSpent'
  BY <1>0 DEF CodeTypeOK, CopiesUnspent, SpentStaysSpent, Idle, Issued
<1>5. QED
  BY <1>1, <1>2, <1>3, <1>4 DEF CodeInv

---------------------------------------------------------------------------

LEMMA CodeInitInv == CodeInit => CodeInv
<1> SUFFICES ASSUME CodeInit PROVE CodeInv
  OBVIOUS
<1>1. CodeTypeOK
  BY DEF CodeInit, CodeTypeOK, Calls
<1>2. CountCovers /\ CodeBudget /\ CountGoesAway
  BY CodesAssumption DEF CodeInit, CountCovers, CodeBudget, CountGoesAway
<1>3. CopiesUnspent /\ SpentStaysSpent
  BY DEF CodeInit, CopiesUnspent, SpentStaysSpent, NeedCopy
<1>4. QED
  BY <1>1, <1>2, <1>3 DEF CodeInv

LEMMA CodeStepInv == CodeInv /\ [CodeNext]_codeVars => CodeInv'
<1> USE CodesAssumption, NilAssumption DEF Calls, NeedCopy
<1> SUFFICES ASSUME CodeInv, [CodeNext]_codeVars PROVE CodeInv'
  OBVIOUS
<1>0. CodeTypeOK /\ CountCovers /\ CodeBudget /\ CountGoesAway /\ CopiesUnspent /\ SpentStaysSpent
  BY DEF CodeInv
(* A copy is in use: it is one, and its number is new or unspent.          *)
<1>c. ASSUME NEW c \in Clients, call[c] \in NeedCopy
      PROVE  seen[c] \in Codes /\ seen[c].code \in Issued \ spent
  BY <1>0, <1>c DEF CopiesUnspent, CodeTypeOK
<1>1. ASSUME NEW c \in Clients, Ask(c) \/ NotSent(c) PROVE CodeInv'
  <2>1. LookedAt(c)
    BY <1>0, <1>1 DEF Ask, NotSent, LookedAt, Goto, Idle, CodeTypeOK
  <2>2. QED
    BY <2>1, LookedAtKeeps
<1>2. ASSUME NEW c \in Clients, AskTtl(c) \/ UndoGet(c) PROVE CodeInv'
  <2>1. LookedAt(c) \/ Finished(c)
    BY <1>0, <1>2 DEF AskTtl, UndoGet, LookedAt, Finished, Goto, CodeTypeOK
  <2>2. QED
    BY <2>1, LookedAtKeeps, EndedKeeps
<1>3. ASSUME NEW c \in Clients, NEW guess \in Guess, Verify(c, guess) PROVE CodeInv'
  <2>1. LookedAt(c)
    BY <1>0, <1>3 DEF Verify, LookedAt, Goto, Keep, Idle, CodeTypeOK
  <2>2. QED
    BY <2>1, LookedAtKeeps
<1>4. ASSUME NEW c \in Clients, MissTtl(c) PROVE CodeInv'
  <2> DEFINE x == [seen[c] EXCEPT !.wrong = @ + 1, !.age = code.age]
  <2>1. seen[c] \in Codes /\ code \in Codes
    BY <1>0, <1>c, <1>4 DEF MissTtl, CodeTypeOK
  <2>2. x \in Codes /\ x.code = seen[c].code
    <3>1. code.age \in Ages
      BY <2>1 DEF Codes
    <3>2. QED
      BY <2>1, <3>1, OneMoreWrong
  <2>3. CodeTypeOK'
    BY <1>0, <1>4, <2>2 DEF MissTtl, Goto, Keep, CodeTypeOK, limit
  <2>4. CountCovers' /\ CodeBudget' /\ CountGoesAway'
    BY <1>0, <1>4 DEF MissTtl, Goto, CodeTypeOK, CountCovers, CodeBudget, CountGoesAway, limit
  <2>5. CopiesUnspent' /\ SpentStaysSpent'
    BY <1>0, <1>c, <1>4, <2>2
    DEF MissTtl, Goto, Keep, CodeTypeOK, CopiesUnspent, SpentStaysSpent, Idle, Issued, Codes, Ages
  <2>6. QED
    BY <2>3, <2>4, <2>5 DEF CodeInv
<1>5. ASSUME NEW c \in Clients, AskSet(c) \/ MissSet(c) PROVE CodeInv'
  BY <1>5, WrittenBack DEF AskSet, MissSet
<1>6. ASSUME NEW c \in Clients, Sent(c) \/ Locked(c) \/ MissTooLate(c) PROVE CodeInv'
  <2>1. Finished(c)
    BY <1>6 DEF Sent, Locked, MissTooLate, Finished
  <2>2. QED
    BY <2>1, EndedKeeps
<1>7. ASSUME NEW c \in Clients, AskIncr(c) PROVE CodeInv'
  <2>1. Counted \in Int /\ issued + 1 \in Nat /\ NewCode(issued + 1) \in Codes
        /\ NewCode(issued + 1).code = issued + 1 /\ NewCode(issued + 1) # Nil
    BY <1>0 DEF Counted, NewCode, Codes, Ages, CodeTypeOK
  <2>2. CodeTypeOK'
    BY <1>0, <1>7, <2>1 DEF AskIncr, Goto, Done, Keep, CodeTypeOK
  <2>3. CountCovers' /\ CodeBudget'
    BY <1>0, <1>7, <2>1
    DEF AskIncr, Counted, OverLimit, CodeTypeOK, CountCovers, CodeBudget
  <2>4. CountGoesAway'
    <3>1. CASE Counted = 1
      BY <1>0, <1>7, <3>1
      DEF AskIncr, OverLimit, FirstInWindow, Goto, Done, CodeTypeOK, CountGoesAway
    <3>2. CASE Counted # 1
      BY <1>0, <1>7, <3>2
      DEF AskIncr, Counted, OverLimit, FirstInWindow, Goto, Done, CodeTypeOK, CountGoesAway
    <3>3. QED
      BY <3>1, <3>2
  <2>5. CopiesUnspent' /\ SpentStaysSpent'
    <3>1. CASE OverLimit(Counted)
      BY <1>0, <1>7, <3>1
      DEF AskIncr, Goto, Done, Keep, CodeTypeOK, CopiesUnspent, SpentStaysSpent, Idle, Issued
    <3>2. CASE ~ OverLimit(Counted)
      BY <1>0, <1>7, <2>1, <3>2
      DEF AskIncr, Goto, Done, Keep, CodeTypeOK, CopiesUnspent, SpentStaysSpent, Idle, Issued
    <3>3. QED
      BY <3>1, <3>2
  <2>6. QED
    BY <2>2, <2>3, <2>4, <2>5 DEF CodeInv
<1>8. ASSUME NEW c \in Clients, AskExpire(c) PROVE CodeInv'
  <2>1. CodeTypeOK' /\ CountCovers' /\ CodeBudget'
    BY <1>0, <1>8 DEF AskExpire, Goto, CodeTypeOK, CountCovers, CodeBudget
  <2>2. CountGoesAway'
    BY <1>0, <1>8 DEF AskExpire, Goto, CodeTypeOK, CountGoesAway
  <2>3. CopiesUnspent' /\ SpentStaysSpent'
    BY <1>0, <1>8 DEF AskExpire, Goto, CodeTypeOK, CopiesUnspent, SpentStaysSpent, Idle, Issued
  <2>4. QED
    BY <2>1, <2>2, <2>3 DEF CodeInv
<1>9. ASSUME NEW c \in Clients, UndoDel(c) PROVE CodeInv'
  <2>1. CodeTypeOK' /\ CountCovers' /\ CodeBudget' /\ CountGoesAway'
    BY <1>0, <1>9
    DEF UndoDel, Goto, CodeTypeOK, CountCovers, CodeBudget, CountGoesAway, limit
  <2>2. CopiesUnspent' /\ SpentStaysSpent'
    BY <1>0, <1>9 DEF UndoDel, Goto, CodeTypeOK, CopiesUnspent, SpentStaysSpent, Idle, Issued, limit
  <2>3. QED
    BY <2>1, <2>2 DEF CodeInv
<1>10. ASSUME NEW c \in Clients, UndoDecr(c) PROVE CodeInv'
  <2>1. CodeTypeOK'
    BY <1>0, <1>10 DEF UndoDecr, Done, Goto, Keep, CodeTypeOK
  <2>2. CountCovers' /\ CodeBudget'
    BY <1>0, <1>10 DEF UndoDecr, CodeTypeOK, CountCovers, CodeBudget
  <2>3. CountGoesAway'
    BY <1>0, <1>10 DEF UndoDecr, Done, Goto, CodeTypeOK, CountGoesAway
  <2>4. CopiesUnspent' /\ SpentStaysSpent'
    BY <1>0, <1>10
    DEF UndoDecr, Done, Goto, Keep, CodeTypeOK, CopiesUnspent, SpentStaysSpent, Idle, Issued
  <2>5. QED
    BY <2>1, <2>2, <2>3, <2>4 DEF CodeInv
<1>11. ASSUME NEW c \in Clients, Hit(c) PROVE CodeInv'
  <2>1. seen[c] \in Codes /\ seen[c].code \in Issued
    BY <1>c, <1>11 DEF Hit
  <2>2. seen[c].code \in Nat
    BY <2>1 DEF Codes
  <2>3. CodeTypeOK'
    BY <1>0, <1>11, <2>2 DEF Hit, SpentBy, Done, Goto, Keep, CodeTypeOK, limit
  <2>4. CountCovers' /\ CodeBudget' /\ CountGoesAway'
    BY <1>0, <1>11
    DEF Hit, Done, Goto, CodeTypeOK, CountCovers, CodeBudget, CountGoesAway, limit
  <2>5. SpentStaysSpent'
    BY <1>11 DEF Hit, SpentStaysSpent
  <2>6. CopiesUnspent'
    <3>1. CASE Alone(c)
      BY <1>0, <1>11, <2>1, <3>1
      DEF Hit, SpentBy, Alone, Done, Goto, Keep, CodeTypeOK, CopiesUnspent, Idle, Issued, limit
    <3>2. CASE ~ Alone(c)
      BY <1>0, <1>11, <3>2
      DEF Hit, SpentBy, Done, Goto, Keep, CodeTypeOK, CopiesUnspent, Idle, Issued, limit
    <3>3. QED
      BY <3>1, <3>2
  <2>7. QED
    BY <2>3, <2>4, <2>5, <2>6 DEF CodeInv
<1>12. CASE Ripen \/ Expire
  <2>1. CodeTypeOK' /\ (code' # Nil => code # Nil /\ code'.code = code.code)
    BY <1>0, <1>12 DEF Ripen, Expire, CodeTypeOK, Codes, Ages, limit
  <2>2. UNCHANGED <<limit, issued, call, seen, cut, spent>>
    BY <1>12 DEF Ripen, Expire
  <2>3. CountCovers' /\ CodeBudget' /\ CountGoesAway'
    BY <1>0, <2>2 DEF CountCovers, CodeBudget, CountGoesAway, limit
  <2>4. CopiesUnspent' /\ SpentStaysSpent'
    BY <1>0, <2>1, <2>2 DEF CopiesUnspent, SpentStaysSpent, Idle, Issued
  <2>5. QED
    BY <2>1, <2>3, <2>4 DEF CodeInv
<1>13. CASE CountExpires
  <2>1. CodeTypeOK'
    BY <1>0, <1>13 DEF CountExpires, CodeTypeOK
  <2>2. CountCovers' /\ CodeBudget' /\ CountGoesAway'
    BY <1>13 DEF CountExpires, CountCovers, CodeBudget, CountGoesAway
  <2>3. CopiesUnspent' /\ SpentStaysSpent'
    BY <1>0, <1>13 DEF CountExpires, CopiesUnspent, SpentStaysSpent, Idle, Issued
  <2>4. QED
    BY <2>1, <2>2, <2>3 DEF CodeInv
<1>14. CASE Restart
  BY <1>0, <1>14
  DEF Restart, CodeInv, CodeTypeOK, CountCovers, CodeBudget, CountGoesAway, CopiesUnspent,
      SpentStaysSpent, Idle, Issued, limit
<1>15. CASE UNCHANGED codeVars
  BY <1>0, <1>15
  DEF codeVars, CodeInv, CodeTypeOK, CountCovers, CodeBudget, CountGoesAway, CopiesUnspent,
      SpentStaysSpent, Idle, Issued
<1>16. QED
  BY <1>1, <1>2, <1>3, <1>4, <1>5, <1>6, <1>7, <1>8, <1>9, <1>10, <1>11, <1>12, <1>13, <1>14, <1>15
  DEF CodeNext, CodeStep

---------------------------------------------------------------------------
(* Theorems *)

(* The inductive invariant of the codes: counts cover what was granted and *)
(* given back, and no copy of a spent code is in flight (otp_service.py).  *)
THEOREM CodeInvariance == CodeSpec => []CodeInv
BY CodeInitInv, CodeStepInv, PTL DEF CodeSpec

(* The keys and the requests in flight stay well-formed (otp_service.py).  *)
THEOREM CodesTyped == CodeSpec => []CodeTypeOK
BY CodeInvariance, PTL DEF CodeInv

(* No window grants more codes than MAX_REQUESTS and what was given back   *)
(* in it (_check_rate_limit, invalidate_otp).                              *)
THEOREM BudgetKept == CodeSpec => []CodeBudget
BY CodeInvariance, PTL DEF CodeInv

(* A count that keeps anybody waiting goes away by itself, unless the      *)
(* process stopped between INCR and EXPIRE (_check_rate_limit).            *)
THEOREM CountEnds == CodeSpec => []CountGoesAway
BY CodeInvariance, PTL DEF CodeInv

(* Both, however requests, refunds, restarts and expiry race.              *)
THEOREM LimitIsKept == CodeSpec => []CodeLimitKept
<1>1. CodeInv => CodeLimitKept
  BY DEF CodeInv, CodeLimitKept
<1>2. QED
  BY <1>1, CodeInvariance, PTL

(* A code accepted while nothing else was in flight is not brought back    *)
(* (verify_otp).                                                           *)
THEOREM NeverAgain == CodeSpec => []SpentStaysSpent
BY CodeInvariance, PTL DEF CodeInv

---------------------------------------------------------------------------
(* The opening of an organisation                                          *)

(* Only a verification that may open the organisation makes rows, and one  *)
(* that is about to commit has seen to it that there is a subscription.    *)
OnlyOpens == \A v \in Verifiers :
  /\ verifier[v].at \in {"flushed", "seated"} => verifier[v].purpose = "signup"
  /\ verifier[v].adds => Opens(v)
  /\ verifier[v].starts => Opens(v) /\ offered
  /\ verifier[v].at = "decided" /\ verifier[v].purpose = "signup" /\ offered
       => verifier[v].starts \/ subs # <<>>

(* One at a time, and what it has read of memberships and subscriptions    *)
(* stands until it commits.                                                *)
OneOpens   == \A v, w \in Verifiers : Opens(v) /\ Opens(w) => v = w
ReadsStand == \A v \in Verifiers :
  (verifier[v].adds => seats = 0) /\ (verifier[v].starts => subs = <<>>)

(* Billing requests come once there is somebody to make them, and choose   *)
(* a row that is there, or none while there is none.                       *)
AskingStands == asking # NoAsking =>
  /\ opened /\ asking.plan \in Plans
  /\ IF asking.row = 0 THEN subs = <<>> ELSE asking.row \in DOMAIN subs

OpenInv ==
  /\ OpenTypeOK /\ OnlyOpens /\ AskingStands /\ OpenedOnce
  /\ ~ twice => OneOpens /\ ReadsStand

LEMMA SubsRows ==
  ASSUME OpenTypeOK
  PROVE  /\ subs = <<>> <=> Len(subs) = 0
         /\ Len(subs) \in Nat /\ 0 \notin DOMAIN subs
         /\ \A plan \in Plans :
              /\ Append(subs, plan) \in Seq(Plans) /\ Append(subs, plan) # <<>>
              /\ Len(Append(subs, plan)) = Len(subs) + 1
              /\ DOMAIN subs \subseteq DOMAIN Append(subs, plan)
              /\ \A k \in DOMAIN subs :
                   /\ [subs EXCEPT ![k] = plan] \in Seq(Plans)
                   /\ [subs EXCEPT ![k] = plan] # <<>>
                   /\ Len([subs EXCEPT ![k] = plan]) = Len(subs)
<1>1. subs \in Seq(Plans) /\ Len(subs) \in Nat /\ DOMAIN subs = 1..Len(subs)
  BY DEF OpenTypeOK
<1>2. subs = <<>> <=> Len(subs) = 0
  BY <1>1
<1>3. ASSUME NEW plan \in Plans
      PROVE  /\ Append(subs, plan) \in Seq(Plans) /\ Append(subs, plan) # <<>>
             /\ Len(Append(subs, plan)) = Len(subs) + 1
             /\ DOMAIN subs \subseteq DOMAIN Append(subs, plan)
  BY <1>1
<1>4. ASSUME NEW plan \in Plans, NEW k \in DOMAIN subs
      PROVE  /\ [subs EXCEPT ![k] = plan] \in Seq(Plans)
             /\ [subs EXCEPT ![k] = plan] # <<>>
             /\ Len([subs EXCEPT ![k] = plan]) = Len(subs)
  <2>1. /\ [subs EXCEPT ![k] = plan] \in Seq(Plans)
        /\ Len([subs EXCEPT ![k] = plan]) = Len(subs)
    BY <1>1
  <2>2. Len(subs) # 0
    BY <1>1
  <2>3. QED
    BY <2>1, <2>2
<1>5. QED
  BY <1>1, <1>2, <1>3, <1>4

LEMMA OpenInitInv == OpenInit => OpenInv
<1> SUFFICES ASSUME OpenInit PROVE OpenInv
  OBVIOUS
<1>1. OpenTypeOK
  <2>1. <<>> \in Seq(Plans)
    OBVIOUS
  <2>2. verifier \in [Verifiers -> [at : Steps, purpose : CodeKinds, locks : BOOLEAN,
                                    adds : BOOLEAN, starts : BOOLEAN]]
    BY DEF OpenInit, AtRest, Steps, CodeKinds
  <2>3. asking \in [plan : Plans \union {"none"}, row : Nat]
    BY DEF OpenInit, NoAsking
  <2>4. QED
    BY <2>1, <2>2, <2>3 DEF OpenInit, OpenTypeOK
<1>2. \A v \in Verifiers : /\ ~ Opens(v) /\ verifier[v].at = "idle"
                           /\ ~ verifier[v].adds /\ ~ verifier[v].starts
  BY DEF OpenInit, Opens, InWork, AtRest
<1>3. OnlyOpens /\ OneOpens /\ ReadsStand
  BY <1>2 DEF OnlyOpens, OneOpens, ReadsStand
<1>4. Len(<<>>) = 0
  OBVIOUS
<1>5. AskingStands /\ OpenedOnce
  BY <1>4 DEF OpenInit, AskingStands, OpenedOnce
<1>6. QED
  BY <1>1, <1>3, <1>5 DEF OpenInv

(* A step that leaves the tables and the billing request alone.            *)
LEMMA VerifierStep ==
  ASSUME OpenInv, OpenTypeOK', OnlyOpens', ~ twice' => OneOpens' /\ ReadsStand', twice => twice',
         UNCHANGED <<offered, opened, seats, subs, asking>>
  PROVE  OpenInv'
BY DEF OpenInv, AskingStands, OpenedOnce

LEMMA OpenStepInv == OpenInv /\ [OpenNext]_openVars => OpenInv'
<1> USE PlansAssumption
<1> SUFFICES ASSUME OpenInv, [OpenNext]_openVars PROVE OpenInv'
  OBVIOUS
<1>0. /\ OpenTypeOK /\ OnlyOpens /\ AskingStands /\ OpenedOnce
      /\ ~ twice => OneOpens /\ ReadsStand
  BY DEF OpenInv
<1>1. ASSUME NEW v \in Verifiers, NEW purpose \in CodeKinds, VerifyLoads(v, purpose)
      PROVE  OpenInv'
  <2>1. OpenTypeOK'
    BY <1>0, <1>1 DEF VerifyLoads, OpenTypeOK, AtRest, Steps
  <2>2. OnlyOpens' /\ (~ twice' => OneOpens' /\ ReadsStand')
    BY <1>0, <1>1
    DEF VerifyLoads, OnlyOpens, OneOpens, ReadsStand, Opens, InWork, OpenTypeOK, AtRest
  <2>3. QED
    BY <1>1, <2>1, <2>2, VerifierStep DEF VerifyLoads
<1>2. ASSUME NEW v \in Verifiers, VerifyFlushes(v) PROVE OpenInv'
  <2>1. OpenTypeOK'
    BY <1>0, <1>2 DEF VerifyFlushes, OpenTypeOK, Steps
  <2>2. OnlyOpens' /\ (~ twice' => ReadsStand')
    BY <1>0, <1>2
    DEF VerifyFlushes, OnlyOpens, ReadsStand, Opens, InWork, OpenTypeOK, CodeKinds
  <2>3. ASSUME ~ twice' PROVE OneOpens'
    <3>1. ~ twice /\ ~ SideBySide(v) /\ OneOpens
      BY <1>0, <1>2, <2>3 DEF VerifyFlushes, OpenTypeOK
    <3>2. verifier[v].purpose = "signup" => \A w \in Verifiers : ~ Opens(w)
      BY <1>0, <1>2, <3>1 DEF VerifyFlushes, SideBySide, UserFree, HoldsRow, Opens, OpenTypeOK
    <3>3. \A w \in Verifiers :
            Opens(w)' => (IF w = v THEN verifier[v].purpose = "signup" ELSE Opens(w))
      BY <1>0, <1>2 DEF VerifyFlushes, Opens, InWork, OpenTypeOK
    <3>4. QED
      BY <3>1, <3>2, <3>3 DEF OneOpens
  <2>4. QED
    BY <1>2, <2>1, <2>2, <2>3, VerifierStep DEF VerifyFlushes
<1>3. ASSUME NEW v \in Verifiers, NEW adds \in BOOLEAN, VerifySeats(v, adds) PROVE OpenInv'
  <2>1. OpenTypeOK'
    BY <1>0, <1>3 DEF VerifySeats, OpenTypeOK, Steps
  <2>2. OnlyOpens' /\ (~ twice' => OneOpens' /\ ReadsStand')
    BY <1>0, <1>3 DEF VerifySeats, OnlyOpens, OneOpens, ReadsStand, Opens, InWork, OpenTypeOK
  <2>3. QED
    BY <1>3, <2>1, <2>2, VerifierStep DEF VerifySeats
<1>4. ASSUME NEW v \in Verifiers, VerifyDecides(v) PROVE OpenInv'
  <2>1. OpenTypeOK'
    BY <1>0, <1>4 DEF VerifyDecides, OpenTypeOK, Steps
  <2>2. OnlyOpens' /\ (~ twice' => OneOpens' /\ ReadsStand')
    BY <1>0, <1>4 DEF VerifyDecides, OnlyOpens, OneOpens, ReadsStand, Opens, InWork, OpenTypeOK
  <2>3. QED
    BY <1>4, <2>1, <2>2, VerifierStep DEF VerifyDecides
<1>5. ASSUME NEW v \in Verifiers, VerifyCommits(v) PROVE OpenInv'
  <2>1. /\ subs' \in Seq(Plans)
        /\ \/ subs' = subs
           \/ verifier[v].starts /\ subs' # <<>> /\ Len(subs') = Len(subs) + 1
        /\ DOMAIN subs \subseteq DOMAIN subs'
    BY <1>0, <1>5, SubsRows DEF VerifyCommits, OpenTypeOK
  <2>2. OpenTypeOK'
    BY <1>0, <1>5, <2>1 DEF VerifyCommits, OpenTypeOK, AtRest, Steps, CodeKinds
  <2>3. subs # <<>> => subs' # <<>>
    BY <2>1
  <2>4. opened' /\ offered => subs' # <<>>
    BY <1>0, <1>5, <2>1, <2>3 DEF VerifyCommits, OnlyOpens, Opens, OpenedOnce, OpenTypeOK
  <2>5. ASSUME ~ twice PROVE seats' <= 1 /\ Len(subs') <= 1
    BY <1>0, <1>5, <2>1, <2>5, SubsRows DEF VerifyCommits, ReadsStand, OpenedOnce, OpenTypeOK
  <2>6. OpenedOnce'
    BY <1>5, <2>4, <2>5 DEF VerifyCommits, OpenedOnce
  <2>7. OnlyOpens'
    BY <1>0, <1>5, <2>3 DEF VerifyCommits, OnlyOpens, Opens, InWork, OpenTypeOK, AtRest
  <2>8. ASSUME ~ twice' PROVE OneOpens' /\ ReadsStand'
    <3>1. OneOpens /\ ReadsStand
      BY <1>0, <1>5, <2>8 DEF VerifyCommits
    <3>2. \A w \in Verifiers : Opens(w)' => w # v /\ Opens(w)
      BY <1>0, <1>5 DEF VerifyCommits, Opens, InWork, OpenTypeOK, AtRest
    <3>3. \A w \in Verifiers :
            /\ verifier'[w].adds => w # v /\ verifier[w].adds
            /\ verifier'[w].starts => w # v /\ verifier[w].starts
      BY <1>0, <1>5 DEF VerifyCommits, OpenTypeOK, AtRest
    <3>4. Opens(v) => \A w \in Verifiers : ~ verifier'[w].adds /\ ~ verifier'[w].starts
      BY <1>0, <3>1, <3>3 DEF OnlyOpens, OneOpens
    <3>5. ~ Opens(v) => UNCHANGED <<seats, subs>>
      BY <1>0, <1>5 DEF VerifyCommits, OnlyOpens
    <3>6. ReadsStand'
      BY <3>1, <3>3, <3>4, <3>5 DEF ReadsStand
    <3>7. QED
      BY <3>1, <3>2, <3>6 DEF OneOpens
  <2>9. AskingStands'
    <3>1. verifier[v].starts /\ opened => subs # <<>>
      BY <1>0 DEF OnlyOpens, OpenedOnce
    <3>2. QED
      BY <1>0, <1>5, <2>1, <3>1 DEF VerifyCommits, AskingStands
  <2>10. QED
    BY <2>2, <2>6, <2>7, <2>8, <2>9 DEF OpenInv
<1>6. ASSUME NEW v \in Verifiers, VerifyFails(v) PROVE OpenInv'
  <2>1. OpenTypeOK'
    BY <1>0, <1>6 DEF VerifyFails, OpenTypeOK, AtRest, Steps, CodeKinds
  <2>2. OnlyOpens' /\ (~ twice' => OneOpens' /\ ReadsStand')
    BY <1>0, <1>6
    DEF VerifyFails, OnlyOpens, OneOpens, ReadsStand, Opens, InWork, OpenTypeOK, AtRest
  <2>3. QED
    BY <1>6, <2>1, <2>2, VerifierStep DEF VerifyFails
<1>7. ASSUME NEW plan \in Plans, TrialReads(plan) \/ PayReads(plan) PROVE OpenInv'
  <2>1. UNCHANGED <<offered, verified, opened, twice, seats, subs, verifier>>
    BY <1>7 DEF TrialReads, PayReads
  <2>2. PICK n \in Nat : /\ asking' = [plan |-> plan, row |-> n] /\ opened
                         /\ IF n = 0 THEN subs = <<>> ELSE n \in DOMAIN subs
    <3>1. CASE TrialReads(plan)
      BY <3>1 DEF TrialReads
    <3>2. CASE PayReads(plan)
      <4>1. DOMAIN subs \subseteq Nat /\ 0 \notin DOMAIN subs
        BY <1>0 DEF OpenTypeOK
      <4>2. QED
        BY <3>2, <4>1 DEF PayReads
    <3>3. QED
      BY <1>7, <3>1, <3>2
  <2>3. OpenTypeOK'
    BY <1>0, <2>1, <2>2 DEF OpenTypeOK
  <2>4. OnlyOpens' /\ OpenedOnce' /\ (~ twice' => OneOpens' /\ ReadsStand')
    BY <1>0, <2>1 DEF OnlyOpens, OpenedOnce, OneOpens, ReadsStand, Opens, InWork
  <2>5. AskingStands'
    BY <2>1, <2>2 DEF AskingStands
  <2>6. QED
    BY <2>3, <2>4, <2>5 DEF OpenInv
<1>8. CASE AskingCommits
  <2>1. /\ opened /\ asking.plan \in Plans
        /\ IF asking.row = 0 THEN subs = <<>> ELSE asking.row \in DOMAIN subs
    BY <1>0, <1>8 DEF AskingCommits, AskingStands
  <2>2. /\ subs' \in Seq(Plans) /\ subs' # <<>>
        /\ Len(subs') = 1 \/ Len(subs') = Len(subs)
    <3>1. CASE asking.row = 0
      BY <1>0, <1>8, <2>1, <3>1, SubsRows DEF AskingCommits
    <3>2. CASE asking.row # 0
      BY <1>0, <1>8, <2>1, <3>2, SubsRows DEF AskingCommits
    <3>3. QED
      BY <3>1, <3>2
  <2>3. UNCHANGED <<offered, verified, opened, twice, seats, verifier>> /\ asking' = NoAsking
    BY <1>8 DEF AskingCommits
  <2>4. OpenTypeOK'
    BY <1>0, <2>2, <2>3 DEF OpenTypeOK, NoAsking
  <2>5. ~ twice => \A v \in Verifiers : ~ verifier[v].starts
    BY <1>0, <2>1 DEF OnlyOpens, OpenedOnce, ReadsStand
  <2>6. OnlyOpens' /\ (~ twice' => OneOpens' /\ ReadsStand')
    BY <1>0, <2>2, <2>3, <2>5 DEF OnlyOpens, OneOpens, ReadsStand, Opens, InWork
  <2>7. OpenedOnce' /\ AskingStands'
    <3>1. ASSUME ~ twice PROVE seats <= 1 /\ Len(subs') <= 1
      <4>1. seats <= 1 /\ Len(subs) <= 1
        BY <1>0, <3>1 DEF OpenedOnce
      <4>2. CASE Len(subs') = 1
        BY <4>1, <4>2
      <4>3. CASE Len(subs') = Len(subs)
        BY <4>1, <4>3
      <4>4. QED
        BY <2>2, <4>2, <4>3
    <3>2. QED
      BY <2>2, <2>3, <3>1 DEF OpenedOnce, AskingStands
  <2>8. QED
    BY <2>4, <2>6, <2>7 DEF OpenInv
<1>9. CASE AskingFails
  <2>1. OpenTypeOK' /\ AskingStands'
    BY <1>0, <1>9 DEF AskingFails, NoAsking, OpenTypeOK, AskingStands
  <2>2. OnlyOpens' /\ OpenedOnce' /\ (~ twice' => OneOpens' /\ ReadsStand')
    BY <1>0, <1>9 DEF AskingFails, OnlyOpens, OpenedOnce, OneOpens, ReadsStand, Opens, InWork
  <2>3. QED
    BY <2>1, <2>2 DEF OpenInv
<1>10. CASE OwnerLeaves
  <2>1. OpenTypeOK' /\ OpenedOnce' /\ AskingStands'
    BY <1>0, <1>10 DEF OwnerLeaves, OpenTypeOK, OpenedOnce, AskingStands
  <2>2. OnlyOpens' /\ (~ twice' => OneOpens' /\ ReadsStand')
    BY <1>0, <1>10 DEF OwnerLeaves, OnlyOpens, OneOpens, ReadsStand, Opens, InWork
  <2>3. QED
    BY <2>1, <2>2 DEF OpenInv
<1>11. CASE UNCHANGED openVars
  BY <1>0, <1>11
  DEF openVars, OpenInv, OpenTypeOK, OnlyOpens, OneOpens, ReadsStand, Opens, InWork, AskingStands,
      OpenedOnce
<1>12. QED
  BY <1>1, <1>2, <1>3, <1>4, <1>5, <1>6, <1>7, <1>8, <1>9, <1>10, <1>11 DEF OpenNext

---------------------------------------------------------------------------
(* Theorems *)

(* The inductive invariant of the opening: unless two verifications have   *)
(* looked for rows side by side, one at a time may make them, and what it  *)
(* has read of memberships and subscriptions stands until it commits       *)
(* (_complete_otp_verification).                                           *)
THEOREM OpenInvariance == OpenSpec => []OpenInv
BY OpenInitInv, OpenStepInv, PTL DEF OpenSpec

(* What the opening keeps and the requests on it stay well-formed.         *)
THEOREM OpeningTyped == OpenSpec => []OpenTypeOK
BY OpenInvariance, PTL DEF OpenInv

(* An organisation has one seat for its owner and at most one              *)
(* subscription, unless two verifications of which one locks nothing have  *)
(* overlapped, and the trial that was offered (auto_add_on_verification,   *)
(* start_trial, initiate_payment).                                         *)
THEOREM OpensOnce == OpenSpec => []OpenedOnce
BY OpenInvariance, PTL DEF OpenInv

---------------------------------------------------------------------------
(* People and memberships                                                  *)

(* Active or not, only the owner's memberships have the owner's role. *)
RoleIsOwners == \A p \in People : \A m \in member[p] :
  m.role = "super_admin" => p = owner /\ account[p] = "verified"

MembersHaveAccounts == \A p \in People : member[p] # {} => account[p] # "none"

PeopleInv == PeopleTypeOK /\ RoleIsOwners /\ MembersHaveAccounts

(* p's memberships are left alone, lose rows, or get one that is not the   *)
(* owner's.                                                                *)
Harmless(p) ==
  \E new \in SUBSET Rows :
    /\ \A m \in new : m.role = "super_admin" => \E n \in member[p] : n.role = "super_admin"
    /\ member' = [member EXCEPT ![p] = new]

---------------------------------------------------------------------------
(* Lemmas *)

LEMMA RowType ==
  ASSUME NEW i \in RowIds, NEW role \in Roles, NEW s \in {"active", "pending"}, NEW b \in BOOLEAN
  PROVE  Row(i, role, s, b) \in Rows /\ Row(i, role, s, b).role = role
BY DEF Row, Rows

LEMMA RowsEdited ==
  ASSUME NEW m \in Rows
  PROVE  /\ [m EXCEPT !.status = "active"] \in Rows
         /\ [m EXCEPT !.status = "active"].role = m.role
         /\ \A role \in Roles :
              /\ [m EXCEPT !.role = role] \in Rows /\ [m EXCEPT !.role = role].role = role
              /\ [m EXCEPT !.status = "active", !.role = role] \in Rows
              /\ [m EXCEPT !.status = "active", !.role = role].role = role
BY DEF Rows

LEMMA RoleKinds ==
  /\ StaffRoles \subseteq Roles /\ "student" \in Roles /\ "super_admin" \in Roles
  /\ "super_admin" \notin StaffRoles \union {"student"}
BY DEF StaffRoles, Roles

(* One more row, not the owner's.                                          *)
LEMMA InsertHarmless ==
  ASSUME PeopleTypeOK, NEW p \in People, NEW i \in RowIds,
         NEW role \in StaffRoles \union {"student"}, NEW s \in {"active", "pending"},
         NEW b \in BOOLEAN, Insert(p, i, Row(i, role, s, b))
  PROVE  Harmless(p)
<1> DEFINE new == member[p] \union {Row(i, role, s, b)}
<1>1. Row(i, role, s, b) \in Rows /\ Row(i, role, s, b).role # "super_admin"
  BY RowType, RoleKinds
<1>2. new \in SUBSET Rows
  BY <1>1 DEF PeopleTypeOK
<1>3. member' = [member EXCEPT ![p] = new]
  BY DEF Insert
<1>4. QED
  BY <1>1, <1>2, <1>3 DEF Harmless

(* A row whose role becomes another than the owner's, or stays. *)
LEMMA ReplaceHarmless ==
  ASSUME PeopleTypeOK, NEW p \in People, NEW m \in member[p], NEW n \in Rows,
         n.role = "super_admin" => m.role = "super_admin", Replace(p, m, n)
  PROVE  Harmless(p)
<1> DEFINE new == (member[p] \ {m}) \union {n}
<1>1. new \in SUBSET Rows
  BY DEF PeopleTypeOK
<1>2. member' = [member EXCEPT ![p] = new]
  BY DEF Replace
<1>3. QED
  BY <1>1, <1>2 DEF Harmless

LEMMA RemoveHarmless ==
  ASSUME PeopleTypeOK, NEW p \in People, NEW m,
         member' = [member EXCEPT ![p] = @ \ {m}]
  PROVE  Harmless(p)
<1>1. member[p] \ {m} \in SUBSET Rows
  BY DEF PeopleTypeOK
<1>2. QED
  BY <1>1 DEF Harmless

(* Accounts are not lost, and one that is verified stays so. *)
AccountsStay ==
  /\ account' \in [People -> {"none", "unverified", "verified"}]
  /\ \A p \in People : /\ account[p] # "none" => account'[p] # "none"
                       /\ account[p] = "verified" => account'[p] = "verified"

(* What a step that keeps accounts and owner needs to keep the invariant.  *)
LEMMA HarmlessKeeps ==
  ASSUME PeopleInv, NEW p \in People, account[p] # "none", Harmless(p) \/ UNCHANGED member,
         AccountsStay, owner' = owner
  PROVE  /\ member' \in [People -> SUBSET Rows]
         /\ RoleIsOwners' /\ MembersHaveAccounts'
<1>0. PeopleTypeOK /\ RoleIsOwners /\ MembersHaveAccounts
  BY DEF PeopleInv
<1>1. CASE UNCHANGED member
  BY <1>0, <1>1 DEF PeopleTypeOK, RoleIsOwners, MembersHaveAccounts, AccountsStay
<1>2. CASE Harmless(p)
  <2>1. PICK new \in SUBSET Rows :
          /\ \A m \in new : m.role = "super_admin" => \E n \in member[p] : n.role = "super_admin"
          /\ member' = [member EXCEPT ![p] = new]
    BY <1>2 DEF Harmless
  <2>2. member' \in [People -> SUBSET Rows]
    BY <1>0, <2>1 DEF PeopleTypeOK
  <2>3. RoleIsOwners'
    BY <1>0, <2>1 DEF PeopleTypeOK, RoleIsOwners, AccountsStay
  <2>4. MembersHaveAccounts'
    BY <1>0, <2>1 DEF PeopleTypeOK, MembersHaveAccounts, AccountsStay
  <2>5. QED
    BY <2>2, <2>3, <2>4
<1>3. QED
  BY <1>1, <1>2

LEMMA PeopleInitInv == PeopleInit => PeopleInv
BY DEF PeopleInit, PeopleInv, PeopleTypeOK, RoleIsOwners, MembersHaveAccounts

LEMMA PeopleStepInv == PeopleInv /\ [PeopleNext]_peopleVars => PeopleInv'
<1> USE PeopleAssumption
<1> SUFFICES ASSUME PeopleInv, [PeopleNext]_peopleVars PROVE PeopleInv'
  OBVIOUS
<1>0. PeopleTypeOK /\ RoleIsOwners /\ MembersHaveAccounts
  BY DEF PeopleInv
<1>1. ASSUME NEW p \in People, NEW sent \in BOOLEAN, SignUp(p, sent) \/ StudentSignUp(p, sent)
      PROVE  PeopleInv'
  <2>1. account[p] = "none" /\ member' = member /\ account' = [account EXCEPT ![p] = "unverified"]
    BY <1>1 DEF SignUp, StudentSignUp
  <2>2. PeopleTypeOK'
    <3>1. firstLogin' \in [People -> BOOLEAN]
      BY <1>0, <1>1 DEF SignUp, StudentSignUp, PeopleTypeOK
    <3>2. QED
      BY <1>0, <1>1, <3>1 DEF SignUp, StudentSignUp, PeopleTypeOK, Purposes
  <2>3. member[p] = {}
    BY <1>0, <2>1 DEF MembersHaveAccounts
  <2>4. owner' = owner \/ owner = "none"
    BY <1>1 DEF SignUp, StudentSignUp
  <2>5. RoleIsOwners'
    BY <1>0, <2>1, <2>3, <2>4 DEF RoleIsOwners, PeopleTypeOK
  <2>6. MembersHaveAccounts'
    BY <1>0, <2>1 DEF MembersHaveAccounts, PeopleTypeOK
  <2>7. QED
    BY <2>2, <2>5, <2>6 DEF PeopleInv
<1>2. ASSUME NEW p \in People, NEW purpose \in Purposes,
             AskCode(p, purpose) \/ CodeGoes(p, purpose) \/ EnterCode(p, purpose) \/ LoginUnverified(p)
      PROVE  PeopleInv'
  <2>1. PeopleTypeOK'
    BY <1>0, <1>2 DEF AskCode, CodeGoes, EnterCode, LoginUnverified, PeopleTypeOK, Purposes
  <2>2. account' = account /\ owner' = owner /\ member' = member
    BY <1>2 DEF AskCode, CodeGoes, EnterCode, LoginUnverified
  <2>3. QED
    BY <1>0, <2>1, <2>2 DEF PeopleInv, RoleIsOwners, MembersHaveAccounts
<1>3. ASSUME NEW p \in People, Verified(p) PROVE PeopleInv'
  <2>1. account' = [account EXCEPT ![p] = IF account[p] = "none" THEN "none" ELSE "verified"]
    BY <1>0, <1>3 DEF Verified, PeopleTypeOK
  <2>2. AccountsStay
    BY <1>0, <2>1 DEF AccountsStay, PeopleTypeOK
  <2>3. owner' = owner /\ firstLogin' = firstLogin /\ codes' = codes /\ joining' = joining
        /\ entered' = [entered EXCEPT ![p] = "none"]
    BY <1>3 DEF Verified
  <2>4. /\ member' \in [People -> SUBSET Rows]
        /\ RoleIsOwners' /\ MembersHaveAccounts'
    <3>1. CASE TakesOver(p)
      <4>1. PICK new \in SUBSET Rows : member' = [member EXCEPT ![p] = new]
        <5>1. CASE UNCHANGED member
          BY <1>0, <5>1 DEF PeopleTypeOK
        <5>2. ASSUME NEW i \in RowIds, Insert(p, i, Row(i, "super_admin", "active", TRUE))
              PROVE  \E new \in SUBSET Rows : member' = [member EXCEPT ![p] = new]
          <6>1. Row(i, "super_admin", "active", TRUE) \in Rows
            BY <5>2, RowType, RoleKinds
          <6>2. member[p] \union {Row(i, "super_admin", "active", TRUE)} \in SUBSET Rows
            BY <1>0, <6>1 DEF PeopleTypeOK
          <6>3. QED
            BY <5>2, <6>2 DEF Insert
        <5>3. ASSUME NEW m \in member[p],
                     Replace(p, m, [m EXCEPT !.status = "active", !.role = "super_admin"])
              PROVE  \E new \in SUBSET Rows : member' = [member EXCEPT ![p] = new]
          <6>1. m \in Rows
            BY <1>0 DEF PeopleTypeOK
          <6>2. [m EXCEPT !.status = "active", !.role = "super_admin"] \in Rows
            BY <6>1, RowsEdited, RoleKinds
          <6> DEFINE n == [m EXCEPT !.status = "active", !.role = "super_admin"]
          <6> HIDE DEF n
          <6>3. (member[p] \ {m}) \union {n} \in SUBSET Rows
            BY <1>0, <6>2 DEF PeopleTypeOK, n
          <6>4. QED
            BY <5>3, <6>3 DEF Replace, n
        <5>4. QED
          BY <1>3, <3>1, <5>1, <5>2, <5>3 DEF Verified, AutoAdd
      <4>2. owner = p /\ account'[p] = "verified"
        BY <1>0, <2>1, <3>1 DEF TakesOver, PeopleTypeOK
      <4>3. member' \in [People -> SUBSET Rows]
        BY <1>0, <4>1 DEF PeopleTypeOK
      <4>4. RoleIsOwners'
        BY <1>0, <2>2, <2>3, <4>1, <4>2 DEF RoleIsOwners, AccountsStay, PeopleTypeOK
      <4>5. MembersHaveAccounts'
        BY <1>0, <2>2, <4>1, <4>2 DEF MembersHaveAccounts, AccountsStay, PeopleTypeOK
      <4>6. QED
        BY <4>3, <4>4, <4>5
    <3>2. CASE ~ TakesOver(p)
      BY <1>0, <1>3, <2>2, <2>3, <3>2
      DEF Verified, RoleIsOwners, MembersHaveAccounts, AccountsStay, PeopleTypeOK
    <3>3. QED
      BY <3>1, <3>2
  <2>5. PeopleTypeOK'
    BY <1>0, <2>2, <2>3, <2>4 DEF AccountsStay, PeopleTypeOK
  <2>6. QED
    BY <2>4, <2>5 DEF PeopleInv
<1>4. ASSUME NEW a \in People, NEW p \in People, NEW role \in Roles, CreateNew(a, p, role)
      PROVE  PeopleInv'
  <2>1. role \in StaffRoles \union {"student"}
    BY <1>4 DEF CreateNew, MayCreate, StaffRoles
  <2>2. Harmless(p)
    BY <1>0, <1>4, <2>1, InsertHarmless DEF CreateNew
  <2>3. PICK new \in SUBSET Rows :
          /\ \A m \in new : m.role = "super_admin" => \E n \in member[p] : n.role = "super_admin"
          /\ member' = [member EXCEPT ![p] = new]
    BY <2>2 DEF Harmless
  <2>4. member[p] = {}
    BY <1>0, <1>4 DEF CreateNew, MembersHaveAccounts
  <2>5. PeopleTypeOK'
    BY <1>0, <1>4, <2>3 DEF CreateNew, PeopleTypeOK
  <2>6. RoleIsOwners' /\ MembersHaveAccounts'
    BY <1>0, <1>4, <2>3, <2>4 DEF CreateNew, RoleIsOwners, MembersHaveAccounts, PeopleTypeOK
  <2>7. QED
    BY <2>5, <2>6 DEF PeopleInv
<1>5. ASSUME NEW a \in People, NEW p \in People, NEW role \in Roles, CreateExisting(a, p, role)
      PROVE  PeopleInv'
  <2>1. Harmless(p) /\ account[p] # "none"
    BY <1>0, <1>5, InsertHarmless DEF CreateExisting
  <2>2. AccountsStay
    BY <1>0, <1>5 DEF CreateExisting, AccountsStay, PeopleTypeOK
  <2>3. QED
    BY <1>0, <1>5, <2>1, <2>2, HarmlessKeeps DEF CreateExisting, PeopleInv, PeopleTypeOK
<1>6. ASSUME NEW p \in People, account[p] # "none", SetUp(p), Harmless(p) \/ UNCHANGED member
      PROVE  PeopleInv'
  <2>1. AccountsStay
    BY <1>0, <1>6 DEF SetUp, AccountsStay, PeopleTypeOK
  <2>2. owner' = owner
    BY <1>6 DEF SetUp
  <2>3. /\ member' \in [People -> SUBSET Rows]
        /\ RoleIsOwners' /\ MembersHaveAccounts'
    BY <1>6, <2>1, <2>2, HarmlessKeeps
  <2>4. PeopleTypeOK'
    BY <1>0, <1>6, <2>1, <2>3 DEF SetUp, AccountsStay, PeopleTypeOK
  <2>5. QED
    BY <2>3, <2>4 DEF PeopleInv
<1>7. ASSUME NEW p \in People, ActivateStaff(p) PROVE PeopleInv'
  <2>1. Harmless(p) \/ UNCHANGED member
    <3>1. ASSUME NEW m \in member[p], Replace(p, m, [m EXCEPT !.status = "active"])
          PROVE  Harmless(p)
      <4>1. m \in Rows
        BY <1>0 DEF PeopleTypeOK
      <4>2. QED
        BY <1>0, <3>1, <4>1, RowsEdited, ReplaceHarmless
    <3>2. QED
      BY <1>7, <3>1 DEF ActivateStaff
  <2>2. QED
    BY <1>6, <1>7, <2>1 DEF ActivateStaff
<1>8. ASSUME NEW p \in People, StaffFirstLogin(p) PROVE PeopleInv'
  BY <1>6, <1>8 DEF StaffFirstLogin
<1>9. ASSUME NEW p \in People, StudentFirstLogin(p) PROVE PeopleInv'
  <2>1. Harmless(p) \/ UNCHANGED member
    <3>1. ASSUME NEW m \in member[p],
                 Replace(p, m, [m EXCEPT !.status = "active", !.role = "student"])
          PROVE  Harmless(p)
      <4>1. m \in Rows
        BY <1>0 DEF PeopleTypeOK
      <4>2. QED
        BY <1>0, <3>1, <4>1, RowsEdited, RoleKinds, ReplaceHarmless
    <3>2. QED
      BY <1>9, <3>1 DEF StudentFirstLogin, AutoAdd
  <2>2. QED
    BY <1>6, <1>9, <2>1 DEF StudentFirstLogin
<1>10. ASSUME NEW p \in People, SubscribeCheck(p) PROVE PeopleInv'
  BY <1>0, <1>10 DEF SubscribeCheck, PeopleInv, PeopleTypeOK, RoleIsOwners, MembersHaveAccounts
<1>11. ASSUME NEW p \in People, NEW more \in BOOLEAN, SubscribeInsert(p, more) PROVE PeopleInv'
  <2>1. Harmless(p) /\ account[p] # "none"
    BY <1>0, <1>11, InsertHarmless DEF SubscribeInsert
  <2>2. AccountsStay
    BY <1>0, <1>11 DEF SubscribeInsert, AccountsStay, PeopleTypeOK
  <2>3. QED
    BY <1>0, <1>11, <2>1, <2>2, HarmlessKeeps DEF SubscribeInsert, PeopleInv, PeopleTypeOK
<1>12. ASSUME NEW p \in People, LeaveOrg(p) PROVE PeopleInv'
  <2>1. Harmless(p)
    BY <1>0, <1>12, RemoveHarmless DEF LeaveOrg
  <2>2. account[p] # "none"
    BY <1>0, <1>12 DEF LeaveOrg, MembersHaveAccounts
  <2>3. AccountsStay
    BY <1>0, <1>12 DEF LeaveOrg, AccountsStay, PeopleTypeOK
  <2>4. QED
    BY <1>0, <1>12, <2>1, <2>2, <2>3, HarmlessKeeps DEF LeaveOrg, PeopleInv, PeopleTypeOK
<1>13. ASSUME NEW a \in People, NEW p \in People, NEW role \in Roles, AssignRole(a, p, role)
       PROVE  PeopleInv'
  <2>1. PICK m \in member[p] : MayAssign(a, m, role) /\ Replace(p, m, [m EXCEPT !.role = role])
    BY <1>13 DEF AssignRole
  <2>2. m \in Rows
    BY <1>0 DEF PeopleTypeOK
  <2> DEFINE n == [m EXCEPT !.role = role]
  <2>3. Harmless(p)
    <3>1. n \in Rows /\ n.role = role
      BY <2>2, RowsEdited
    <3>2. role # "super_admin"
      BY <2>1, RoleKinds DEF MayAssign
    <3>3. Replace(p, m, n)
      BY <2>1
    <3> HIDE DEF n
    <3>4. QED
      BY <1>0, <3>1, <3>2, <3>3, ReplaceHarmless
  <2>4. account[p] # "none"
    BY <1>0, <2>1 DEF MembersHaveAccounts
  <2>5. AccountsStay
    BY <1>0, <1>13 DEF AssignRole, AccountsStay, PeopleTypeOK
  <2>6. QED
    BY <1>0, <1>13, <2>3, <2>4, <2>5, HarmlessKeeps DEF AssignRole, PeopleInv, PeopleTypeOK
<1>14. ASSUME NEW a \in People, NEW p \in People, NEW elsewhere \in BOOLEAN,
              DeleteAccount(a, p, elsewhere)
       PROVE  PeopleInv'
  <2>1. PICK m \in member[p] :
          /\ member' = [member EXCEPT ![p] = @ \ {m}]
          /\ IF member[p] # {m} \/ elsewhere THEN UNCHANGED <<account, firstLogin, codes, joining>>
             ELSE /\ account' = [account EXCEPT ![p] = "none"]
                  /\ firstLogin' = [firstLogin EXCEPT ![p] = FALSE]
                  /\ codes' = [codes EXCEPT ![p] = {}] /\ joining' = joining \ {p}
    BY <1>14 DEF DeleteAccount
  <2>2. owner' = owner /\ entered' = entered
    BY <1>14 DEF DeleteAccount
  <2>3. member' \in [People -> SUBSET Rows] /\ \A q \in People : member'[q] \subseteq member[q]
    BY <1>0, <2>1 DEF PeopleTypeOK
  <2>4. \A q \in People : account'[q] = account[q] \/ member'[q] = {}
    BY <1>0, <2>1 DEF PeopleTypeOK
  <2>5. PeopleTypeOK'
    BY <1>0, <2>1, <2>2, <2>3 DEF PeopleTypeOK
  <2>6. RoleIsOwners' /\ MembersHaveAccounts'
    BY <1>0, <2>2, <2>3, <2>4 DEF RoleIsOwners, MembersHaveAccounts
  <2>7. QED
    BY <2>5, <2>6 DEF PeopleInv
<1>15. CASE PeopleRestart
  BY <1>0, <1>15 DEF PeopleRestart, PeopleInv, PeopleTypeOK, RoleIsOwners, MembersHaveAccounts
<1>16. CASE UNCHANGED peopleVars
  BY <1>0, <1>16 DEF peopleVars, PeopleInv, PeopleTypeOK, RoleIsOwners, MembersHaveAccounts
<1>17. QED
  <2>1. \E purpose \in Purposes : TRUE
    BY DEF Purposes
  <2>2. QED
    BY <1>1, <1>2, <1>3, <1>4, <1>5, <1>7, <1>8, <1>9, <1>10, <1>11, <1>12, <1>13, <1>14, <1>15,
       <1>16, <2>1
    DEF PeopleNext

---------------------------------------------------------------------------
(* Theorems *)

(* The inductive invariant of the people: signing up, creating, joining,   *)
(* changing roles and deleting leave the owner's role to the owner.        *)
THEOREM PeopleInvariance == PeopleSpec => []PeopleInv
BY PeopleInitInv, PeopleStepInv, PTL DEF PeopleSpec

(* Accounts, memberships, codes and what is under way stay well-formed.    *)
THEOREM PeopleTyped == PeopleSpec => []PeopleTypeOK
BY PeopleInvariance, PTL DEF PeopleInv

(* Only the organisation's owner ever rules it (role_service.assign,       *)
(* auto_add_on_verification, delete_user).                                 *)
THEOREM OwnerAlone == PeopleSpec => []OnlyOwnerRules
<1>1. PeopleInv => OnlyOwnerRules
  BY DEF PeopleInv, RoleIsOwners, MembersHaveAccounts, OnlyOwnerRules, ActiveAs
<1>2. QED
  BY PeopleInvariance, <1>1, PTL

---------------------------------------------------------------------------
(* How a member gets in: the account, its links and what is about to be    *)
(* written.                                                                *)

(* Students have no links; one who has an answer has a question.           *)
OfTheirKind ==
  way.kind = "student" => links = {} /\ (way.secret # "none" => way.asked)

(* What a request is about to write suits the member, and, unless somebody *)
(* has committed since it read, the account is as it found it.             *)
WaySound(w) ==
  /\ w.op \in {"box", "activate", "setup"} => way.kind = "staff"
  /\ w.op \in {"start", "give", "change", "recover"} => way.kind = "student" /\ w.secret # "keep"
  /\ w.op \in {"box", "correct"} => w.box \in Boxes
  /\ ~ w.met =>
       /\ w.op = "activate" => w.claim = way.box
       /\ w.op = "give" => w.must = "set" \/ way.must
       /\ w.op = "start" => w.secret = "own"
       /\ w.op = "change" => w.secret = "own" \/ (way.secret = "temporary" /\ ~ way.must)
       /\ w.op = "recover" => w.secret = "own" \/ way.secret = "temporary"
  /\ w.op = "give" => w.must # "clear"
  /\ w.op = "recover" => w.must = "keep"

WayInv == WayTypeOK /\ OfTheirKind /\ \A r \in WayReqs : WaySound(wayWork[r])

WayWorks ==
  [op : {"none", "box", "correct", "activate", "setup", "start", "give", "change", "recover"},
   box : Boxes \union {"none"}, secret : {"keep", "temporary", "own"},
   must : {"keep", "set", "clear"}, claim : Boxes \union {"none"}, met : BOOLEAN]

Ways ==
  [kind : {"staff", "student"}, box : Boxes, first : BOOLEAN, active : BOOLEAN,
   secret : {"none", "temporary", "own"}, asked : BOOLEAN, must : BOOLEAN]

(* What a step must leave: the invariant and the property.                 *)
WayKept ==
  /\ WayInv'
  /\ \A r \in WayReqs : Wrote(r) /\ wayWork[r].op = "activate" =>
       wayWork[r].claim = way'.box \/ wayWork[r].met
  /\ TemporaryMustGo => TemporaryMustGo' \/ \E r \in WayReqs : Wrote(r) /\ wayWork[r].met
  /\ SignsIn' => ShowsQuestion' /\ ShowsToReset'

LEMMA WayBegins == WayInit => WayInv
<1> SUFFICES ASSUME WayInit PROVE WayInv
  OBVIOUS
<1>1. NoWayWork \in WayWorks /\ NoWayWork.op = "none"
  BY DEF NoWayWork, WayWorks
<1>2. way \in Ways /\ links \subseteq [type : {"activate", "reset"}, claim : Boxes] /\ OfTheirKind
  <2>1. PICK box \in Boxes :
          \/ way = Created("staff", box) /\ links \in SUBSET {Link("activate", box)}
          \/ way = Created("student", box) /\ links = {}
    BY DEF WayInit
  <2>2. \A kind \in {"staff", "student"} :
          /\ Created(kind, box) \in Ways /\ Created(kind, box).kind = kind
          /\ kind = "student" => Created(kind, box).secret = "none"
    BY DEF Created, Ways
  <2>3. Link("activate", box) \in [type : {"activate", "reset"}, claim : Boxes]
    BY DEF Link
  <2>4. QED
    BY <2>1, <2>2, <2>3 DEF OfTheirKind
<1>3. wayWork \in [WayReqs -> WayWorks] /\ \A r \in WayReqs : wayWork[r].op = "none"
  BY <1>1 DEF WayInit
<1>4. WayTypeOK
  BY <1>2, <1>3 DEF WayTypeOK, Ways, WayWorks
<1>5. QED
  BY <1>2, <1>3, <1>4 DEF WayInv, WaySound

(* A request reads.                                                        *)
LEMMA WayAsked ==
  ASSUME WayInv, NEW r \in WayReqs, NEW w \in WayWorks, WaySound(w), w.op # "none", Reads(r, w)
  PROVE  WayKept
<1>1. UNCHANGED <<way, links>> /\ wayWork' = [wayWork EXCEPT ![r] = w]
  BY DEF Reads
<1>2. wayWork \in [WayReqs -> WayWorks]
  BY DEF WayInv, WayTypeOK, WayWorks
<1>3. \A q \in WayReqs : wayWork'[q] = wayWork[q] \/ wayWork'[q] = w
  BY <1>1, <1>2
<1>4. \A q \in WayReqs : WaySound(wayWork'[q])
  BY <1>3 DEF WayInv
<1>5. \A q \in WayReqs : WaySound(wayWork[q])'
  BY <1>1, <1>4 DEF WaySound
<1>6. WayTypeOK' /\ OfTheirKind'
  BY <1>1, <1>2 DEF WayInv, WayTypeOK, OfTheirKind, WayWorks
<1>7. SignsIn' => ShowsQuestion' /\ ShowsToReset'
  BY <1>6 DEF OfTheirKind, SignsIn, ShowsQuestion, ShowsToReset, Enrolled
<1>8. QED
  BY <1>1, <1>5, <1>6, <1>7 DEF WayKept, WayInv, Wrote, TemporaryMustGo

(* Nothing but links changes, or a request is dropped.                     *)
LEMMA WayQuiet ==
  ASSUME WayInv, way' = way,
         links' \subseteq [type : {"activate", "reset"}, claim : Boxes],
         way.kind = "student" => links' = {},
         UNCHANGED wayWork \/ \E r \in WayReqs : wayWork' = [wayWork EXCEPT ![r] = NoWayWork]
  PROVE  WayKept
<1>1. NoWayWork \in WayWorks /\ NoWayWork.op = "none"
  BY DEF NoWayWork, WayWorks
<1>2. wayWork \in [WayReqs -> WayWorks] /\ way \in Ways
  BY DEF WayInv, WayTypeOK, WayWorks, Ways
<1>3. wayWork' \in [WayReqs -> WayWorks]
      /\ \A q \in WayReqs : wayWork'[q] = wayWork[q] \/ wayWork'[q] = NoWayWork
  BY <1>1, <1>2
<1>4. \A q \in WayReqs : WaySound(wayWork'[q])
  BY <1>1, <1>3 DEF WayInv, WaySound
<1>5. \A q \in WayReqs : WaySound(wayWork[q])'
  BY <1>4 DEF WaySound
<1>6. WayTypeOK' /\ OfTheirKind'
  BY <1>2, <1>3 DEF WayInv, WayTypeOK, OfTheirKind, WayWorks, Ways
<1>7. SignsIn' => ShowsQuestion' /\ ShowsToReset'
  BY <1>6 DEF OfTheirKind, SignsIn, ShowsQuestion, ShowsToReset, Enrolled
<1>8. QED
  BY <1>5, <1>6, <1>7 DEF WayKept, WayInv, Wrote, TemporaryMustGo

(* A commit that leaves the kind of member, and what others are about to   *)
(* do, as they were.                                                       *)
LEMMA WayOthers ==
  ASSUME WayInv, NEW r, NEW new \in Ways, new.kind = way.kind, Writes(r, new)
  PROVE  /\ way' = new /\ wayWork' \in [WayReqs -> WayWorks]
         /\ \A q \in WayReqs : WaySound(wayWork[q])'
         /\ \A q \in WayReqs : Wrote(q) => q = r
<1>1. way' = new
      /\ wayWork' = [q \in WayReqs |->
           IF q = r \/ wayWork[q].op = "none" THEN NoWayWork ELSE [wayWork[q] EXCEPT !.met = TRUE]]
  BY DEF Writes
<1>2. wayWork \in [WayReqs -> WayWorks]
  BY DEF WayInv, WayTypeOK, WayWorks
<1>3. NoWayWork \in WayWorks /\ NoWayWork.op = "none"
  BY DEF NoWayWork, WayWorks
<1>4. ASSUME NEW q \in WayReqs
      PROVE  wayWork'[q] \in WayWorks /\ WaySound(wayWork[q])' /\ (Wrote(q) => q = r)
  <2>1. CASE q = r \/ wayWork[q].op = "none"
    <3>1. wayWork'[q] = NoWayWork
      BY <1>1, <2>1
    <3>2. QED
      BY <1>3, <2>1, <3>1 DEF WaySound, Wrote
  <2>2. CASE ~ (q = r \/ wayWork[q].op = "none")
    <3> DEFINE w == [wayWork[q] EXCEPT !.met = TRUE]
    <3>1. wayWork'[q] = w
      BY <1>1, <2>2
    <3>2. wayWork[q] \in WayWorks
      BY <1>2
    <3>3. w \in WayWorks /\ w.met /\ w.op = wayWork[q].op /\ w.secret = wayWork[q].secret
          /\ w.box = wayWork[q].box /\ w.must = wayWork[q].must
      BY <3>2 DEF WayWorks
    <3>4. WaySound(wayWork[q])
      BY DEF WayInv
    <3> HIDE DEF w
    <3>5. WaySound(wayWork[q])'
      BY <1>1, <3>1, <3>3, <3>4 DEF WaySound
    <3>6. QED
      BY <2>2, <3>1, <3>3, <3>5 DEF Wrote
  <2>3. QED
    BY <2>1, <2>2
<1>5. wayWork' \in [WayReqs -> WayWorks]
  BY <1>1, <1>4
<1>6. QED
  BY <1>1, <1>4, <1>5

(* A commit of a member's new account.                                     *)
LEMMA WayWritten ==
  ASSUME WayInv, NEW r, NEW new \in Ways, new.kind = way.kind, Writes(r, new),
         links' \subseteq [type : {"activate", "reset"}, claim : Boxes],
         way.kind = "student" => links' = {},
         new.kind = "student" /\ new.secret # "none" => new.asked,
         r \in WayReqs /\ wayWork[r].op = "activate" /\ ~ wayWork[r].met => wayWork[r].claim = new.box,
         \/ TemporaryMustGo => (new.kind = "student" /\ new.secret = "temporary" => new.must)
         \/ r \in WayReqs /\ wayWork[r].met /\ wayWork[r].op # "none"
  PROVE  WayKept
<1>1. /\ way' = new /\ wayWork' \in [WayReqs -> WayWorks]
      /\ \A q \in WayReqs : WaySound(wayWork[q])'
      /\ \A q \in WayReqs : Wrote(q) => q = r
  BY WayOthers
<1>2. WayTypeOK' /\ OfTheirKind'
  BY <1>1 DEF WayTypeOK, OfTheirKind, WayWorks, Ways
<1>3. SignsIn' => ShowsQuestion' /\ ShowsToReset'
  BY <1>2 DEF OfTheirKind, SignsIn, ShowsQuestion, ShowsToReset, Enrolled
<1>4. \A q \in WayReqs : Wrote(q) /\ wayWork[q].op = "activate" =>
        wayWork[q].claim = way'.box \/ wayWork[q].met
  BY <1>1 DEF Wrote
<1>5. TemporaryMustGo => TemporaryMustGo' \/ \E q \in WayReqs : Wrote(q) /\ wayWork[q].met
  <2>1. CASE TemporaryMustGo => (new.kind = "student" /\ new.secret = "temporary" => new.must)
    BY <1>1, <2>1 DEF TemporaryMustGo
  <2>2. CASE r \in WayReqs /\ wayWork[r].met /\ wayWork[r].op # "none"
    <3>1. wayWork'[r].op = "none"
      BY <2>2 DEF Writes, NoWayWork
    <3>2. CASE way' = way
      BY <3>2 DEF TemporaryMustGo
    <3>3. CASE way' # way
      BY <2>2, <3>1, <3>3 DEF Wrote
    <3>4. QED
      BY <3>2, <3>3
  <2>3. QED
    BY <2>1, <2>2
<1>6. QED
  BY <1>1, <1>2, <1>3, <1>4, <1>5 DEF WayKept, WayInv

---------------------------------------------------------------------------
LEMMA LinkMade ==
  ASSUME WayInv, NEW type \in {"activate", "reset"}, NEW box \in Boxes, Mints(type, box)
  PROVE  links' \subseteq [type : {"activate", "reset"}, claim : Boxes]
BY DEF WayInv, WayTypeOK, Mints, Link

LEMMA WayReads ==
  ASSUME WayInv, NEW r \in WayReqs,
         \/ \E box \in Boxes : AskBox(r, box) \/ AskCorrection(r, box)
         \/ \E l \in links : AskActivate(r, l)
         \/ \E answer \in {"own", "temporary"} : AskNewAnswer(r, answer) \/ AskRecover(r, answer)
         \/ AskSetup(r) \/ AskFirstLogin(r) \/ AskGive(r)
  PROVE  WayKept
<1> USE DEF NoWayWork, WayWorks, WaySound
<1>0. way.box \in Boxes /\ way.must \in BOOLEAN
      /\ links \subseteq [type : {"activate", "reset"}, claim : Boxes]
  BY DEF WayInv, WayTypeOK
<1>1. ASSUME NEW box \in Boxes, AskBox(r, box) PROVE WayKept
  <2> DEFINE w == [NoWayWork EXCEPT !.op = "box", !.box = box]
  <2>1. Reads(r, w) /\ way.kind = "staff"
    BY <1>1 DEF AskBox, Waiting
  <2>2. w \in WayWorks /\ WaySound(w) /\ w.op # "none"
    BY <2>1
  <2>3. QED
    BY <2>1, <2>2, WayAsked
<1>2. ASSUME NEW box \in Boxes, AskCorrection(r, box) PROVE WayKept
  <2> DEFINE w == [NoWayWork EXCEPT !.op = "correct", !.box = box]
  <2>1. Reads(r, w)
    BY <1>2 DEF AskCorrection
  <2>2. w \in WayWorks /\ WaySound(w) /\ w.op # "none"
    OBVIOUS
  <2>3. QED
    BY <2>1, <2>2, WayAsked
<1>3. ASSUME NEW l \in links, AskActivate(r, l) PROVE WayKept
  <2> DEFINE w == [NoWayWork EXCEPT !.op = "activate", !.claim = l.claim]
  <2>1. Reads(r, w) /\ way.kind = "staff" /\ l.claim = way.box
    BY <1>3 DEF AskActivate, Follows
  <2>2. w \in WayWorks /\ WaySound(w) /\ w.op # "none"
    BY <1>0, <2>1
  <2>3. QED
    BY <2>1, <2>2, WayAsked
<1>4. ASSUME NEW answer \in {"own", "temporary"}, AskNewAnswer(r, answer) PROVE WayKept
  <2> DEFINE w == [NoWayWork EXCEPT !.op = "change", !.secret = answer,
                     !.must = IF way.must THEN "clear" ELSE "keep"]
  <2>1. Reads(r, w) /\ way.kind = "student"
        /\ (answer = "temporary" => way.secret = "temporary" /\ ~ way.must)
    BY <1>4 DEF AskNewAnswer, Enrolled, NewAnswers, MayChangeTo
  <2>2. w.must \in {"clear", "keep"}
    OBVIOUS
  <2>3. w.op = "change" /\ w.secret = answer /\ w.box = "none" /\ w.claim = "none" /\ w.met = FALSE
    OBVIOUS
  <2>4. w \in WayWorks
    BY <2>2
  <2> HIDE DEF w
  <2>5. WaySound(w) /\ w.op # "none"
    BY <2>1, <2>3, <2>4
  <2>6. QED
    BY <2>1, <2>4, <2>5, WayAsked
<1>5. ASSUME NEW answer \in {"own", "temporary"}, AskRecover(r, answer) PROVE WayKept
  <2> DEFINE w == [NoWayWork EXCEPT !.op = "recover", !.secret = answer]
  <2>1. Reads(r, w) /\ way.kind = "student" /\ (answer = "temporary" => way.secret = "temporary")
    BY <1>5 DEF AskRecover, Enrolled, NewAnswers
  <2>2. w \in WayWorks /\ WaySound(w) /\ w.op # "none"
    BY <2>1
  <2>3. QED
    BY <2>1, <2>2, WayAsked
<1>6. CASE AskSetup(r)
  <2> DEFINE w == [NoWayWork EXCEPT !.op = "setup"]
  <2>1. Reads(r, w) /\ way.kind = "staff"
    BY <1>6 DEF AskSetup
  <2>2. w \in WayWorks /\ WaySound(w) /\ w.op # "none"
    BY <2>1
  <2>3. QED
    BY <2>1, <2>2, WayAsked
<1>7. CASE AskFirstLogin(r)
  <2> DEFINE w == [NoWayWork EXCEPT !.op = "start", !.secret = "own"]
  <2>1. Reads(r, w) /\ way.kind = "student"
    BY <1>7 DEF AskFirstLogin
  <2>2. w \in WayWorks /\ WaySound(w) /\ w.op # "none"
    BY <2>1
  <2>3. QED
    BY <2>1, <2>2, WayAsked
<1>8. CASE AskGive(r)
  <2> DEFINE w == [NoWayWork EXCEPT !.op = "give", !.secret = "temporary",
                     !.must = IF way.must THEN "keep" ELSE "set"]
  <2>1. Reads(r, w) /\ way.kind = "student"
    BY <1>8 DEF AskGive, Enrolled
  <2>2. w \in WayWorks /\ WaySound(w) /\ w.op # "none"
    BY <2>1
  <2>3. QED
    BY <2>1, <2>2, WayAsked
<1>9. QED
  BY <1>1, <1>2, <1>3, <1>4, <1>5, <1>6, <1>7, <1>8

(* Staff, or an address, are written.                                      *)
LEMMA StaffWritten ==
  ASSUME WayInv, NEW r \in WayReqs,
         CommitBox(r) \/ CommitCorrection(r) \/ CommitActivate(r) \/ CommitSetup(r)
  PROVE  WayKept
<1>0. way \in Ways /\ wayWork[r] \in WayWorks /\ WaySound(wayWork[r]) /\ OfTheirKind
      /\ links \subseteq [type : {"activate", "reset"}, claim : Boxes]
  BY DEF WayInv, WayTypeOK, WayWorks, Ways
<1>1. ASSUME wayWork[r].op \in {"box", "correct"},
             Writes(r, [way EXCEPT !.box = wayWork[r].box]),
             UNCHANGED links \/ (wayWork[r].op = "box" /\ Mints("activate", wayWork[r].box))
      PROVE  WayKept
  <2> DEFINE new == [way EXCEPT !.box = wayWork[r].box]
  <2>1. wayWork[r].box \in Boxes
    BY <1>0, <1>1 DEF WaySound
  <2>2. new \in Ways /\ new.kind = way.kind /\ new.secret = way.secret
        /\ new.asked = way.asked /\ new.must = way.must
    BY <1>0, <2>1 DEF Ways
  <2>3. links' \subseteq [type : {"activate", "reset"}, claim : Boxes]
    BY <1>0, <1>1, <2>1, LinkMade
  <2>4. way.kind = "student" => links' = {}
    BY <1>0, <1>1 DEF WaySound, OfTheirKind
  <2>5. new.kind = "student" /\ new.secret # "none" => new.asked
    BY <1>0, <2>2 DEF OfTheirKind
  <2>6. Writes(r, new)
    BY <1>1
  <2> HIDE DEF new
  <2>7. TemporaryMustGo => (new.kind = "student" /\ new.secret = "temporary" => new.must)
    BY <2>2 DEF TemporaryMustGo
  <2>8. QED
    BY <1>1, <2>2, <2>3, <2>4, <2>5, <2>6, <2>7, WayWritten
<1>2. ASSUME way.kind = "staff", UNCHANGED links, NEW new \in Ways, new.kind = "staff", new.box = way.box,
             Writes(r, new)
      PROVE  WayKept
  <2>1. wayWork[r].op = "activate" /\ ~ wayWork[r].met => wayWork[r].claim = new.box
    BY <1>0, <1>2 DEF WaySound
  <2>2. QED
    BY <1>0, <1>2, <2>1, WayWritten
<1>3. CASE CommitBox(r) \/ CommitCorrection(r)
  <2>1. CASE CommitBox(r)
    BY <1>1, <2>1 DEF CommitBox
  <2>2. CASE CommitCorrection(r)
    BY <1>1, <2>2 DEF CommitCorrection
  <2>3. QED
    BY <1>3, <2>1, <2>2
<1>4. CASE CommitActivate(r)
  <2> DEFINE new == [way EXCEPT !.first = FALSE, !.active = TRUE, !.secret = "own"]
  <2>1. way.kind = "staff" /\ Writes(r, new) /\ UNCHANGED links
    BY <1>0, <1>4 DEF CommitActivate, WaySound
  <2>2. new \in Ways /\ new.kind = way.kind /\ new.box = way.box
    BY <1>0 DEF Ways
  <2> HIDE DEF new
  <2>3. QED
    BY <1>2, <2>1, <2>2
<1>5. CASE CommitSetup(r)
  <2> DEFINE new == [way EXCEPT !.first = FALSE, !.secret = "own"]
  <2>1. way.kind = "staff" /\ Writes(r, new) /\ UNCHANGED links
    BY <1>0, <1>5 DEF CommitSetup, WaySound
  <2>2. new \in Ways /\ new.kind = way.kind /\ new.box = way.box
    BY <1>0 DEF Ways
  <2> HIDE DEF new
  <2>3. QED
    BY <1>2, <2>1, <2>2
<1>6. QED
  BY <1>3, <1>4, <1>5

(* A student's answer is written. It is a lasting one, or a temporary one  *)
(* that is to be changed, or that was not before.                          *)
LEMMA AnswerWritten ==
  ASSUME WayInv, NEW r \in WayReqs, CommitAnswer(r)
  PROVE  WayKept
<1> DEFINE w == wayWork[r]
<1> DEFINE new == [way EXCEPT
       !.secret = w.secret, !.asked = TRUE,
       !.must   = IF w.must = "keep" THEN @ ELSE w.must = "set",
       !.first  = @ /\ w.op # "start",
       !.active = @ \/ w.op = "start"]
<1>1. way \in Ways /\ w \in WayWorks /\ WaySound(w) /\ OfTheirKind
      /\ links \subseteq [type : {"activate", "reset"}, claim : Boxes]
  BY DEF WayInv, WayTypeOK, WayWorks, Ways
<1>2. w.op \in {"start", "give", "change", "recover"} /\ Writes(r, new) /\ UNCHANGED links
  BY DEF CommitAnswer
<1>3. way.kind = "student" /\ w.secret \in {"own", "temporary"}
  BY <1>1, <1>2 DEF WaySound, WayWorks
<1>4. new \in Ways /\ new.kind = way.kind /\ new.secret = w.secret /\ new.asked
      /\ (w.must = "keep" => new.must = way.must) /\ (w.must = "set" => new.must)
  BY <1>1, <1>3 DEF Ways
<1> HIDE DEF new
<1>5. CASE ~ w.met
  <2>1. TemporaryMustGo => (new.kind = "student" /\ new.secret = "temporary" => new.must)
    BY <1>1, <1>2, <1>3, <1>4, <1>5 DEF TemporaryMustGo, WaySound, WayWorks
  <2>2. QED
    BY <1>1, <1>2, <1>3, <1>4, <2>1, WayWritten DEF OfTheirKind
<1>6. CASE w.met
  BY <1>1, <1>2, <1>3, <1>4, <1>6, WayWritten DEF OfTheirKind
<1>7. QED
  BY <1>5, <1>6

LEMMA WayStays ==
  ASSUME WayInv, [WayNext]_wayVars
  PROVE  WayKept
<1>0. way \in Ways /\ way.box \in Boxes /\ OfTheirKind
      /\ links \subseteq [type : {"activate", "reset"}, claim : Boxes]
  BY DEF WayInv, WayTypeOK, Ways
<1>1. ASSUME NEW r \in WayReqs, DropWay(r) PROVE WayKept
  BY <1>0, <1>1, WayQuiet DEF DropWay, OfTheirKind
<1>2. ASSUME way.kind = "staff", Mints("activate", way.box) \/ Mints("reset", way.box),
             UNCHANGED <<way, wayWork>>
      PROVE  WayKept
  <2>1. links' \subseteq [type : {"activate", "reset"}, claim : Boxes]
    BY <1>0, <1>2, LinkMade
  <2>2. QED
    BY <1>2, <2>1, WayQuiet
<1>3. CASE ResendActivation \/ AdminResendActivation \/ Forgot
  BY <1>2, <1>3
  DEF ResendActivation, AdminResendActivation, Forgot, SendsActivation, Waiting
<1>4. ASSUME NEW l \in links, ResetPassword(l) PROVE WayKept
  <2> DEFINE new == [way EXCEPT !.secret = "own"]
  <2>1. way.kind = "staff"
    BY <1>0, <1>4 DEF OfTheirKind, Ways
  <2>2. new \in Ways /\ new.kind = way.kind /\ new.box = way.box
    BY <1>0 DEF Ways
  <2>3. Writes("nobody", new) /\ UNCHANGED links
    BY <1>4 DEF ResetPassword
  <2> HIDE DEF new
  <2>4. \A r \in WayReqs : WaySound(wayWork[r])
    BY DEF WayInv
  <2>5. "nobody" \in WayReqs /\ wayWork["nobody"].op = "activate" /\ ~ wayWork["nobody"].met =>
          wayWork["nobody"].claim = new.box
    BY <2>2, <2>4 DEF WaySound
  <2>6. QED
    BY <1>0, <2>1, <2>2, <2>3, <2>5, WayWritten
<1>5. ASSUME NEW l \in links, Expires(l) PROVE WayKept
  BY <1>0, <1>5, WayQuiet DEF Expires, OfTheirKind
<1>6. CASE UNCHANGED wayVars
  BY <1>0, <1>6, WayQuiet DEF wayVars, OfTheirKind
<1>7. QED
  BY <1>1, <1>3, <1>4, <1>5, <1>6, WayReads, StaffWritten, AnswerWritten DEF WayNext

(* However many requests overlap, what a request is about to write fits    *)
(* the account it read.                                                    *)
THEOREM WayInvariance == WaySpec => []WayInv
<1>1. WayInv /\ [WayNext]_wayVars => WayInv'
  BY WayStays DEF WayKept
<1>2. QED
  BY <1>1, WayBegins, PTL DEF WaySpec

(* The account, its links and its requests stay well-formed.               *)
THEOREM WaysTyped == WaySpec => []WayTypeOK
<1>1. WayInv => WayTypeOK
  BY DEF WayInv
<1>2. QED
  BY <1>1, WayInvariance, PTL

(* For any number of requests in flight: a link works for the address the  *)
(* account has, a temporary answer does not become a lasting one, and who  *)
(* can sign in is shown the question (users.py, token_activation.py).      *)
THEOREM CredentialsStayKept == WaySpec => CredentialsKept
<1>1. WayInv /\ [WayNext]_wayVars =>
        [ /\ \A r \in WayReqs : Wrote(r) /\ wayWork[r].op = "activate" =>
               wayWork[r].claim = way'.box \/ wayWork[r].met
          /\ TemporaryMustGo => TemporaryMustGo' \/ \E r \in WayReqs : Wrote(r) /\ wayWork[r].met
          /\ SignsIn' => ShowsQuestion' /\ ShowsToReset' ]_wayVars
  BY WayStays DEF WayKept
<1>2. QED
  BY <1>1, WayInvariance, PTL DEF WaySpec, CredentialsKept

---------------------------------------------------------------------------
(* The tokens: what is blacklisted stays so until its last second, and a   *)
(* token somebody is about to revoke is not taken for a new one.           *)

Tokens == [org : Orgs \union {"none"}, life : Nat, block : Nat]

Signings ==
  [at : Stages, org : Orgs \union {"none"},
   access : TokenIds \union {NoId}, refresh : TokenIds \union {NoId}, ttl : Nat]

(* A blacklist entry that is there goes in the token's last second. *)
EntryLasts(k) == k.block > 0 => k.life < k.block + Second

(* Of no more use, but for the last second. *)
WasGone(t) == token[t].block > 0 \/ token[t].life < Second

(* The access token goes first, and what is left to revoke of the refresh  *)
(* token is no longer than was reckoned.                                   *)
SigningSound(s) ==
  /\ s.at \in {"switch", "revoke", "revokeRefresh", "logout"} =>
       s.access \in TokenIds /\ s.refresh \in TokenIds
  /\ s.at \in {"revokeRefresh", "logout"} => WasGone(s.access)
  /\ s.at = "logout" => token[s.refresh].life < s.ttl * Second + Second

SessionInv ==
  /\ SessionTypeOK
  /\ token \in [TokenIds -> Tokens] /\ signing \in [SessionReqs -> Signings]
  /\ \A t \in TokenIds : EntryLasts(token[t])
  /\ \A r \in SessionReqs : SigningSound(signing[r])

(* What a step does to a token: an entry goes late, and a token somebody   *)
(* has in hand only gets older.                                            *)
Older(t) ==
  /\ token'[t] \in Tokens /\ EntryLasts(token'[t])
  /\ token[t].block > 0 /\ token'[t].block = 0 => token'[t].life < Second
  /\ t \in Named => token'[t].life <= token[t].life /\ (WasGone(t) => Gone(t))

SessionKept ==
  /\ SessionInv'
  /\ \A t \in TokenIds :
       token[t].block > 0 /\ token'[t].block = 0 => token'[t].life < Second
  /\ \A r \in SessionReqs : RevokeRefresh(r) \/ LogoutRefresh(r) =>
       Gone(signing[r].access) /\ Gone(signing[r].refresh)

LEMMA LifeMade ==
  ASSUME NEW n \in Nat \ {0}, NEW p \in 0..(Second - 1)
  PROVE  n * Second - p \in Nat /\ n * Second - p > 0
<1>1. Second \in Nat /\ Second >= 1
  BY SecondAssumption
<1>2. n * Second >= Second
  BY <1>1
<1>3. n * Second \in Nat
  BY <1>1
<1>4. QED
  BY <1>1, <1>2, <1>3

LEMMA WholeSeconds ==
  ASSUME NEW n \in Nat
  PROVE  /\ n \div Second \in Nat
         /\ (n \div Second) * Second \in Nat
         /\ n < (n \div Second) * Second + Second
BY SecondAssumption

LEMMA SomeSeconds ==
  ASSUME NEW n \in Nat \ {0}
  PROVE  n * Second \in Nat /\ n * Second > 0
BY SecondAssumption

LEMMA SessionBegins == SessionInit => SessionInv
<1> SUFFICES ASSUME SessionInit PROVE SessionInv
  OBVIOUS
<1>1. NoToken \in Tokens /\ NoToken.block = 0 /\ NoSigning \in Signings /\ NoSigning.at = "idle"
  BY DEF NoToken, Tokens, NoSigning, Signings, Stages
<1>2. token \in [TokenIds -> Tokens] /\ signing \in [SessionReqs -> Signings]
      /\ (\A t \in TokenIds : token[t].block = 0) /\ \A r \in SessionReqs : signing[r].at = "idle"
  BY <1>1 DEF SessionInit
<1>3. SessionTypeOK
  BY <1>2, SecondAssumption DEF SessionInit, SessionTypeOK, Tokens, Signings
<1>4. QED
  BY <1>2, <1>3 DEF SessionInv, EntryLasts, SigningSound

(* Every token gets no younger, and every request goes on from where it    *)
(* was, or comes to where it should be.                                    *)
LEMMA SessionMoves ==
  ASSUME SessionInv, joined' \subseteq Orgs, phase' \in 0..(Second - 1),
         token' \in [TokenIds -> Tokens], \A t \in TokenIds : Older(t),
         signing' \in [SessionReqs -> Signings],
         \A r \in SessionReqs : signing'[r] = signing[r] \/ SigningSound(signing[r])'
  PROVE  SessionInv'
<1>1. ASSUME NEW r \in SessionReqs, NEW s, s = signing[r] PROVE SigningSound(s)'
  <2>1. SigningSound(s) /\ s \in Signings
    BY <1>1 DEF SessionInv
  <2>2. s.access \in Named /\ s.refresh \in Named
    BY <1>1 DEF Named
  <2>3. CASE s.at \in {"switch", "revoke", "revokeRefresh", "logout"}
    <3>1. s.access \in TokenIds /\ s.refresh \in TokenIds
      BY <2>1, <2>3 DEF SigningSound
    <3>2. Older(s.access) /\ Older(s.refresh)
      BY <3>1
    <3>3. WasGone(s.access) => Gone(s.access)
      BY <2>2, <3>2 DEF Older
    <3>4. token'[s.refresh].life <= token[s.refresh].life
      BY <2>2, <3>2 DEF Older
    <3>5. token'[s.refresh].life \in Int /\ token[s.refresh].life \in Int
      BY <3>1 DEF SessionInv, Tokens
    <3>6. s.ttl * Second + Second \in Int
      BY <2>1, SecondAssumption DEF Signings
    <3>7. s.at = "logout" => token'[s.refresh].life < s.ttl * Second + Second
      BY <2>1, <3>4, <3>5, <3>6 DEF SigningSound
    <3>8. WasGone(s.access)' <=> Gone(s.access)
      BY DEF WasGone, Gone
    <3>9. QED
      BY <2>1, <3>1, <3>3, <3>7, <3>8 DEF SigningSound
  <2>4. QED
    BY <2>3 DEF SigningSound
<1>2. \A r \in SessionReqs : SigningSound(signing[r])'
  <2> SUFFICES ASSUME NEW r \in SessionReqs PROVE SigningSound(signing[r])'
    OBVIOUS
  <2>1. CASE signing'[r] = signing[r]
    <3>1. PICK s : s = signing[r]
      OBVIOUS
    <3>2. SigningSound(s)' /\ signing'[r] = s
      BY <1>1, <2>1, <3>1
    <3>3. QED
      BY <3>2 DEF SigningSound, WasGone
  <2>2. QED
    BY <2>1
<1>3. \A t \in TokenIds : EntryLasts(token'[t])
  BY DEF Older
<1>4. SessionTypeOK'
  BY DEF SessionTypeOK, Tokens, Signings
<1>5. QED
  BY <1>2, <1>3, <1>4 DEF SessionInv, EntryLasts, Tokens, Signings, TokenIds

(* Nothing happens to the tokens. *)
LEMMA TokensRest ==
  ASSUME SessionInv, token' = token
  PROVE  token' \in [TokenIds -> Tokens] /\ \A t \in TokenIds : Older(t)
BY DEF SessionInv, Older, WasGone, Gone, EntryLasts, Tokens

(* A token that nobody uses becomes a new one. *)
LEMMA TokenMade ==
  ASSUME SessionInv, NEW org \in joined, NEW life \in Nat \ {0}
  PROVE  Made(org, life) \in Tokens /\ EntryLasts(Made(org, life))
<1>1. org \in Orgs /\ phase \in 0..(Second - 1)
  BY DEF SessionInv, SessionTypeOK
<1>2. life * Second - phase \in Nat
  BY <1>1, LifeMade
<1>3. QED
  BY <1>1, <1>2 DEF Made, Tokens, EntryLasts

LEMMA TokensMade ==
  ASSUME SessionInv, NEW S \in SUBSET TokenIds, token' \in [TokenIds -> Tokens],
         \A t \in TokenIds : t \notin S => token'[t] = token[t],
         \A t \in S : token[t] = NoToken /\ t \notin Named /\ EntryLasts(token'[t])
  PROVE  \A t \in TokenIds : Older(t)
<1> SUFFICES ASSUME NEW t \in TokenIds PROVE Older(t)
  OBVIOUS
<1>1. CASE t \in S
  BY <1>1 DEF Older, NoToken
<1>2. CASE t \notin S
  BY <1>2 DEF SessionInv, Older, WasGone, Gone, Tokens
<1>3. QED
  BY <1>1, <1>2

LEMMA PairMade ==
  ASSUME SessionInv, NEW org \in joined, MakePair(org)
  PROVE  token' \in [TokenIds -> Tokens] /\ \A t \in TokenIds : Older(t)
<1>1. PICK a \in Lowest(Unused("access")), b \in Lowest(Unused("refresh")) :
        token' = [token EXCEPT ![a] = Made(org, AccessLife), ![b] = Made(org, RefreshLife)]
  BY DEF MakePair
<1>2. /\ a \in TokenIds /\ token[a] = NoToken /\ a \notin Named
      /\ b \in TokenIds /\ token[b] = NoToken /\ b \notin Named
  BY DEF Lowest, Unused
<1>3. /\ Made(org, AccessLife) \in Tokens /\ EntryLasts(Made(org, AccessLife))
      /\ Made(org, RefreshLife) \in Tokens /\ EntryLasts(Made(org, RefreshLife))
  BY TokenMade, LivesAssumption
<1>4. token \in [TokenIds -> Tokens]
  BY DEF SessionInv
<1>5. /\ token' \in [TokenIds -> Tokens]
      /\ \A t \in TokenIds : t \notin {a, b} => token'[t] = token[t]
      /\ \A t \in {a, b} : token'[t] \in {Made(org, AccessLife), Made(org, RefreshLife)}
  BY <1>1, <1>2, <1>3, <1>4
<1>6. \A t \in {a, b} : token[t] = NoToken /\ t \notin Named /\ EntryLasts(token'[t])
  BY <1>2, <1>3, <1>5
<1>7. {a, b} \in SUBSET TokenIds
  BY <1>2
<1>8. QED
  BY <1>5, <1>6, <1>7, TokensMade

(* An entry for no shorter than what is left of the token, in seconds. *)
LEMMA Blacklisted ==
  ASSUME SessionInv, NEW t \in TokenIds, NEW ttl \in Nat,
         token[t].life < ttl * Second + Second, Blacklist(t, ttl)
  PROVE  /\ token' \in [TokenIds -> Tokens] /\ \A u \in TokenIds : Older(u)
         /\ Gone(t)
         /\ \A u \in TokenIds : (WasGone(u) => Gone(u)) /\ token'[u].life = token[u].life
<1>1. token \in [TokenIds -> Tokens] /\ Second \in Nat /\ Second > 0
      /\ \A u \in TokenIds : EntryLasts(token[u])
  BY SecondAssumption DEF SessionInv
<1>2. CASE token[t] = NoToken \/ ttl = 0
  <2>1. token' = token
    BY <1>2 DEF Blacklist
  <2>2. token[t].life < Second
    BY <1>1, <1>2 DEF NoToken
  <2>3. QED
    BY <2>1, <2>2, TokensRest DEF Gone, WasGone
<1>3. CASE token[t] # NoToken /\ ttl # 0
  <2>1. token' = [token EXCEPT ![t].block = ttl * Second]
    BY <1>3 DEF Blacklist
  <2>2. ttl * Second \in Nat /\ ttl * Second > 0
    BY <1>3, SomeSeconds
  <2>3. token' \in [TokenIds -> Tokens]
    BY <1>1, <2>1, <2>2 DEF Tokens
  <2>4. /\ token'[t].block = ttl * Second /\ token'[t].life = token[t].life
        /\ \A u \in TokenIds : u # t => token'[u] = token[u]
    BY <1>1, <2>1 DEF Tokens
  <2>5. ASSUME NEW u \in TokenIds
        PROVE  Older(u) /\ (WasGone(u) => Gone(u)) /\ token'[u].life = token[u].life
    <3>1. CASE u = t
      BY <1>1, <2>2, <2>3, <2>4, <3>1 DEF Older, WasGone, Gone, EntryLasts, Tokens
    <3>2. CASE u # t
      BY <1>1, <2>4, <3>2 DEF Older, WasGone, Gone, Tokens
    <3>3. QED
      BY <3>1, <3>2
  <2>6. QED
    BY <2>2, <2>3, <2>4, <2>5 DEF Gone
<1>4. QED
  BY <1>2, <1>3

LEMMA Reckoned ==
  ASSUME SessionInv, NEW t \in TokenIds
  PROVE  Ttl(t) \in Nat /\ token[t].life < Ttl(t) * Second + Second
<1>1. token[t].life \in Nat
  BY DEF SessionInv, Tokens
<1>2. QED
  BY <1>1, WholeSeconds DEF Ttl

---------------------------------------------------------------------------
(* What every step does: the tokens get older, the requests follow.        *)
SessionAged == SessionInv' /\ \A t \in TokenIds : Older(t)

(* A request goes on, tokens are left alone or made.                       *)
LEMMA SigningMoves ==
  ASSUME SessionInv, NEW r \in SessionReqs, NEW s \in Signings, SigningSound(s)',
         signing' = [signing EXCEPT ![r] = s], UNCHANGED <<joined, phase>>,
         token' \in [TokenIds -> Tokens], \A t \in TokenIds : Older(t)
  PROVE  SessionAged
<1>1. signing \in [SessionReqs -> Signings] /\ joined \subseteq Orgs /\ phase \in 0..(Second - 1)
  BY DEF SessionInv, SessionTypeOK
<1>2. signing' \in [SessionReqs -> Signings]
      /\ \A q \in SessionReqs : signing'[q] = signing[q] \/ signing'[q] = s
  BY <1>1
<1>3. ASSUME NEW q \in SessionReqs, signing'[q] = s PROVE SigningSound(signing[q])'
  BY <1>3 DEF SigningSound, WasGone
<1>4. QED
  BY <1>1, <1>2, <1>3, SessionMoves DEF SessionAged

LEMMA SessionIdle ==
  ASSUME SessionInv, NEW r \in SessionReqs, Answered(r), UNCHANGED <<joined, phase>>,
         token' \in [TokenIds -> Tokens], \A t \in TokenIds : Older(t)
  PROVE  SessionAged
<1>1. NoSigning \in Signings /\ SigningSound(NoSigning)'
  BY DEF NoSigning, Signings, SigningSound, Stages
<1>2. QED
  BY <1>1, SigningMoves DEF Answered

LEMMA SignedIn ==
  ASSUME SessionInv, NEW r \in SessionReqs, SignIn(r)
  PROVE  SessionAged
<1>1. PICK preferred \in Orgs \union {"none"} : \E org \in Pick(preferred) : MakePair(org)
  BY DEF SignIn
<1>2. PICK org \in Pick(preferred) : MakePair(org)
  BY <1>1
<1>3. org \in joined
  BY DEF Pick
<1>4. token' \in [TokenIds -> Tokens] /\ \A t \in TokenIds : Older(t)
  BY <1>2, <1>3, PairMade
<1>5. UNCHANGED <<joined, phase, signing>>
  BY DEF SignIn
<1>6. QED
  BY <1>4, <1>5, SessionMoves DEF SessionAged, SessionInv, SessionTypeOK

LEMMA Refreshed ==
  ASSUME SessionInv, NEW r \in SessionReqs,
         RefreshMake(r) \/ \E t \in TokenIds : RefreshCheck(r, t)
  PROVE  SessionAged
<1>1. signing \in [SessionReqs -> Signings] /\ token \in [TokenIds -> Tokens]
  BY DEF SessionInv
<1>2. CASE RefreshMake(r)
  <2>1. PICK org \in Pick(signing[r].org), t \in Lowest(Unused("access")) :
          token' = [token EXCEPT ![t] = Made(org, AccessLife)]
    BY <1>2 DEF RefreshMake
  <2>2. org \in joined /\ t \in TokenIds /\ token[t] = NoToken /\ t \notin Named
    BY DEF Pick, Lowest, Unused
  <2>3. Made(org, AccessLife) \in Tokens /\ EntryLasts(Made(org, AccessLife))
    BY <2>2, TokenMade, LivesAssumption
  <2>4. /\ token' \in [TokenIds -> Tokens] /\ token'[t] = Made(org, AccessLife)
        /\ \A u \in TokenIds : u \notin {t} => token'[u] = token[u]
    BY <1>1, <2>1, <2>2, <2>3
  <2>5. {t} \in SUBSET TokenIds /\ \A u \in {t} : token[u] = NoToken /\ u \notin Named /\ EntryLasts(token'[u])
    BY <2>2, <2>3, <2>4
  <2>6. \A u \in TokenIds : Older(u)
    BY <2>4, <2>5, TokensMade
  <2>7. Answered(r) /\ UNCHANGED <<joined, phase>> /\ signing[r].at = "load"
    BY <1>2 DEF RefreshMake
  <2>8. QED
    BY <2>4, <2>6, <2>7, SessionIdle
<1>3. ASSUME NEW t \in TokenIds, RefreshCheck(r, t) PROVE SessionAged
  <2>0. PICK s : s = [signing[r] EXCEPT !.at = "load", !.org = token[t].org]
    OBVIOUS
  <2>1. signing' = [signing EXCEPT ![r] = s] /\ UNCHANGED <<joined, token, phase>> /\ signing[r].at = "idle"
    BY <1>1, <1>3, <2>0 DEF RefreshCheck, Signings
  <2>2. signing[r] \in Signings /\ token[t].org \in Orgs \union {"none"}
    BY <1>1 DEF Tokens
  <2>3. s \in Signings /\ s.at = "load"
    BY <2>0, <2>2 DEF Signings, Stages
  <2>4. SigningSound(s)'
    BY <2>3 DEF SigningSound
  <2>5. token' \in [TokenIds -> Tokens] /\ \A u \in TokenIds : Older(u)
    BY <2>1, TokensRest
  <2>6. QED
    BY <2>1, <2>3, <2>4, <2>5, SigningMoves
<1>4. QED
  BY <1>2, <1>3

(* A request's stage changes, and nothing else of it.                      *)
LEMMA GoneOn ==
  ASSUME NEW s \in Signings, NEW at \in Stages
  PROVE  /\ [s EXCEPT !.at = at] \in Signings
         /\ [s EXCEPT !.at = at].at = at
         /\ [s EXCEPT !.at = at].access = s.access
         /\ [s EXCEPT !.at = at].refresh = s.refresh
BY DEF Signings

LEMMA Switched ==
  ASSUME SessionInv, NEW r \in SessionReqs,
         \/ \E a, b \in TokenIds, org \in Orgs : SwitchCheck(r, a, b, org)
         \/ SwitchMake(r)
  PROVE  SessionAged
<1>1. signing \in [SessionReqs -> Signings] /\ token \in [TokenIds -> Tokens]
  BY DEF SessionInv
<1>2. ASSUME NEW a \in TokenIds, NEW b \in TokenIds, NEW org \in Orgs, SwitchCheck(r, a, b, org)
      PROVE  SessionAged
  <2>0. PICK s : s = [NoSigning EXCEPT !.at = "switch", !.access = a, !.refresh = b, !.org = org]
    OBVIOUS
  <2>1. signing' = [signing EXCEPT ![r] = s] /\ UNCHANGED <<joined, token, phase>> /\ signing[r].at = "idle"
    BY <1>2, <2>0 DEF SwitchCheck
  <2>2. s \in Signings /\ s.at = "switch" /\ s.access = a /\ s.refresh = b
    BY <2>0 DEF NoSigning, Signings, Stages
  <2>3. SigningSound(s)'
    BY <2>2 DEF SigningSound
  <2>4. token' \in [TokenIds -> Tokens] /\ \A u \in TokenIds : Older(u)
    BY <2>1, TokensRest
  <2>5. QED
    BY <2>1, <2>2, <2>3, <2>4, SigningMoves
<1>3. CASE SwitchMake(r)
  <2>0. PICK s : s = [signing[r] EXCEPT !.at = "revoke", !.org = "none"]
    OBVIOUS
  <2>1. signing' = [signing EXCEPT ![r] = s] /\ UNCHANGED <<joined, phase>> /\ signing[r].at = "switch"
        /\ signing[r].org \in joined /\ MakePair(signing[r].org)
    BY <1>1, <1>3, <2>0 DEF SwitchMake, Signings
  <2>2. signing[r] \in Signings /\ SigningSound(signing[r])
    BY <1>1 DEF SessionInv
  <2>3. s \in Signings /\ s.at = "revoke" /\ s.access = signing[r].access /\ s.refresh = signing[r].refresh
    BY <2>0, <2>2 DEF Signings, Stages
  <2>4. SigningSound(s)'
    BY <2>1, <2>2, <2>3 DEF SigningSound
  <2>5. token' \in [TokenIds -> Tokens] /\ \A u \in TokenIds : Older(u)
    BY <2>1, PairMade
  <2>6. QED
    BY <2>1, <2>3, <2>4, <2>5, SigningMoves
<1>4. QED
  BY <1>2, <1>3

(* One token after the other is revoked.                                   *)
LEMMA FirstRevoked ==
  ASSUME SessionInv, NEW r \in SessionReqs,
         RevokeAccess(r) \/ \E a, b \in TokenIds : LogoutAccess(r, a, b)
  PROVE  SessionAged
<1>1. signing \in [SessionReqs -> Signings] /\ token \in [TokenIds -> Tokens]
  BY DEF SessionInv
<1>2. CASE RevokeAccess(r)
  <2>1. signing[r] \in Signings /\ SigningSound(signing[r]) /\ signing[r].at = "revoke"
    BY <1>1, <1>2 DEF SessionInv, RevokeAccess
  <2>2. PICK s, a : s = [signing[r] EXCEPT !.at = "revokeRefresh"] /\ a = signing[r].access
    OBVIOUS
  <2>3. s \in Signings /\ s.at = "revokeRefresh" /\ s.access = a /\ s.refresh = signing[r].refresh
    BY <2>1, <2>2, GoneOn DEF Stages
  <2>4. a \in TokenIds /\ s.refresh \in TokenIds
    BY <2>1, <2>2, <2>3 DEF SigningSound
  <2>5. Blacklist(a, Ttl(a)) /\ Ttl(a) \in Nat /\ token[a].life < Ttl(a) * Second + Second
    BY <1>2, <2>2, <2>4, Reckoned DEF RevokeAccess
  <2>6. signing' = [signing EXCEPT ![r] = s] /\ UNCHANGED <<joined, phase>>
    BY <1>1, <1>2, <2>2 DEF RevokeAccess, Go, Signings
  <2>7. token' \in [TokenIds -> Tokens] /\ (\A u \in TokenIds : Older(u)) /\ Gone(a)
    BY <2>4, <2>5, Blacklisted
  <2>8. WasGone(a)'
    BY <2>7 DEF WasGone, Gone
  <2>9. SigningSound(s)'
    BY <2>3, <2>4, <2>8 DEF SigningSound, WasGone
  <2>10. QED
    BY <2>3, <2>6, <2>7, <2>9, SigningMoves
<1>3. ASSUME NEW a \in TokenIds, NEW b \in TokenIds, LogoutAccess(r, a, b) PROVE SessionAged
  <2>1. PICK s : s = [NoSigning EXCEPT !.at = "logout", !.access = a, !.refresh = b, !.ttl = Ttl(b)]
    OBVIOUS
  <2>2. Ttl(a) \in Nat /\ token[a].life < Ttl(a) * Second + Second
        /\ Ttl(b) \in Nat /\ token[b].life < Ttl(b) * Second + Second
    BY Reckoned
  <2>3. s \in Signings /\ s.at = "logout" /\ s.access = a /\ s.refresh = b /\ s.ttl = Ttl(b)
    BY <2>1, <2>2 DEF NoSigning, Signings, Stages
  <2>4. signing' = [signing EXCEPT ![r] = s] /\ UNCHANGED <<joined, phase>> /\ signing[r].at = "idle"
        /\ Blacklist(a, Ttl(a))
    BY <1>3, <2>1 DEF LogoutAccess
  <2>5. token' \in [TokenIds -> Tokens] /\ (\A u \in TokenIds : Older(u)) /\ Gone(a)
        /\ token'[b].life = token[b].life
    BY <2>2, <2>4, Blacklisted
  <2>6. WasGone(a)' /\ token'[b].life < s.ttl * Second + Second
    BY <2>2, <2>3, <2>5 DEF WasGone, Gone
  <2>7. SigningSound(s)'
    BY <2>3, <2>6 DEF SigningSound, WasGone
  <2>8. QED
    BY <2>3, <2>4, <2>5, <2>7, SigningMoves
<1>4. QED
  BY <1>2, <1>3

LEMMA SecondRevoked ==
  ASSUME SessionInv, NEW r \in SessionReqs, RevokeRefresh(r) \/ LogoutRefresh(r)
  PROVE  SessionAged /\ Gone(signing[r].access) /\ Gone(signing[r].refresh)
<1>1. signing \in [SessionReqs -> Signings] /\ token \in [TokenIds -> Tokens]
  BY DEF SessionInv
<1>2. PICK a, b : a = signing[r].access /\ b = signing[r].refresh
  OBVIOUS
<1>3. /\ signing[r] \in Signings /\ SigningSound(signing[r])
      /\ signing[r].at \in {"revokeRefresh", "logout"} /\ Answered(r) /\ UNCHANGED <<joined, phase>>
  BY <1>1 DEF SessionInv, RevokeRefresh, LogoutRefresh
<1>4. a \in TokenIds /\ b \in TokenIds /\ WasGone(a)
  BY <1>2, <1>3 DEF SigningSound
<1>5. PICK ttl \in Nat : token[b].life < ttl * Second + Second /\ Blacklist(b, ttl)
  <2>1. CASE RevokeRefresh(r)
    BY <1>2, <1>4, <2>1, Reckoned DEF RevokeRefresh
  <2>2. CASE LogoutRefresh(r)
    BY <1>2, <1>3, <2>2 DEF LogoutRefresh, SigningSound, Signings
  <2>3. QED
    BY <2>1, <2>2
<1>6. token' \in [TokenIds -> Tokens] /\ (\A u \in TokenIds : Older(u)) /\ Gone(b) /\ Gone(a)
  BY <1>4, <1>5, Blacklisted
<1>7. QED
  BY <1>2, <1>3, <1>6, SessionIdle

LEMMA SigningFailed ==
  ASSUME SessionInv, NEW r \in SessionReqs, SigningFails(r)
  PROVE  SessionAged
<1>1. Answered(r) /\ UNCHANGED <<joined, token, phase>>
  BY DEF SigningFails
<1>2. token' \in [TokenIds -> Tokens] /\ \A t \in TokenIds : Older(t)
  BY <1>1, TokensRest
<1>3. QED
  BY <1>1, <1>2, SessionIdle

LEMMA Wrapped ==
  ASSUME NEW n \in Nat
  PROVE  n % Second \in 0..(Second - 1)
BY SecondAssumption

(* Time passes: an entry goes only when its token's life has less than a   *)
(* second left.                                                            *)
LEMMA TimePassed ==
  ASSUME SessionInv, Tick
  PROVE  SessionAged
<1>1. /\ token \in [TokenIds -> Tokens] /\ joined \subseteq Orgs /\ phase \in 0..(Second - 1)
      /\ \A t \in TokenIds : EntryLasts(token[t])
      /\ Second \in Nat /\ Second > 0
  BY SecondAssumption DEF SessionInv, SessionTypeOK
<1>2. phase' \in 0..(Second - 1)
  <2>1. phase + 1 \in Nat
    BY <1>1
  <2>2. QED
    BY <2>1, Wrapped DEF Tick
<1>3. ASSUME NEW t \in TokenIds PROVE token'[t] \in Tokens /\ Older(t)
  <2>1. token[t] \in Tokens /\ token[t].life \in Nat /\ token[t].block \in Nat
        /\ (token[t].block > 0 => token[t].life < token[t].block + Second)
    BY <1>1 DEF Tokens, EntryLasts
  <2>2. CASE token[t].life <= 1
    <3>1. token'[t] = NoToken
      BY <2>2 DEF Tick
    <3>2. QED
      BY <1>1, <2>1, <2>2, <3>1 DEF Older, NoToken, Tokens, EntryLasts, Gone
  <2>3. CASE ~ (token[t].life <= 1)
    <3>1. token'[t] = [token[t] EXCEPT !.life = @ - 1, !.block = Less(@)]
      BY <2>3 DEF Tick
    <3>0. Less(token[t].block) \in Nat /\ token[t].life - 1 \in Nat
      BY <2>1, <2>3 DEF Less
    <3>2. token'[t] \in Tokens /\ token'[t].life = token[t].life - 1
          /\ token'[t].block = Less(token[t].block)
      BY <2>1, <3>0, <3>1 DEF Tokens
    <3>3. QED
      BY <1>1, <2>1, <2>3, <3>2 DEF Older, EntryLasts, Gone, WasGone, Less
  <2>4. QED
    BY <2>2, <2>3
<1>4. token' \in [TokenIds -> Tokens]
  BY <1>3 DEF Tick
<1>5. UNCHANGED <<joined, signing>>
  BY DEF Tick
<1>6. QED
  BY <1>1, <1>2, <1>3, <1>4, <1>5, SessionMoves DEF SessionAged, SessionInv

LEMMA SessionStays ==
  ASSUME SessionInv, [SessionNext]_sessionVars
  PROVE  SessionKept
<1>1. ASSUME NEW org \in Orgs, MembershipChanges(org) PROVE SessionAged
  <2>1. UNCHANGED <<token, phase, signing>> /\ joined' \subseteq Orgs
    BY <1>1 DEF MembershipChanges, SessionInv, SessionTypeOK
  <2>2. QED
    BY <2>1, TokensRest, SessionMoves DEF SessionAged, SessionInv, SessionTypeOK
<1>2. ASSUME UNCHANGED sessionVars PROVE SessionAged
  <2>1. UNCHANGED <<joined, token, phase, signing>>
    BY <1>2 DEF sessionVars
  <2>2. joined' \subseteq Orgs /\ phase' \in 0..(Second - 1) /\ signing' \in [SessionReqs -> Signings]
    BY <2>1 DEF SessionInv, SessionTypeOK
  <2>3. token' \in [TokenIds -> Tokens] /\ \A t \in TokenIds : Older(t)
    BY <2>1, TokensRest
  <2>4. \A r \in SessionReqs : signing'[r] = signing[r]
    BY <2>1
  <2>5. SessionInv'
    BY <2>2, <2>3, <2>4, SessionMoves
  <2>6. QED
    BY <2>3, <2>5 DEF SessionAged
<1>3. ASSUME NEW r \in SessionReqs,
             \/ SignIn(r) \/ RefreshMake(r)
             \/ SwitchMake(r) \/ RevokeAccess(r) \/ RevokeRefresh(r)
             \/ LogoutRefresh(r) \/ SigningFails(r)
      PROVE  SessionAged
  <2>1. CASE SignIn(r) \/ RefreshMake(r) \/ SwitchMake(r)
    BY <2>1, SignedIn, Refreshed, Switched
  <2>2. CASE RevokeAccess(r) \/ SigningFails(r)
    BY <2>2, FirstRevoked, SigningFailed
  <2>3. CASE RevokeRefresh(r) \/ LogoutRefresh(r)
    BY <2>3, SecondRevoked
  <2>4. QED
    BY <1>3, <2>1, <2>2, <2>3
<1>4. ASSUME NEW r \in SessionReqs, NEW t \in TokenIds, RefreshCheck(r, t) PROVE SessionAged
  BY <1>4, Refreshed
<1>5. ASSUME NEW r \in SessionReqs,
             \E a, b \in TokenIds :
               LogoutAccess(r, a, b) \/ \E org \in Orgs : SwitchCheck(r, a, b, org)
      PROVE  SessionAged
  <2>1. CASE \E a, b \in TokenIds : LogoutAccess(r, a, b)
    BY <2>1, FirstRevoked
  <2>2. CASE \E a, b \in TokenIds, org \in Orgs : SwitchCheck(r, a, b, org)
    BY <2>2, Switched
  <2>3. QED
    BY <1>5, <2>1, <2>2
<1>6. SessionAged
  <2>1. CASE SessionNext
    BY <1>1, <1>3, <1>4, <1>5, <2>1, TimePassed DEF SessionNext
  <2>2. QED
    BY <1>2, <2>1
<1>7. QED
  BY <1>6, SecondRevoked DEF SessionKept, SessionAged, Older

(* The inductive invariant of the sessions, however requests overlap and   *)
(* however long one takes: a token that is blocked stays so until its last *)
(* second, and one about to be revoked only gets older (jwt.py).           *)
THEOREM SessionInvariance == SessionSpec => []SessionInv
<1>1. SessionInv /\ [SessionNext]_sessionVars => SessionInv'
  BY SessionStays DEF SessionKept
<1>2. QED
  BY <1>1, SessionBegins, PTL DEF SessionSpec

(* Tokens and requests stay well-formed (jwt.py, auth.py).                 *)
THEOREM SessionsTyped == SessionSpec => []SessionTypeOK
<1>1. SessionInv => SessionTypeOK
  BY DEF SessionInv
<1>2. QED
  BY <1>1, SessionInvariance, PTL

(* For any number of requests, tokens and any lives: tokens that were      *)
(* exchanged or signed out are of no more use, but for their last second.  *)
THEOREM SessionsStayKept == SessionSpec => SessionsKept
<1>1. SessionInv /\ [SessionNext]_sessionVars =>
        [ /\ \A t \in TokenIds :
               token[t].block > 0 /\ token'[t].block = 0 => token'[t].life < Second
          /\ \A r \in SessionReqs : RevokeRefresh(r) \/ LogoutRefresh(r) =>
               Gone(signing[r].access) /\ Gone(signing[r].refresh) ]_sessionVars
  BY SessionStays DEF SessionKept
<1>2. QED
  BY <1>1, SessionInvariance, PTL DEF SessionSpec, SessionsKept

---------------------------------------------------------------------------
(* Cohorts                                                                 *)

(* What a request holds at each point, whatever the others do. *)
WorkOK(w) ==
  /\ w.op \in AddOps => w.rows = {}
  /\ w.op \notin AddOps \union {"move"} => w.add = {}
  /\ w.op = "move" => w.t # w.c
  /\ w.op \in GradOps \union {"remove"} => w.t = w.c
  /\ w.pc # "idle" => w.c \in CohortIds /\ w.t \in CohortIds
  /\ w.pc = "target" => w.op = "move"
  /\ w.pc \in {"idle", "open", "rows"} => w.rows = {} /\ w.add = {}

(* What one that overlaps no other knows besides. *)
SoloOK(r) ==
  LET w == work[r] IN
  /\ \A p \in RollReqs \ {r} : ~ Busy(p)
  /\ \A k \in w.rows : row[k] = "active"
  /\ w.pc \in {"target", "commit"} /\ w.op \in RollOps => w.rows = ToEnd(w)
  /\ w.pc = "commit" /\ w.op = "move" => w.add = ToMove(w)
  /\ w.pc = "commit" /\ w.op \in AddOps => w.add = ToAdd(w)
  /\ w.op = "changeAdd" =>
       \A k \in RowKeys : k[2] \in w.who /\ row[k] = "active" => k[1] = w.t

WorkSound == \A r \in RollReqs : WorkOK(work[r])
SoloSound == \A r \in RollReqs : work[r].solo => SoloOK(r)

IInv == CohortTypeOK /\ RollSound /\ WorkSound /\ SoloSound

---------------------------------------------------------------------------
(* Lemmas *)

LEMMA OpKinds ==
  /\ GradOps = {"graduate", "graduateAndArchive", "graduateSome"}
  /\ RollOps = {"graduate", "graduateAndArchive", "graduateSome", "move", "remove", "change"}
  /\ AddOps = {"add", "changeAdd"}
  /\ StatusOps = {"archive", "reopen", "delete"}
BY DEF GradOps, RollOps, AddOps, StatusOps

LEMMA KeyParts ==
  /\ \A k \in RowKeys : k[1] \in CohortIds /\ k[2] \in Pupils /\ k[3] \in 1..MaxRows
                        /\ k = <<k[1], k[2], k[3]>>
  /\ \A c \in CohortIds, s \in Pupils, n \in 1..MaxRows : <<c, s, n>> \in RowKeys
BY DEF RowKeys

(* A student with room for a row gets exactly one: the first free number.  *)
LEMMA OneNextKey ==
  ASSUME NEW t, NEW who, NEW k \in NextKeys(t, who), NEW l \in NextKeys(t, who), k[2] = l[2]
  PROVE  k = l
<1>1. /\ k \in RowKeys /\ l \in RowKeys /\ k[1] = t /\ l[1] = t
      /\ row[k] = "free" /\ row[l] = "free"
      /\ \A n \in 1..MaxRows : n < k[3] => row[<<t, k[2], n>>] # "free"
      /\ \A n \in 1..MaxRows : n < l[3] => row[<<t, l[2], n>>] # "free"
  BY DEF NextKeys
<1>2. /\ k = <<t, k[2], k[3]>> /\ l = <<t, k[2], l[3]>>
      /\ k[3] \in 1..MaxRows /\ l[3] \in 1..MaxRows
  BY <1>1, KeyParts
<1>3. ~ (k[3] < l[3]) /\ ~ (l[3] < k[3])
  BY <1>1, <1>2
<1>4. k[3] = l[3]
  BY <1>2, <1>3, MaxRowsAssumption
<1>5. QED
  BY <1>2, <1>4

LEMMA RoomGivesKey ==
  ASSUME NEW t \in CohortIds, NEW who \in SUBSET Pupils, Room(t, who), NEW s \in who
  PROVE  \E n \in 1..MaxRows : <<t, s, n>> \in NextKeys(t, who)
<1> DEFINE F == {n \in 1..MaxRows : row[<<t, s, n>>] = "free"}
<1>1. F # {} /\ F \subseteq Nat
  BY MaxRowsAssumption DEF Room
<1>2. PICK n \in F : \A m \in F : ~ (<<m, n>> \in OpToRel(<, Nat))
  BY <1>1, WFMin, NatLessThanWellFounded
<1>3. \A m \in F : ~ (m < n)
  <2> SUFFICES ASSUME NEW m \in F, m < n PROVE FALSE
    OBVIOUS
  <2>1. m \in Nat /\ n \in Nat
    BY <1>1
  <2>2. <<m, n>> \in OpToRel(<, Nat)
    BY <2>1 DEF OpToRel
  <2>3. QED
    BY <1>2, <2>2
<1>4. \A m \in 1..MaxRows : m < n => row[<<t, s, m>>] # "free"
  BY <1>3
<1>5. <<t, s, n>> \in RowKeys /\ s \in Pupils
  BY <1>2, KeyParts
<1>6. QED
  BY <1>2, <1>4, <1>5 DEF NextKeys

(* What the insertion and the ending of rows make of one row. *)
LEMMA WrittenRows ==
  ASSUME NEW rows, NEW status, NEW t, NEW who, Written(rows, status, t, who)
  PROVE  /\ \A k \in RowKeys : row'[k] = IF k \in NextKeys(t, who) THEN "active"
                                         ELSE IF k \in rows THEN status ELSE row[k]
         /\ \A k \in NextKeys(t, who) : k \in RowKeys /\ k[1] = t /\ k[2] \in who /\ row[k] = "free"
BY DEF Written, NextKeys

LEMMA BeginWork ==
  ASSUME IInv, NEW r \in RollReqs, NEW op, NEW pc, NEW c, NEW t, NEW who,
         Begin(r, op, pc, c, t, who)
  PROVE  /\ work'[r] = [op |-> op, pc |-> pc, c |-> c, t |-> t, who |-> who, rows |-> {},
                        add |-> {}, solo |-> \A p \in RollReqs \ {r} : ~ Busy(p)]
         /\ \A q \in RollReqs \ {r} : work'[q] = [work[q] EXCEPT !.solo = FALSE]
BY DEF Begin, NoWork

LEMMA EndWork ==
  ASSUME IInv, NEW r \in RollReqs, End(r)
  PROVE  /\ work' \in [RollReqs -> Works]
         /\ work' = [work EXCEPT ![r] = NoWork]
         /\ WorkOK(work'[r]) /\ ~ work'[r].solo
<1>1. NoWork \in Works /\ WorkOK(NoWork) /\ ~ NoWork.solo
  BY DEF NoWork, Works, WorkOK, GradOps, RollOps, AddOps
<1>2. QED
  BY <1>1 DEF End, IInv, CohortTypeOK

(* A request that does not overlap is the only one in flight. *)
LEMMA OthersOverlap ==
  ASSUME IInv, NEW r \in RollReqs, Busy(r), NEW q \in RollReqs \ {r}
  PROVE  ~ work[q].solo
BY DEF IInv, SoloSound, SoloOK

(* A step of one request leaves the others' records alone. *)
LEMMA OneMoves ==
  ASSUME IInv, NEW r \in RollReqs, Busy(r), NEW w \in Works, WorkOK(w),
         work' = [work EXCEPT ![r] = w], w.solo => SoloOK(r)'
  PROVE  work' \in [RollReqs -> Works] /\ WorkSound' /\ SoloSound'
<1>1. work' \in [RollReqs -> Works]
  BY DEF IInv, CohortTypeOK
<1>2. WorkSound'
  BY DEF IInv, CohortTypeOK, WorkSound
<1>3. ASSUME NEW q \in RollReqs, work'[q].solo PROVE SoloOK(q)'
  BY <1>3, OthersOverlap DEF IInv, CohortTypeOK
<1>4. QED
  BY <1>1, <1>2, <1>3 DEF SoloSound

(* A write in one step that overlaps all that are in flight. *)
LEMMA OverlapWork ==
  ASSUME IInv, Overlap
  PROVE  work' \in [RollReqs -> Works] /\ WorkSound' /\ SoloSound'
<1>1. \A q \in RollReqs : work[q] \in Works /\ WorkOK(work[q])
  BY DEF IInv, CohortTypeOK, WorkSound
<1>2. \A q \in RollReqs : work'[q] = [work[q] EXCEPT !.solo = FALSE]
  BY DEF Overlap
<1>3. \A w \in Works : [w EXCEPT !.solo = FALSE] \in Works
                       /\ ~ [w EXCEPT !.solo = FALSE].solo
                       /\ (WorkOK(w) => WorkOK([w EXCEPT !.solo = FALSE]))
  BY DEF Works, WorkOK
<1>4. \A q \in RollReqs : work'[q] \in Works /\ WorkOK(work'[q]) /\ ~ work'[q].solo
  BY <1>1, <1>2, <1>3
<1>5. work' \in [RollReqs -> Works]
  BY <1>2, <1>4 DEF Overlap
<1>6. QED
  BY <1>4, <1>5 DEF WorkSound, SoloSound

(* A request begins: it has read nothing yet of what it will write. *)
LEMMA BeginKeeps ==
  ASSUME IInv, NEW r \in RollReqs, NEW op \in RollOps \union AddOps \union StatusOps,
         NEW pc \in {"open", "rows", "commit"}, NEW c \in CohortIds, NEW t \in CohortIds,
         NEW who \in SUBSET Pupils, Begin(r, op, pc, c, t, who),
         op = "move" <=> t # c, op # "changeAdd", pc = "commit" => op \in StatusOps
  PROVE  work' \in [RollReqs -> Works] /\ WorkSound' /\ SoloSound'
<1> DEFINE solo == \A p \in RollReqs \ {r} : ~ Busy(p)
           w == [op |-> op, pc |-> pc, c |-> c, t |-> t, who |-> who, rows |-> {},
                 add |-> {}, solo |-> solo]
<1>1. work'[r] = w /\ \A q \in RollReqs \ {r} : work'[q] = [work[q] EXCEPT !.solo = FALSE]
  BY BeginWork
<1>2. \A q \in RollReqs : work[q] \in Works /\ WorkOK(work[q])
  BY DEF IInv, CohortTypeOK, WorkSound
<1>3. \A v \in Works : [v EXCEPT !.solo = FALSE] \in Works
                       /\ ~ [v EXCEPT !.solo = FALSE].solo
                       /\ [v EXCEPT !.solo = FALSE].pc = v.pc
                       /\ (WorkOK(v) => WorkOK([v EXCEPT !.solo = FALSE]))
  BY DEF Works, WorkOK
<1>4. w \in Works
  BY DEF Works
<1>5. WorkOK(w)
  BY OpKinds DEF WorkOK
<1>6. \A q \in RollReqs \ {r} : /\ work'[q] \in Works /\ WorkOK(work'[q]) /\ ~ work'[q].solo
                                /\ work'[q].pc = work[q].pc
  BY <1>1, <1>2, <1>3
<1>7. work' \in [RollReqs -> Works]
  BY <1>1, <1>4, <1>6 DEF Begin
<1>8. WorkSound'
  BY <1>1, <1>5, <1>6 DEF WorkSound
<1>9. ASSUME w.solo PROVE SoloOK(r)'
  <2>1. \A p \in RollReqs \ {r} : ~ Busy(p)'
    BY <1>6, <1>9 DEF Busy
  <2>2. w.pc \in {"target", "commit"} => w.op \notin RollOps \union AddOps
    BY OpKinds
  <2>3. w.rows = {} /\ w.op # "changeAdd" /\ (w.pc = "commit" => w.op # "move")
    BY OpKinds
  <2>4. QED
    BY <1>1, <2>1, <2>2, <2>3 DEF SoloOK
<1>10. SoloSound'
  BY <1>1, <1>6, <1>9 DEF SoloSound
<1>11. QED
  BY <1>7, <1>8, <1>10

LEMMA SameReads ==
  ASSUME NEW w, NEW v, v.op = w.op, v.c = w.c, v.t = w.t, v.who = w.who
  PROVE  /\ ToEnd(v) = ToEnd(w) /\ ToAdd(v) = ToAdd(w)
         /\ v.rows = w.rows => ToMove(v) = ToMove(w)
BY DEF ToEnd, ToAdd, ToMove

(* Reading: neither the roll nor the accounts change. *)
LEMMA ReadRowsKeeps ==
  ASSUME IInv, NEW r \in RollReqs, ReadRows(r)
  PROVE  work' \in [RollReqs -> Works] /\ WorkSound' /\ SoloSound'
<1> DEFINE w == work[r]
           v == IF w.op \in AddOps THEN [w EXCEPT !.add = ToAdd(w), !.pc = "commit"]
                ELSE [w EXCEPT !.rows = ToEnd(w),
                               !.pc = IF w.op = "move" /\ ToEnd(w) # {} THEN "target"
                                      ELSE "commit"]
<1>1. /\ w \in Works /\ WorkOK(w) /\ w.pc = "rows" /\ Busy(r)
      /\ work' = [work EXCEPT ![r] = v] /\ row' = row /\ pupil' = pupil
  BY DEF IInv, CohortTypeOK, WorkSound, ReadRows, Busy
<1>2. ToAdd(w) \in SUBSET Pupils /\ ToEnd(w) \in SUBSET RowKeys
  BY <1>1 DEF ToAdd, ToEnd, Works
<1>3. /\ v.op = w.op /\ v.c = w.c /\ v.t = w.t /\ v.who = w.who /\ v.solo = w.solo
      /\ v.rows = (IF w.op \in AddOps THEN w.rows ELSE ToEnd(w))
      /\ v.add = (IF w.op \in AddOps THEN ToAdd(w) ELSE w.add)
      /\ v.pc = (IF w.op = "move" /\ ToEnd(w) # {} THEN "target" ELSE "commit")
      /\ v \in Works
  BY <1>1, <1>2, OpKinds DEF Works
<1>4. w.rows = {} /\ w.add = {}
  BY <1>1 DEF WorkOK
<1>5. WorkOK(v)
  BY <1>1, <1>3, <1>4, OpKinds DEF WorkOK
<1>6. ToEnd(work[r])' = ToEnd(w) /\ ToAdd(work[r])' = ToAdd(w) /\ ToMove(work[r])' = ToMove(v)
  <2> HIDE DEF v
  <2>1. work'[r] = v
    BY <1>1 DEF IInv, CohortTypeOK
  <2>2. QED
    BY <1>1, <1>3, <2>1 DEF ToEnd, ToAdd, ToMove, ActiveIn
<1>7. ASSUME v.solo PROVE SoloOK(r)'
  <2> HIDE DEF v
  <2>1. work'[r] = v
    BY <1>1 DEF IInv, CohortTypeOK
  <2>2. SoloOK(r)
    BY <1>3, <1>7 DEF IInv, SoloSound
  <2>3. \A p \in RollReqs \ {r} : ~ Busy(p)'
    BY <1>1, <2>2 DEF SoloOK, Busy, IInv, CohortTypeOK
  <2>4. \A k \in v.rows : row'[k] = "active"
    BY <1>1, <1>3, <1>4 DEF ToEnd
  <2>5. v.pc \in {"target", "commit"} /\ v.op \in RollOps => v.rows = ToEnd(work[r])'
    BY <1>3, <1>6, OpKinds
  <2>6. v.pc = "commit" /\ v.op = "move" => v.add = ToMove(work[r])'
    <3>1. ASSUME v.pc = "commit", v.op = "move" PROVE ToMove(v) = {} /\ v.add = {}
      BY <1>3, <1>4, <3>1, OpKinds DEF ToMove
    <3>2. QED
      BY <1>6, <3>1
  <2>7. v.pc = "commit" /\ v.op \in AddOps => v.add = ToAdd(work[r])'
    BY <1>3, <1>6
  <2>8. v.op = "changeAdd" =>
          \A k \in RowKeys : k[2] \in v.who /\ row'[k] = "active" => k[1] = v.t
    BY <1>1, <1>3, <2>2 DEF SoloOK
  <2>9. QED
    BY <2>1, <2>3, <2>4, <2>5, <2>6, <2>7, <2>8 DEF SoloOK
<1>8. QED
  <2> HIDE DEF v
  <2>1. QED
    BY <1>1, <1>3, <1>5, <1>7, OneMoves

LEMMA ReadTargetKeeps ==
  ASSUME IInv, NEW r \in RollReqs, ReadTarget(r)
  PROVE  work' \in [RollReqs -> Works] /\ WorkSound' /\ SoloSound'
<1> DEFINE w == work[r]
           v == [w EXCEPT !.add = ToMove(w), !.pc = "commit"]
<1>1. /\ w \in Works /\ WorkOK(w) /\ w.pc = "target" /\ w.op = "move" /\ Busy(r)
      /\ work' = [work EXCEPT ![r] = v] /\ row' = row /\ pupil' = pupil
  BY DEF IInv, CohortTypeOK, WorkSound, WorkOK, ReadTarget, Busy
<1>2. ToMove(w) \in SUBSET Pupils
  BY <1>1 DEF ToMove, Works
<1>3. /\ v.op = w.op /\ v.c = w.c /\ v.t = w.t /\ v.who = w.who /\ v.solo = w.solo
      /\ v.rows = w.rows /\ v.add = ToMove(w) /\ v.pc = "commit" /\ v \in Works
  BY <1>1, <1>2 DEF Works
<1>4. WorkOK(v)
  BY <1>1, <1>3, OpKinds DEF WorkOK
<1>5. ASSUME v.solo PROVE SoloOK(r)'
  <2> HIDE DEF v
  <2>1. work'[r] = v
    BY <1>1 DEF IInv, CohortTypeOK
  <2>2. SoloOK(r)
    BY <1>3, <1>5 DEF IInv, SoloSound
  <2>3. \A p \in RollReqs \ {r} : ~ Busy(p)'
    BY <1>1, <2>2 DEF SoloOK, Busy, IInv, CohortTypeOK
  <2>4. w.rows = ToEnd(w) /\ \A k \in w.rows : row[k] = "active"
    BY <1>1, <2>2, OpKinds DEF SoloOK
  <2>5. ToEnd(work[r])' = ToEnd(w) /\ ToMove(work[r])' = ToMove(w)
    BY <1>1, <1>3, <2>1 DEF ToEnd, ToMove, ActiveIn
  <2>6. v.op \notin AddOps
    BY <1>1, <1>3, OpKinds
  <2>7. QED
    BY <1>1, <1>3, <2>1, <2>3, <2>4, <2>5, <2>6, OpKinds DEF SoloOK
<1>6. QED
  <2> HIDE DEF v
  <2>1. QED
    BY <1>1, <1>3, <1>4, <1>5, OneMoves

LEMMA OpenKeeps ==
  ASSUME IInv, NEW r \in RollReqs, Open(r)
  PROVE  work' \in [RollReqs -> Works] /\ WorkSound' /\ SoloSound'
<1> DEFINE w == work[r]
           v == [w EXCEPT !.pc = "rows"]
<1>1. /\ w \in Works /\ WorkOK(w) /\ w.pc = "open" /\ Busy(r)
      /\ work' = [work EXCEPT ![r] = v] /\ row' = row /\ pupil' = pupil
  BY DEF IInv, CohortTypeOK, WorkSound, Open, Busy
<1>2. /\ v.op = w.op /\ v.c = w.c /\ v.t = w.t /\ v.who = w.who /\ v.solo = w.solo
      /\ v.rows = w.rows /\ v.add = w.add /\ v.pc = "rows" /\ v \in Works
  BY <1>1 DEF Works
<1>3. WorkOK(v)
  BY <1>1, <1>2 DEF WorkOK
<1>4. ASSUME v.solo PROVE SoloOK(r)'
  <2> HIDE DEF v
  <2>1. work'[r] = v
    BY <1>1 DEF IInv, CohortTypeOK
  <2>2. SoloOK(r)
    BY <1>2, <1>4 DEF IInv, SoloSound
  <2>3. \A p \in RollReqs \ {r} : ~ Busy(p)'
    BY <1>1, <2>2 DEF SoloOK, Busy, IInv, CohortTypeOK
  <2>4. QED
    BY <1>1, <1>2, <2>1, <2>2, <2>3 DEF SoloOK
<1>5. QED
  <2> HIDE DEF v
  <2>1. QED
    BY <1>1, <1>2, <1>3, <1>4, OneMoves

(* New rows that clash with no active one leave the roll sound.            *)
LEMMA WrittenSound ==
  ASSUME IInv, NEW rows, NEW status \in Ended, NEW t, NEW who, Written(rows, status, t, who),
         \A k \in rows : row[k] # "free",
         \A k \in RowKeys : k[1] = t /\ k[2] \in who /\ row[k] = "active" => k \in rows,
         who # {} => cohort'[t] \in Existing /\ \A s \in who : pupil'[s] \in HasUser,
         \A c \in CohortIds : cohort[c] \in Existing => cohort'[c] \in Existing,
         \A s \in Pupils : pupil[s] \in HasUser => pupil'[s] \in HasUser
  PROVE  RollSound' /\ row' \in [RowKeys -> {"free", "active"} \union Ended]
<1>1. /\ \A k \in RowKeys : row'[k] = IF k \in NextKeys(t, who) THEN "active"
                                      ELSE IF k \in rows THEN status ELSE row[k]
      /\ \A k \in NextKeys(t, who) : k \in RowKeys /\ k[1] = t /\ k[2] \in who /\ row[k] = "free"
  BY WrittenRows
<1>2. /\ \A k \in RowKeys : row[k] \in {"free", "active"} \union Ended
      /\ OneActiveRow /\ RowsReferToWhatIs
  BY DEF IInv, CohortTypeOK, RollSound
<1>3. row' \in [RowKeys -> {"free", "active"} \union Ended]
  <2>1. \A k \in RowKeys : row'[k] \in {"free", "active"} \union Ended
    BY <1>1, <1>2
  <2>2. QED
    BY <2>1 DEF Written
<1>4. "active" \notin Ended
  BY DEF Ended
<1>5. OneActiveRow'
  <2> SUFFICES ASSUME NEW k \in RowKeys, NEW l \in RowKeys, k[1] = l[1], k[2] = l[2],
                      row'[k] = "active", row'[l] = "active"
               PROVE  k = l
    BY DEF OneActiveRow
  <2>1. CASE k \in NextKeys(t, who) /\ l \in NextKeys(t, who)
    BY <2>1, OneNextKey
  <2>2. CASE k \in NextKeys(t, who) /\ l \notin NextKeys(t, who)
    BY <1>1, <1>4, <2>2
  <2>3. CASE k \notin NextKeys(t, who) /\ l \in NextKeys(t, who)
    BY <1>1, <1>4, <2>3
  <2>4. CASE k \notin NextKeys(t, who) /\ l \notin NextKeys(t, who)
    <3>1. row[k] = "active" /\ row[l] = "active"
      BY <1>1, <1>4, <2>4
    <3>2. QED
      BY <1>2, <3>1 DEF OneActiveRow
  <2>5. QED
    BY <2>1, <2>2, <2>3, <2>4
<1>6. RowsReferToWhatIs'
  <2> SUFFICES ASSUME NEW k \in RowKeys, row'[k] # "free"
               PROVE  cohort'[k[1]] \in Existing /\ pupil'[k[2]] \in HasUser
    BY DEF RowsReferToWhatIs
  <2>1. k[1] \in CohortIds /\ k[2] \in Pupils
    BY KeyParts
  <2>2. CASE k \in NextKeys(t, who)
    BY <1>1, <2>2
  <2>3. CASE k \notin NextKeys(t, who)
    <3>1. row[k] # "free"
      BY <1>1, <2>3
    <3>2. QED
      BY <1>2, <2>1, <3>1 DEF RowsReferToWhatIs
  <2>4. QED
    BY <2>2, <2>3
<1>7. QED
  BY <1>3, <1>5, <1>6 DEF RollSound

LEMMA CommitRowsKeeps ==
  ASSUME IInv, NEW r \in RollReqs, CommitRows(r)
  PROVE  /\ work' \in [RollReqs -> Works] /\ WorkSound' /\ SoloSound'
         /\ RollSound' /\ row' \in [RowKeys -> {"free", "active"} \union Ended]
<1> DEFINE w == work[r]
           v == [w EXCEPT !.op = "changeAdd", !.pc = "open", !.rows = {}]
<1>1. /\ w \in Works /\ WorkOK(w) /\ w.pc = "commit" /\ Busy(r)
      /\ NoClash(w) /\ Refers(w.t, w.add)
      /\ Written(w.rows, EndsAs(w.op), w.t, w.add)
      /\ \A k \in w.rows : row[k] # "free"
      /\ pupil' = pupil
      /\ cohort' = IF w.op = "graduateAndArchive" THEN [cohort EXCEPT ![w.c] = "archived"] ELSE cohort
  BY DEF IInv, CohortTypeOK, WorkSound, CommitRows, Busy, Writable
<1>2. RollSound' /\ row' \in [RowKeys -> {"free", "active"} \union Ended]
  <2>1. EndsAs(w.op) \in Ended
    BY DEF EndsAs, Ended
  <2>2. \A k \in RowKeys : k[1] = w.t /\ k[2] \in w.add /\ row[k] = "active" => k \in w.rows
    BY <1>1, KeyParts DEF NoClash
  <2>3. \A c \in CohortIds : cohort[c] \in Existing => cohort'[c] \in Existing
    BY <1>1 DEF Existing, IInv, CohortTypeOK
  <2>4. w.add # {} => cohort'[w.t] \in Existing /\ \A s \in w.add : pupil'[s] \in HasUser
    <3>1. w.op = "graduateAndArchive" => w.add = {}
      BY <1>1, OpKinds DEF WorkOK
    <3>2. QED
      BY <1>1, <3>1 DEF Refers
  <2> HIDE DEF w
  <2>5. QED
    BY <1>1, <2>1, <2>2, <2>3, <2>4, WrittenSound
<1>3. CASE w.op # "change"
  <2>1. End(r)
    BY <1>3 DEF CommitRows
  <2>2. NoWork \in Works /\ WorkOK(NoWork) /\ ~ NoWork.solo
    BY DEF NoWork, Works, WorkOK, GradOps, RollOps, AddOps
  <2>3. QED
    BY <1>1, <1>2, <2>1, <2>2, OneMoves DEF End
<1>4. CASE w.op = "change"
  <2>1. work' = [work EXCEPT ![r] = v]
    BY <1>4 DEF CommitRows
  <2>2. /\ v.op = "changeAdd" /\ v.c = w.c /\ v.t = w.t /\ v.who = w.who /\ v.solo = w.solo
        /\ v.rows = {} /\ v.add = w.add /\ v.pc = "open" /\ v \in Works
    BY <1>1, OpKinds DEF Works
  <2>3. w.add = {}
    BY <1>1, <1>4, OpKinds DEF WorkOK
  <2>4. WorkOK(v)
    BY <1>1, <2>2, <2>3, OpKinds DEF WorkOK
  <2>5. ASSUME v.solo PROVE SoloOK(r)'
    <3> HIDE DEF v
    <3>1. work'[r] = v
      BY <2>1 DEF IInv, CohortTypeOK
    <3>2. SoloOK(r)
      BY <2>2, <2>5 DEF IInv, SoloSound
    <3>3. \A p \in RollReqs \ {r} : ~ Busy(p)'
      BY <2>1, <3>2 DEF SoloOK, Busy, IInv, CohortTypeOK
    <3>4. w.rows = ToEnd(w)
      BY <1>1, <1>4, <3>2, OpKinds DEF SoloOK
    <3>5. ASSUME NEW k \in RowKeys, k[2] \in v.who, row'[k] = "active" PROVE k[1] = v.t
      <4>1. k \notin NextKeys(w.t, w.add)
        BY <2>3 DEF NextKeys
      <4>2. k \notin w.rows /\ row[k] = "active"
        <5>1. EndsAs(w.op) # "active"
          BY DEF EndsAs
        <5>2. row'[k] = IF k \in w.rows THEN EndsAs(w.op) ELSE row[k]
          BY <1>1, <4>1 DEF Written
        <5>3. QED
          BY <3>5, <5>1, <5>2
      <4>3. QED
        BY <1>4, <2>2, <3>4, <3>5, <4>2 DEF ToEnd
    <3>6. QED
      BY <2>2, <3>1, <3>3, <3>5 DEF SoloOK
  <2>6. QED
    <3> HIDE DEF v
    <3>1. QED
      BY <1>1, <1>2, <2>1, <2>2, <2>4, <2>5, OneMoves
<1>5. QED
  BY <1>3, <1>4

(* Steps that leave the rows alone and lose no cohort or account with rows. *)
LEMMA RollStays ==
  ASSUME IInv, row' = row,
         \A c \in CohortIds : cohort[c] \in Existing /\ HadStudents(c) => cohort'[c] \in Existing,
         \A s \in Pupils : pupil[s] \in HasUser => pupil'[s] \in HasUser
  PROVE  RollSound'
<1>1. OneActiveRow /\ RowsReferToWhatIs
  BY DEF IInv, RollSound
<1>2. OneActiveRow'
  BY <1>1 DEF OneActiveRow
<1>3. RowsReferToWhatIs'
  <2> SUFFICES ASSUME NEW k \in RowKeys, row[k] # "free"
               PROVE  cohort'[k[1]] \in Existing /\ pupil'[k[2]] \in HasUser
    BY DEF RowsReferToWhatIs
  <2>1. k[1] \in CohortIds /\ k[2] \in Pupils /\ HadStudents(k[1])
    BY KeyParts DEF HadStudents
  <2>2. QED
    BY <1>1, <2>1 DEF RowsReferToWhatIs
<1>4. QED
  BY <1>2, <1>3 DEF RollSound

(* Steps that change nothing a request has read. *)
LEMMA ReadsStay ==
  ASSUME IInv, row' = row, work' = work,
         \A p \in Pupils : pupil'[p] \in InOrg <=> pupil[p] \in InOrg
  PROVE  WorkSound' /\ SoloSound'
<1>1. ASSUME NEW r \in RollReqs
      PROVE  /\ ToEnd(work[r])' = ToEnd(work[r]) /\ ToMove(work[r])' = ToMove(work[r])
             /\ ToAdd(work[r])' = ToAdd(work[r])
  <2>1. work[r].who \in SUBSET Pupils
    BY DEF IInv, CohortTypeOK, Works
  <2>2. QED
    BY <2>1 DEF ToEnd, ToMove, ToAdd, ActiveIn
<1>2. ASSUME NEW r \in RollReqs, SoloOK(r) PROVE SoloOK(r)'
  BY <1>1, <1>2 DEF SoloOK, Busy
<1>3. QED
  BY <1>2 DEF IInv, WorkSound, SoloSound

LEMMA InitInv == CohortInit => IInv
<1> SUFFICES ASSUME CohortInit PROVE IInv
  OBVIOUS
<1>1. \A r \in RollReqs : work[r] = NoWork
  BY DEF CohortInit
<1>2. NoWork \in Works /\ WorkOK(NoWork) /\ ~ NoWork.solo
  BY DEF NoWork, Works, WorkOK, GradOps, RollOps, AddOps
<1>3. CohortTypeOK
  BY <1>2 DEF CohortInit, CohortTypeOK, HasUser
<1>4. RollSound
  BY DEF CohortInit, RollSound, OneActiveRow, RowsReferToWhatIs
<1>5. QED
  BY <1>1, <1>2, <1>3, <1>4 DEF IInv, WorkSound, SoloSound

LEMMA StepInv == IInv /\ [CohortNext]_rollVars => IInv'
<1> SUFFICES ASSUME IInv, [CohortNext]_rollVars PROVE IInv'
  OBVIOUS
<1>0. CohortTypeOK /\ RollSound /\ WorkSound /\ SoloSound
  BY DEF IInv
<1> DEFINE WorkKept == work' \in [RollReqs -> Works] /\ WorkSound' /\ SoloSound'
<1>1. ASSUME WorkKept, UNCHANGED <<cohort, pupil, row>> PROVE IInv'
  <2>1. RollSound'
    BY <1>1, RollStays
  <2>2. QED
    BY <1>0, <1>1, <2>1 DEF IInv, CohortTypeOK
<1>2. ASSUME NEW r \in RollReqs, RollStep(r) PROVE IInv'
  <2>1. ASSUME NEW c \in CohortIds, NEW op \in StatusOps, AskStatus(r, op, c) PROVE IInv'
    <3>1. /\ Begin(r, op, "commit", c, c, {}) /\ UNCHANGED <<cohort, pupil, row>>
          /\ op # "move" /\ op # "changeAdd"
      BY <2>1, OpKinds DEF AskStatus
    <3>2. WorkKept
      BY <3>1, BeginKeeps
    <3>3. QED
      BY <1>1, <3>1, <3>2
  <2>2. ASSUME NEW c \in CohortIds, NEW t \in CohortIds, NEW who \in SUBSET Pupils,
               NEW op \in RollOps \ {"change"}, AskMembers(r, op, c, t, who)
        PROVE  IInv'
    <3>1. /\ Begin(r, op, "rows", c, t, who) /\ UNCHANGED <<cohort, pupil, row>>
          /\ op = "move" <=> t # c
          /\ op # "changeAdd"
      BY <2>2, OpKinds DEF AskMembers
    <3>2. WorkKept
      BY <3>1, BeginKeeps
    <3>3. QED
      BY <1>1, <3>1, <3>2
  <2>3. ASSUME NEW c \in CohortIds, NEW who \in SUBSET Pupils, AskAdd(r, c, who) PROVE IInv'
    <3>1. /\ Begin(r, "add", "rows", c, c, who) /\ UNCHANGED <<cohort, pupil, row>>
          /\ "add" \in AddOps
      BY <2>3, OpKinds DEF AskAdd
    <3>2. WorkKept
      BY <3>1, BeginKeeps
    <3>3. QED
      BY <1>1, <3>1, <3>2
  <2>4. ASSUME NEW s \in Pupils, NEW t \in CohortIds, AskChange(r, s, t) PROVE IInv'
    <3>1. /\ Begin(r, "change", "rows", t, t, {s}) /\ UNCHANGED <<cohort, pupil, row>>
          /\ "change" \in RollOps /\ {s} \in SUBSET Pupils
      BY <2>4, OpKinds DEF AskChange
    <3>2. WorkKept
      BY <3>1, BeginKeeps
    <3>3. QED
      BY <1>1, <3>1, <3>2
  <2>5. ASSUME NEW s \in Pupils, NEW c \in CohortIds, CreateStudent(r, s, c) PROVE IInv'
    <3>1. /\ Begin(r, "add", "open", c, c, {s}) /\ UNCHANGED <<cohort, row>>
          /\ pupil' = [pupil EXCEPT ![s] = "pending"]
          /\ "add" \in AddOps /\ {s} \in SUBSET Pupils
      BY <2>5, OpKinds DEF CreateStudent
    <3>2. WorkKept
      BY <3>1, BeginKeeps
    <3>3. CohortTypeOK'
      BY <1>0, <3>1, <3>2 DEF CohortTypeOK, HasUser, InOrg
    <3>4. RollSound'
      BY <1>0, <3>1, RollStays DEF CohortTypeOK, HasUser, InOrg
    <3>5. QED
      BY <3>2, <3>3, <3>4 DEF IInv
  <2>6. CASE Open(r)
    BY <1>1, <2>6, OpenKeeps DEF Open
  <2>7. CASE ReadRows(r)
    BY <1>1, <2>7, ReadRowsKeeps DEF ReadRows
  <2>8. CASE ReadTarget(r)
    BY <1>1, <2>8, ReadTargetKeeps DEF ReadTarget
  <2>9. CASE CommitRows(r)
    <3>1. WorkKept /\ RollSound' /\ row' \in [RowKeys -> {"free", "active"} \union Ended]
      BY <2>9, CommitRowsKeeps
    <3>2. /\ pupil' = pupil
          /\ cohort' = cohort \/ cohort' = [cohort EXCEPT ![work[r].c] = "archived"]
      BY <2>9 DEF CommitRows
    <3>3. CohortTypeOK'
      BY <1>0, <3>1, <3>2 DEF CohortTypeOK, Existing
    <3>4. QED
      BY <3>1, <3>3 DEF IInv
  <2>10. ASSUME End(r), Busy(r) PROVE WorkKept
    <3>1. NoWork \in Works /\ WorkOK(NoWork) /\ ~ NoWork.solo
      BY DEF NoWork, Works, WorkOK, GradOps, RollOps, AddOps
    <3>2. QED
      BY <2>10, <3>1, OneMoves DEF End
  <2>11. CASE CommitStatus(r)
    <3>1. WorkKept /\ UNCHANGED <<pupil, row>>
      BY <2>10, <2>11 DEF CommitStatus, Busy
    <3>2. CohortTypeOK'
      BY <1>0, <2>11, <3>1 DEF CommitStatus, CohortTypeOK, Existing
    <3>3. \A c \in CohortIds : cohort[c] \in Existing /\ HadStudents(c) => cohort'[c] \in Existing
      BY <1>0, <2>11 DEF CommitStatus, CohortTypeOK, Existing
    <3>4. QED
      BY <3>1, <3>2, <3>3, RollStays DEF IInv
  <2>12. CASE Drop(r)
    BY <1>1, <2>10, <2>12 DEF Drop
  <2>13. QED
    BY <1>2, <2>1, <2>2, <2>3, <2>4, <2>5, <2>6, <2>7, <2>8, <2>9, <2>11, <2>12 DEF RollStep
<1>3. ASSUME NEW c \in CohortIds, CreateCohort(c) PROVE IInv'
  <2>1. cohort' = [cohort EXCEPT ![c] = "active"] /\ UNCHANGED <<pupil, row, work>>
    BY <1>3 DEF CreateCohort
  <2>2. CohortTypeOK'
    BY <1>0, <2>1 DEF CohortTypeOK, Existing
  <2>3. RollSound'
    BY <1>0, <2>1, RollStays DEF CohortTypeOK, Existing
  <2>4. WorkSound' /\ SoloSound'
    BY <2>1, ReadsStay
  <2>5. QED
    BY <2>2, <2>3, <2>4 DEF IInv
<1>4. ASSUME NEW c \in CohortIds, NEW who \in SUBSET Pupils, CreateBulk(c, who) PROVE IInv'
  <2>1. /\ cohort[c] \in Existing /\ cohort' = cohort
        /\ pupil' = [s \in Pupils |-> IF s \in who THEN "pending" ELSE pupil[s]]
        /\ \A s \in who : pupil[s] = "new"
        /\ Written({}, "left", c, who) /\ Overlap
    BY <1>4 DEF CreateBulk
  <2>2. WorkKept
    BY <2>1, OverlapWork
  <2>3. "left" \in Ended /\ "pending" \in HasUser /\ "new" \notin HasUser
    BY DEF Ended, HasUser, InOrg
  <2>4. \A k \in RowKeys : k[2] \in who => row[k] = "free"
    BY <1>0, <2>1, <2>3 DEF RollSound, RowsReferToWhatIs
  <2>5. \A k \in RowKeys : k[1] = c /\ k[2] \in who /\ row[k] = "active" => k \in {}
    BY <2>4
  <2>6. who # {} => cohort'[c] \in Existing /\ \A s \in who : pupil'[s] \in HasUser
    BY <2>1, <2>3
  <2>7. \A s \in Pupils : pupil[s] \in HasUser => pupil'[s] \in HasUser
    BY <2>1, <2>3
  <2>8. RollSound' /\ row' \in [RowKeys -> {"free", "active"} \union Ended]
    BY <2>1, <2>3, <2>5, <2>6, <2>7, WrittenSound
  <2>9. CohortTypeOK'
    BY <1>0, <2>1, <2>2, <2>3, <2>8 DEF CohortTypeOK
  <2>10. QED
    BY <2>2, <2>8, <2>9 DEF IInv
<1>5. ASSUME NEW s \in Pupils, FirstLogin(s) PROVE IInv'
  <2>1. /\ pupil[s] = "pending" /\ pupil' = [pupil EXCEPT ![s] = "active"]
        /\ UNCHANGED <<cohort, row, work>>
    BY <1>5 DEF FirstLogin
  <2>2. CohortTypeOK'
    BY <1>0, <2>1 DEF CohortTypeOK, HasUser, InOrg
  <2>3. RollSound'
    BY <1>0, <2>1, RollStays DEF CohortTypeOK, HasUser, InOrg
  <2>4. \A p \in Pupils : pupil'[p] \in InOrg <=> pupil[p] \in InOrg
    BY <1>0, <2>1 DEF CohortTypeOK, InOrg
  <2>5. WorkSound' /\ SoloSound'
    BY <2>1, <2>4, ReadsStay
  <2>6. QED
    BY <2>2, <2>3, <2>5 DEF IInv
<1>6. ASSUME NEW s \in Pupils, Subscribe(s) \/ Unsubscribe(s) PROVE IInv'
  <2>1. /\ Overlap /\ UNCHANGED <<cohort, row>> /\ pupil[s] \in {"out", "joined"}
        /\ \E x \in {"out", "joined"} : pupil' = [pupil EXCEPT ![s] = x]
    BY <1>6 DEF Subscribe, Unsubscribe
  <2>2. WorkKept
    BY <2>1, OverlapWork
  <2>3. CohortTypeOK'
    BY <1>0, <2>1, <2>2 DEF CohortTypeOK, HasUser, InOrg
  <2>4. RollSound'
    BY <1>0, <2>1, RollStays DEF CohortTypeOK, HasUser, InOrg
  <2>5. QED
    BY <2>2, <2>3, <2>4 DEF IInv
<1>7. ASSUME NEW s \in Pupils, NEW elsewhere \in BOOLEAN, DeleteUser(s, elsewhere) PROVE IInv'
  <2>1. /\ Overlap /\ cohort' = cohort
        /\ pupil' = [pupil EXCEPT ![s] = IF elsewhere THEN "out" ELSE "gone"]
        /\ IF elsewhere THEN row' = row
           ELSE row' = [k \in RowKeys |-> IF k[2] = s THEN "free" ELSE row[k]]
    BY <1>7 DEF DeleteUser
  <2>2. WorkKept
    BY <2>1, OverlapWork
  <2>3. CohortTypeOK'
    BY <1>0, <2>1, <2>2 DEF CohortTypeOK, HasUser, InOrg
  <2>4. CASE elsewhere
    <3>1. \A p \in Pupils : pupil[p] \in HasUser => pupil'[p] \in HasUser
      BY <1>0, <2>1, <2>4 DEF CohortTypeOK, HasUser, InOrg
    <3>2. QED
      BY <2>1, <2>2, <2>3, <2>4, <3>1, RollStays DEF IInv
  <2>5. CASE ~ elsewhere
    <3>1. /\ \A k \in RowKeys : row'[k] = IF k[2] = s THEN "free" ELSE row[k]
          /\ \A p \in Pupils \ {s} : pupil'[p] = pupil[p]
      BY <1>0, <2>1, <2>5 DEF CohortTypeOK
    <3>2. OneActiveRow'
      BY <1>0, <3>1 DEF RollSound, OneActiveRow
    <3>3. RowsReferToWhatIs'
      BY <1>0, <2>1, <3>1, KeyParts DEF RollSound, RowsReferToWhatIs
    <3>4. QED
      BY <2>2, <2>3, <3>2, <3>3 DEF IInv, RollSound
  <2>6. QED
    BY <2>4, <2>5
<1>8. CASE UNCHANGED rollVars
  <2>1. UNCHANGED <<cohort, pupil, row, work>>
    BY <1>8 DEF rollVars
  <2>2. WorkSound' /\ SoloSound'
    BY <2>1, ReadsStay
  <2>3. CohortTypeOK' /\ RollSound'
    BY <1>0, <2>1 DEF CohortTypeOK, RollSound, OneActiveRow, RowsReferToWhatIs
  <2>4. QED
    BY <2>2, <2>3 DEF IInv
<1>9. QED
  BY <1>2, <1>3, <1>4, <1>5, <1>6, <1>7, <1>8 DEF CohortNext

---------------------------------------------------------------------------
(* Theorems *)

(* IInv holds of every roll that requests in flight together can leave.    *)
THEOREM Invariance == CohortSpec => []IInv
BY InitInv, StepInv, PTL DEF CohortSpec

(* Cohorts, accounts, rows and what requests hold stay well-formed.        *)
THEOREM TypeCorrect == CohortSpec => []CohortTypeOK
BY Invariance, PTL DEF IInv

(* A student is in a cohort at most once, and the roll names only cohorts  *)
(* and accounts that are there (add_members, member_action, delete_cohort, *)
(* delete_user and the index and keys of cohort_members).                  *)
THEOREM RollIsSound == CohortSpec => []RollSound
BY Invariance, PTL DEF IInv

(* One step keeps the history of every row.                                *)
LEMMA StepKeepsHistory ==
  ASSUME IInv, [CohortNext]_rollVars, NEW k \in RowKeys
  PROVE  RowKept(k)
<1>0. CohortTypeOK /\ row[k] \in {"free", "active"} \union Ended
  BY DEF IInv, CohortTypeOK
<1>1. row' = row => RowKept(k)
  BY <1>0 DEF RowKept, Ended
<1>2. ASSUME NEW r \in RollReqs, CommitRows(r) PROVE RowKept(k)
  <2> DEFINE w == work[r]
  <2>1. /\ w.pc = "commit" /\ Written(w.rows, EndsAs(w.op), w.t, w.add)
        /\ \A l \in w.rows : row[l] # "free"
        /\ EndsAs(w.op) \in Ended
    BY <1>2 DEF CommitRows, Writable, EndsAs, Ended
  <2>2. /\ row'[k] = IF k \in NextKeys(w.t, w.add) THEN "active"
                     ELSE IF k \in w.rows THEN EndsAs(w.op) ELSE row[k]
        /\ k \in NextKeys(w.t, w.add) => row[k] = "free"
    BY <2>1 DEF Written, NextKeys
  <2>3. CASE k \in NextKeys(w.t, w.add)
    BY <2>2, <2>3 DEF RowKept
  <2>4. CASE k \notin NextKeys(w.t, w.add) /\ k \notin w.rows
    BY <1>0, <2>2, <2>4 DEF RowKept, Ended
  <2>5. CASE k \notin NextKeys(w.t, w.add) /\ k \in w.rows /\ row[k] = "active"
    BY <2>1, <2>2, <2>5 DEF RowKept, Ended
  <2>6. CASE k \notin NextKeys(w.t, w.add) /\ k \in w.rows /\ row[k] # "active"
    <3>1. ~ w.solo
      BY <2>6 DEF IInv, SoloSound, SoloOK
    <3>2. work'[r] # work[r]
      <4>1. NoWork.pc = "idle" /\ [w EXCEPT !.op = "changeAdd", !.pc = "open", !.rows = {}].pc = "open"
        BY <1>0 DEF NoWork, CohortTypeOK, Works
      <4>2. work'[r] \in {NoWork, [w EXCEPT !.op = "changeAdd", !.pc = "open", !.rows = {}]}
        BY <1>0, <1>2 DEF CommitRows, End, CohortTypeOK
      <4>3. QED
        BY <2>1, <4>1, <4>2
    <3>3. row[k] \in Ended /\ row'[k] \in Ended
      BY <1>0, <2>1, <2>2, <2>6
    <3>4. QED
      BY <2>1, <3>1, <3>2, <3>3 DEF RowKept
  <2>7. QED
    BY <2>3, <2>4, <2>5, <2>6
<1>3. ASSUME NEW c \in CohortIds, NEW who \in SUBSET Pupils, CreateBulk(c, who) PROVE RowKept(k)
  <2>1. /\ row'[k] = IF k \in NextKeys(c, who) THEN "active" ELSE row[k]
        /\ k \in NextKeys(c, who) => row[k] = "free"
    BY <1>3 DEF CreateBulk, Written, NextKeys
  <2>2. QED
    BY <1>0, <2>1 DEF RowKept, Ended
<1>4. ASSUME NEW s \in Pupils, NEW elsewhere \in BOOLEAN, DeleteUser(s, elsewhere) PROVE RowKept(k)
  <2>1. CASE elsewhere
    BY <1>1, <1>4, <2>1 DEF DeleteUser
  <2>2. CASE ~ elsewhere /\ k[2] = s
    BY <1>0, <1>4, <2>2 DEF DeleteUser, RowKept, CohortTypeOK
  <2>3. CASE ~ elsewhere /\ k[2] # s
    <3>1. row'[k] = row[k]
      BY <1>4, <2>3 DEF DeleteUser
    <3>2. QED
      BY <1>0, <3>1 DEF RowKept, Ended
  <2>4. QED
    BY <2>1, <2>2, <2>3
<1>5. ASSUME NEW r \in RollReqs, RollStep(r), ~ CommitRows(r) PROVE row' = row
  BY <1>5
  DEF RollStep, AskStatus, AskMembers, AskAdd, AskChange, CreateStudent, Open, ReadRows,
      ReadTarget, CommitStatus, Drop
<1>6. ASSUME NEW c \in CohortIds, CreateCohort(c) PROVE row' = row
  BY <1>6 DEF CreateCohort
<1>7. ASSUME NEW s \in Pupils, FirstLogin(s) \/ Subscribe(s) \/ Unsubscribe(s) PROVE row' = row
  BY <1>7 DEF FirstLogin, Subscribe, Unsubscribe
<1>8. CASE UNCHANGED rollVars
  BY <1>1, <1>8 DEF rollVars
<1>9. QED
  BY <1>1, <1>2, <1>3, <1>4, <1>5, <1>6, <1>7, <1>8 DEF CohortNext

(* Rows go only with the account, and an end that no other request         *)
(* overlapped is final (_end, delete_user).                                *)
THEOREM HistoryIsKept == CohortSpec => HistoryStays
<1>1. IInv /\ [CohortNext]_rollVars => [\A k \in RowKeys : RowKept(k)]_rollVars
  BY StepKeepsHistory
<1>2. QED
  BY Invariance, <1>1, PTL DEF CohortSpec, HistoryStays

(* What a request that overlaps no other leaves behind.                    *)
LEMMA SoloCommit ==
  ASSUME IInv, NEW r \in RollReqs, CommitRows(r), work[r].solo
  PROVE  Landed(work[r])
<1> DEFINE w == work[r]
           activeNext(c, s) == \E n \in 1..MaxRows : row'[<<c, s, n>>] = "active"
<1>1. /\ w \in Works /\ WorkOK(w) /\ SoloOK(r) /\ w.pc = "commit"
      /\ Room(w.t, w.add) /\ Refers(w.t, w.add)
      /\ w.op \in RollOps \union AddOps
  BY DEF IInv, CohortTypeOK, WorkSound, SoloSound, CommitRows
<1>2. /\ \A k \in RowKeys : row'[k] = IF k \in NextKeys(w.t, w.add) THEN "active"
                                      ELSE IF k \in w.rows THEN EndsAs(w.op) ELSE row[k]
      /\ \A k \in NextKeys(w.t, w.add) : k \in RowKeys /\ k[1] = w.t /\ k[2] \in w.add
      /\ EndsAs(w.op) # "active"
  BY DEF CommitRows, Written, NextKeys, EndsAs
<1>3. /\ w.who \in SUBSET Pupils /\ w.add \in SUBSET Pupils
      /\ w.t \in CohortIds /\ w.c \in CohortIds
  BY <1>1 DEF Works, WorkOK
<1>4. ASSUME NEW s \in w.add PROVE activeNext(w.t, s)
  <2>1. PICK n \in 1..MaxRows : <<w.t, s, n>> \in NextKeys(w.t, w.add)
    BY <1>1, <1>3, <1>4, RoomGivesKey
  <2>2. row'[<<w.t, s, n>>] = "active"
    BY <1>2, <2>1
  <2>3. QED
    BY <2>2
(* A row that is active next was so, and is not one to end, or is new. *)
<1>5. ASSUME NEW k \in RowKeys, row'[k] = "active"
      PROVE  \/ k[1] = w.t /\ k[2] \in w.add
             \/ row[k] = "active" /\ k \notin w.rows
  BY <1>2, <1>5
<1>6. ASSUME w.op \in RollOps \ {"change"}, NEW s \in w.who PROVE ~ activeNext(w.c, s)
  <2> SUFFICES ASSUME NEW n \in 1..MaxRows, row'[<<w.c, s, n>>] = "active" PROVE FALSE
    OBVIOUS
  <2> DEFINE k == <<w.c, s, n>>
  <2>1. k \in RowKeys /\ k[1] = w.c /\ k[2] = s
    BY <1>3, KeyParts
  <2>2. w.rows = ToEnd(w)
    BY <1>1, <1>6 DEF SoloOK
  <2>3. ~ (k[1] = w.t /\ k[2] \in w.add)
    <3>1. CASE w.op = "move"
      BY <1>1, <2>1, <3>1 DEF WorkOK
    <3>2. CASE w.op # "move"
      BY <1>1, <1>6, <3>2, OpKinds DEF WorkOK
    <3>3. QED
      BY <3>1, <3>2
  <2>4. row[k] = "active" /\ k \notin w.rows
    BY <1>5, <2>1, <2>3
  <2>5. k \in ToEnd(w)
    BY <1>6, <2>1, <2>4 DEF ToEnd
  <2>6. QED
    BY <2>2, <2>4, <2>5
<1>7. ASSUME w.op = "move", NEW s \in w.who, ActiveIn(w.c, s) PROVE activeNext(w.t, s)
  <2>1. w.rows = ToEnd(w) /\ w.add = ToMove(w)
    BY <1>1, <1>7, OpKinds DEF SoloOK
  <2>2. PICK n \in 1..MaxRows : row[<<w.c, s, n>>] = "active"
    BY <1>7 DEF ActiveIn
  <2>3. <<w.c, s, n>> \in ToEnd(w)
    <3>1. <<w.c, s, n>> \in RowKeys
      BY <1>3, KeyParts
    <3>2. QED
      BY <1>7, <2>2, <3>1 DEF ToEnd
  <2>4. CASE ~ ActiveIn(w.t, s)
    <3>1. s \in w.add
      BY <1>7, <2>1, <2>3, <2>4 DEF ToMove
    <3>2. QED
      BY <1>4, <3>1
  <2>5. CASE ActiveIn(w.t, s)
    <3>1. PICK m \in 1..MaxRows : row[<<w.t, s, m>>] = "active"
      BY <2>5 DEF ActiveIn
    <3>2. <<w.t, s, m>> \in RowKeys
      BY <1>3, KeyParts
    <3>3. <<w.t, s, m>> \notin w.rows
      BY <1>1, <1>7, <2>1 DEF ToEnd, WorkOK
    <3>4. row'[<<w.t, s, m>>] = "active"
      BY <1>2, <3>1, <3>2, <3>3
    <3>5. QED
      BY <3>4
  <2>6. QED
    BY <2>4, <2>5
<1>8. ASSUME w.op \in AddOps, NEW s \in w.who, pupil[s] \in InOrg PROVE activeNext(w.t, s)
  <2>1. w.add = ToAdd(w) /\ w.rows = {}
    BY <1>1, <1>8 DEF SoloOK, WorkOK
  <2>2. CASE ~ ActiveIn(w.t, s)
    <3>1. s \in w.add
      BY <1>8, <2>1, <2>2 DEF ToAdd
    <3>2. QED
      BY <1>4, <3>1
  <2>3. CASE ActiveIn(w.t, s)
    <3>1. PICK m \in 1..MaxRows : row[<<w.t, s, m>>] = "active"
      BY <2>3 DEF ActiveIn
    <3>2. <<w.t, s, m>> \in RowKeys
      BY <1>3, KeyParts
    <3>3. row'[<<w.t, s, m>>] = "active"
      BY <1>2, <2>1, <3>1, <3>2
    <3>4. QED
      BY <3>3
  <2>4. QED
    BY <2>2, <2>3
<1>9. ASSUME w.op = "changeAdd", NEW s \in w.who, NEW c \in CohortIds, activeNext(c, s)
      PROVE  c = w.t
  <2>1. PICK n \in 1..MaxRows : row'[<<c, s, n>>] = "active"
    BY <1>9
  <2> DEFINE k == <<c, s, n>>
  <2>2. k \in RowKeys /\ k[1] = c /\ k[2] = s
    BY <1>3, KeyParts
  <2>3. QED
    BY <1>1, <1>5, <1>9, <2>1, <2>2 DEF SoloOK
<1>10. QED
  BY <1>6, <1>7, <1>8, <1>9 DEF Landed

(* A request that overlaps no other does to the roll what it says          *)
(* (member_action, change_student_cohort, add_members, graduate).          *)
THEOREM SoloRequestsLand == CohortSpec => SoloLands
<1>1. IInv => [\A r \in RollReqs : CommitRows(r) /\ work[r].solo => Landed(work[r])]_rollVars
  BY SoloCommit
<1>2. QED
  BY Invariance, <1>1, PTL DEF SoloLands

---------------------------------------------------------------------------
(* The auth service as a whole                                             *)

LEMMA AuthPartsStep ==
  ASSUME [AuthNext]_authVars
  PROVE  /\ [CodeNext]_codeVars /\ [CohortNext]_rollVars /\ [OpenNext]_openVars
         /\ [PeopleNext]_peopleVars /\ [SessionNext]_sessionVars /\ [WayNext]_wayVars
BY DEF AuthNext, authVars

(* A request of one part leaves alone what the others keep, so what is     *)
(* proved of codes, cohorts, opening, people, sessions and ways in, each  *)
(* by itself, holds of the composed specification.                         *)
THEOREM AuthIsItsParts ==
  AuthSpec => CodeSpec /\ CohortSpec /\ OpenSpec /\ PeopleSpec /\ SessionSpec /\ WaySpec
<1>1. AuthInit => CodeInit /\ CohortInit /\ OpenInit /\ PeopleInit /\ SessionInit /\ WayInit
  BY DEF AuthInit
<1>2. QED
  BY <1>1, AuthPartsStep, PTL
     DEF AuthSpec, CodeSpec, CohortSpec, OpenSpec, PeopleSpec, SessionSpec, WaySpec

(* Everything the auth service keeps has its type, in all its parts.       *)
THEOREM AuthTyped == AuthSpec => []AuthTypeOK
BY AuthIsItsParts, CodesTyped, TypeCorrect, OpeningTyped, PeopleTyped, SessionsTyped, WaysTyped, PTL
   DEF AuthTypeOK

=============================================================================
