------------------------------ MODULE OtpCodes ------------------------------
(***************************************************************************)
(* One-time codes of one e-mail address and purpose (otp_service.py and    *)
(* its callers). Two Redis keys: the code with its count of wrong guesses, *)
(* and the count of codes asked for in a window. Every await is a call to  *)
(* Redis of its own, so requests interleave between any two of them, and a *)
(* restart of the service may drop the requests in flight there.           *)
(*                                                                         *)
(* Time is two marks in a code's life: young is within                     *)
(* OTP_REUSE_THRESHOLD_SECONDS, old is after it; then the key expires.     *)
(* A code is the number it was generated as; guessing a number that was    *)
(* never generated stands for a wrong guess.                               *)
(***************************************************************************)
EXTENDS Integers

CONSTANTS
  Clients,      \* the requests in flight
  Nil,          \* no value
  MaxAttempts,  \* MAX_ATTEMPTS
  MaxRequests,  \* MAX_REQUESTS
  MaxCodes,     \* bound: codes generated
  MaxCount      \* bound: how far the count of one window goes

ASSUME CodesAssumption ==
  /\ MaxAttempts \in Nat \ {0} /\ MaxRequests \in Nat \ {0}
  /\ MaxCodes \in Nat /\ MaxCount \in Nat
ASSUME NilAssumption == Nil \notin Int /\ Nil \notin [code : Nat, wrong : Nat, age : {"young", "old"}]

VARIABLES
  code,      \* the key otp:purpose:address
  count,     \* the key otp_rl:purpose:address, Nil when there is none
  timed,     \* count has a time to live
  issued,    \* codes generated
  call,      \* per request: the Redis call it makes next
  seen,      \* per request: the code it has read or generated
  granted,   \* history: codes granted in the window of count
  refunded,  \* history: counts given back in it
  cut,       \* history: a restart came between INCR and EXPIRE
  spent      \* history: codes accepted while no other request was in flight

codeVars == <<code, count, timed, issued, call, seen, granted, refunded, cut, spent>>
limit    == <<count, timed, granted, refunded>>

Ages   == {"young", "old"}
Issued == 1..issued
Guess  == 0..issued    \* 0 was never generated
Codes  == [code : Nat, wrong : Nat, age : Ages]
NewCode(n) == [code |-> n, wrong |-> 0, age |-> "young"]
Calls  == {"idle", "askTtl", "askIncr", "askExpire", "askSet", "send",
           "undoDel", "undoGet", "undoDecr", "missTtl", "missSet", "lockDel", "hitDel"}

CodeInit ==
  /\ code = Nil /\ count = Nil /\ timed = FALSE /\ issued = 0
  /\ call = [c \in Clients |-> "idle"] /\ seen = [c \in Clients |-> Nil]
  /\ granted = 0 /\ refunded = 0 /\ cut = FALSE /\ spent = {}

Goto(c, next) == call' = [call EXCEPT ![c] = next]
Keep(c, x)    == seen' = [seen EXCEPT ![c] = x]
Done(c)       == Goto(c, "idle") /\ Keep(c, Nil)
Idle(c)       == call[c] = "idle"

---------------------------------------------------------------------------
(* request_otp() *)

(* GET of the code. *)
Ask(c) ==
  /\ Idle(c)
  /\ Goto(c, IF code = Nil THEN "askIncr" ELSE "askTtl")
  /\ UNCHANGED <<code, limit, issued, seen, cut, spent>>

(* TTL of the code: one that is young is not replaced. One that has gone   *)
(* since it was read has a TTL of -2 and counts as old.                    *)
AskTtl(c) ==
  /\ call[c] = "askTtl"
  /\ IF code # Nil /\ code.age = "young" THEN Done(c) ELSE Goto(c, "askIncr") /\ UNCHANGED seen
  /\ UNCHANGED <<code, limit, issued, cut, spent>>

Counted == IF count = Nil THEN 1 ELSE count + 1

(* Faulty variant, for a mutant: one code too many.                        *)
OverLimitByOne(n) == n > MaxRequests + 1

OverLimit(n)     == n > MaxRequests
FirstInWindow(n) == n = 1

(* INCR of the count, _check_rate_limit(): a code is generated unless the  *)
(* count is over MAX_REQUESTS.                                             *)
AskIncr(c) ==
  /\ call[c] = "askIncr"
  /\ Counted <= MaxCount /\ issued < MaxCodes
  /\ count' = Counted
  /\ IF OverLimit(Counted)
     THEN Done(c) /\ UNCHANGED <<issued, granted>>
     ELSE /\ Goto(c, IF FirstInWindow(Counted) THEN "askExpire" ELSE "askSet")
          /\ issued' = issued + 1 /\ Keep(c, NewCode(issued + 1))
          /\ granted' = granted + 1
  /\ UNCHANGED <<code, timed, refunded, cut, spent>>

(* EXPIRE of the count, which has no effect on a key that is gone. *)
AskExpire(c) ==
  /\ call[c] = "askExpire"
  /\ timed' = (count # Nil)
  /\ Goto(c, "askSet")
  /\ UNCHANGED <<code, count, issued, seen, granted, refunded, cut, spent>>

(* SET of the new code. *)
AskSet(c) ==
  /\ call[c] = "askSet"
  /\ code' = seen[c]
  /\ Goto(c, "send")
  /\ UNCHANGED <<limit, issued, seen, cut, spent>>

(* The e-mail is sent; signup and login also give up here when it fails. *)
Sent(c) ==
  /\ call[c] = "send"
  /\ Done(c)
  /\ UNCHANGED <<code, limit, issued, cut, spent>>

(* The e-mail of the route request-otp fails or takes too long. *)
NotSent(c) ==
  /\ call[c] = "send"
  /\ Goto(c, "undoDel")
  /\ UNCHANGED <<code, limit, issued, seen, cut, spent>>

---------------------------------------------------------------------------
(* invalidate_otp() *)

UndoDel(c) ==
  /\ call[c] = "undoDel"
  /\ code' = Nil
  /\ Goto(c, "undoGet")
  /\ UNCHANGED <<limit, issued, seen, cut, spent>>

UndoGet(c) ==
  /\ call[c] = "undoGet"
  /\ IF count # Nil /\ count > 0 THEN Goto(c, "undoDecr") /\ UNCHANGED seen ELSE Done(c)
  /\ UNCHANGED <<code, limit, issued, cut, spent>>

(* DECR, of a key that may have expired since it was read. *)
UndoDecr(c) ==
  /\ call[c] = "undoDecr"
  /\ count' = (IF count = Nil THEN -1 ELSE count - 1)
  /\ refunded' = refunded + 1
  /\ Done(c)
  /\ UNCHANGED <<code, timed, issued, granted, cut, spent>>

---------------------------------------------------------------------------
(* verify_otp() *)

(* GET of the code, and what the guess is compared with. *)
Verify(c, guess) ==
  /\ Idle(c)
  /\ code # Nil
  /\ Keep(c, code)
  /\ Goto(c, CASE code.wrong >= MaxAttempts -> "lockDel"
               [] code.wrong < MaxAttempts /\ guess # code.code -> "missTtl"
               [] OTHER -> "hitDel")
  /\ UNCHANGED <<code, limit, issued, cut, spent>>

Locked(c) ==
  /\ call[c] = "lockDel"
  /\ code' = Nil
  /\ Done(c)
  /\ UNCHANGED <<limit, issued, cut, spent>>

(* TTL of the code.                                                        *)
MissTtl(c) ==
  /\ call[c] = "missTtl"
  /\ code # Nil
  /\ Goto(c, "missSet")
  /\ Keep(c, [seen[c] EXCEPT !.wrong = @ + 1, !.age = code.age])
  /\ UNCHANGED <<code, limit, issued, cut, spent>>

(* TTL is -2 for a code that has gone, 0 in its last half second: SET      *)
(* fails with it and the guess is not counted.                             *)
MissTooLate(c) ==
  /\ call[c] = "missTtl"
  /\ code # Nil => code.age = "old"
  /\ Done(c)
  /\ UNCHANGED <<code, limit, issued, cut, spent>>

(* SET of what was read, with one more wrong guess: whatever the key holds *)
(* by now.                                                                 *)
MissSet(c) ==
  /\ call[c] = "missSet"
  /\ code' = seen[c]
  /\ Done(c)
  /\ UNCHANGED <<limit, issued, cut, spent>>

Alone(c) == \A d \in Clients \ {c} : Idle(d)

SpentBy(c) == IF Alone(c) THEN spent \union {seen[c].code} ELSE spent

(* A faulty variant, for mutants: the code is accepted and not deleted.    *)
HitKeepsCode(c) ==
  /\ call[c] = "hitDel"
  /\ spent' = SpentBy(c)
  /\ Done(c)
  /\ UNCHANGED <<code, limit, issued, cut>>

(* DELETE of the code, and True for the caller. *)
Hit(c) ==
  /\ call[c] = "hitDel"
  /\ code' = Nil
  /\ spent' = SpentBy(c)
  /\ Done(c)
  /\ UNCHANGED <<limit, issued, cut>>

---------------------------------------------------------------------------
(* Redis's clock, and the service's process *)

Ripen ==
  /\ code # Nil /\ code.age = "young"
  /\ code' = [code EXCEPT !.age = "old"]
  /\ UNCHANGED <<limit, issued, call, seen, cut, spent>>

Expire ==
  /\ code # Nil /\ code.age = "old"
  /\ code' = Nil
  /\ UNCHANGED <<limit, issued, call, seen, cut, spent>>

(* A new window begins. *)
CountExpires ==
  /\ count # Nil /\ timed
  /\ count' = Nil /\ timed' = FALSE
  /\ granted' = 0 /\ refunded' = 0
  /\ UNCHANGED <<code, issued, call, seen, cut, spent>>

(* What is in flight is dropped; Redis keeps its keys. *)
Restart ==
  /\ \E c \in Clients : ~ Idle(c)
  /\ cut' = (cut \/ \E c \in Clients : call[c] = "askExpire")
  /\ call' = [c \in Clients |-> "idle"] /\ seen' = [c \in Clients |-> Nil]
  /\ UNCHANGED <<code, limit, issued, spent>>

CodeStep(c) ==
  \/ Ask(c) \/ AskTtl(c) \/ AskIncr(c) \/ AskExpire(c) \/ AskSet(c)
  \/ Sent(c) \/ NotSent(c) \/ UndoDel(c) \/ UndoGet(c) \/ UndoDecr(c)
  \/ \E guess \in Guess : Verify(c, guess)
  \/ Locked(c) \/ MissTtl(c) \/ MissTooLate(c) \/ MissSet(c) \/ Hit(c)

CodeNext == (\E c \in Clients : CodeStep(c)) \/ Ripen \/ Expire \/ CountExpires \/ Restart

CodeSpec == CodeInit /\ [][CodeNext]_codeVars

---------------------------------------------------------------------------
(* What holds *)

CodeTypeOK ==
  /\ code \in Codes \union {Nil}
  /\ count \in Int \union {Nil} /\ timed \in BOOLEAN
  /\ issued \in Nat
  /\ call \in [Clients -> Calls]
  /\ seen \in [Clients -> Codes \union {Nil}]
  /\ granted \in Nat /\ refunded \in Nat /\ cut \in BOOLEAN /\ spent \in SUBSET Nat

(* No window grants more codes than MAX_REQUESTS and what was given back   *)
(* in it, whatever the requests, refunds, restarts and the end of the      *)
(* window do to the count in between (_check_rate_limit, invalidate_otp).  *)
CodeBudget == granted <= MaxRequests + refunded

(* A count that keeps anybody waiting goes away by itself, unless the      *)
(* process stopped between INCR and EXPIRE (_check_rate_limit).            *)
CountGoesAway ==
  count # Nil /\ count > 0 /\ ~ timed => cut \/ \E c \in Clients : call[c] = "askExpire"

(* The limit on codes holds back what it should and for no longer.         *)
CodeLimitKept == CodeBudget /\ CountGoesAway

(* A code that was accepted while nothing else was in flight is not        *)
(* brought back, and nobody holds a copy that would (verify_otp).          *)
SpentStaysSpent == code # Nil => code.code \notin spent

=============================================================================
