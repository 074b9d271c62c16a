----------------------------- MODULE OrgOpening -----------------------------
(***************************************************************************)
(* How one organisation is opened: its owner's address is verified, which  *)
(* makes the owner a member and starts the trial of the default plan       *)
(* (_complete_otp_verification in auth.py), and from then on whoever       *)
(* manages its billing starts a trial or asks to pay for a plan            *)
(* (routes/platform_subscriptions.py, platform_subscription_service.py).   *)
(*                                                                         *)
(* Neither org_memberships nor org_platform_subscriptions has a unique     *)
(* index: every row is looked for and then inserted. A verification runs   *)
(* on a thread, in one transaction, and two may be in flight: verify_otp() *)
(* reads the code and deletes it later, so that a double click is accepted *)
(* twice. The first one to write verified locks the owner's row until it   *)
(* commits; one that finds it written, by a login code, locks nothing. The *)
(* billing routes never await before their commit, so that one process     *)
(* handles them one after the other, beside the verifications.             *)
(*                                                                         *)
(* Asking to pay commits its row and then always fails: the service        *)
(* imports the module paystack and not the client in it, which has no      *)
(* initialize_payment. Nothing is ever paid, and a row stays a trial.      *)
(***************************************************************************)
EXTENDS Integers, Sequences

CONSTANTS
  Verifiers,     \* requests to verify the owner's address
  Plans,
  DefaultPlan    \* the cheapest plan with trial days, if there is one

ASSUME PlansAssumption == DefaultPlan \in Plans /\ "none" \notin Plans

VARIABLES
  offered,   \* there is a plan with trial days; nothing in the service writes plans
  verified,  \* UserModel.verified of the owner
  opened,    \* history: a verification has made the owner a member
  twice,     \* history: two verifications looked for rows side by side, one without a lock
  seats,     \* memberships with the owner's role
  subs,      \* the plans of the organisation's subscriptions, by row
  verifier,  \* where each verification is and what it has read
  asking     \* the billing request in flight

openVars == <<offered, verified, opened, twice, seats, subs, verifier, asking>>

CodeKinds == {"signup", "login"}
Steps     == {"idle", "loaded", "flushed", "seated", "decided"}
AtRest    == [at |-> "idle", purpose |-> "login", locks |-> FALSE,
              adds |-> FALSE, starts |-> FALSE]
NoAsking  == [plan |-> "none", row |-> 0]

OpenInit ==
  /\ offered \in BOOLEAN
  /\ verified = FALSE /\ opened = FALSE /\ twice = FALSE
  /\ seats = 0 /\ subs = <<>>
  /\ verifier = [v \in Verifiers |-> AtRest]
  /\ asking = NoAsking

---------------------------------------------------------------------------
(* verify-otp: _complete_otp_verification()                                *)

(* The account is read without a lock. A code of either kind may be left   *)
(* when the other one has verified the address.                            *)
VerifyLoads(v, purpose) ==
  /\ verifier[v].at = "idle"
  /\ verifier' = [verifier EXCEPT ![v] =
       [AtRest EXCEPT !.at = "loaded", !.purpose = purpose, !.locks = ~ verified]]
  /\ UNCHANGED <<offered, verified, opened, twice, seats, subs, asking>>

InWork(v)   == verifier[v].at \in {"flushed", "seated", "decided"}
HoldsRow(v) == InWork(v) /\ verifier[v].locks
Opens(v)    == InWork(v) /\ verifier[v].purpose = "signup"

(* A faulty variant, for mutants: verified is written at the commit only.  *)
NobodyWaits(v) == TRUE

(* The owner's row is free, or locked by the UPDATE of another one. *)
UserFree(v) == \A w \in Verifiers : ~ HoldsRow(w)

(* Two look side by side, although not both of them lock the owner's row. *)
SideBySide(v) ==
  /\ verifier[v].purpose = "signup"
  /\ \E w \in Verifiers : Opens(w) /\ ~ (verifier[v].locks /\ verifier[w].locks)

(* session.flush() writes verified before anything is looked for, unless   *)
(* the address was verified when it was loaded.                            *)
VerifyFlushes(v) ==
  /\ verifier[v].at = "loaded"
  /\ verifier[v].locks => UserFree(v)
  /\ verifier' = [verifier EXCEPT ![v].at = IF verifier[v].purpose = "signup"
                                            THEN "flushed" ELSE "decided"]
  /\ twice' = (twice \/ SideBySide(v))
  /\ UNCHANGED <<offered, verified, opened, seats, subs, asking>>

(* auto_add_on_verification(): a row with the owner's role is made, or the *)
(* row of an owner who left and was invited again is given that role. An   *)
(* owner who left may also be an active member as something else.          *)
VerifySeats(v, adds) ==
  /\ verifier[v].at = "flushed"
  /\ IF adds THEN seats = 0 ELSE seats > 0 \/ opened
  /\ verifier' = [verifier EXCEPT ![v].at = "seated", ![v].adds = adds]
  /\ UNCHANGED <<offered, verified, opened, twice, seats, subs, asking>>

(* start_trial() refuses when there is a subscription; that is swallowed.  *)
VerifyDecides(v) ==
  /\ verifier[v].at = "seated"
  /\ verifier' = [verifier EXCEPT ![v].at = "decided", ![v].starts = offered /\ subs = <<>>]
  /\ UNCHANGED <<offered, verified, opened, twice, seats, subs, asking>>

VerifyCommits(v) ==
  /\ verifier[v].at = "decided"
  /\ verified' = TRUE
  /\ seats'  = IF verifier[v].adds THEN seats + 1 ELSE seats
  /\ opened' = (opened \/ verifier[v].adds)
  /\ subs'   = IF verifier[v].starts THEN Append(subs, DefaultPlan) ELSE subs
  /\ verifier' = [verifier EXCEPT ![v] = AtRest]
  /\ UNCHANGED <<offered, twice, asking>>

(* An error, or the process stops: the transaction is rolled back. *)
VerifyFails(v) ==
  /\ verifier[v].at # "idle"
  /\ verifier' = [verifier EXCEPT ![v] = AtRest]
  /\ UNCHANGED <<offered, verified, opened, twice, seats, subs, asking>>

---------------------------------------------------------------------------
(* What the organisation does with its plan. require_permission() lets in  *)
(* members only, who are there once it has been opened.                    *)

(* start_trial(): refused when there is a subscription. *)
TrialReads(plan) ==
  /\ opened /\ asking = NoAsking
  /\ subs = <<>>
  /\ asking' = [plan |-> plan, row |-> 0]
  /\ UNCHANGED <<offered, verified, opened, twice, seats, subs, verifier>>

(* initiate_payment(): a renewal or upgrade of any row that is there. *)
PayReads(plan) ==
  /\ opened /\ asking = NoAsking
  /\ \E row \in IF subs = <<>> THEN {0} ELSE DOMAIN subs : asking' = [plan |-> plan, row |-> row]
  /\ UNCHANGED <<offered, verified, opened, twice, seats, subs, verifier>>

(* The commit of either. Of an existing row plan and reference change,     *)
(* paid or not; its limits and the end of its trial stay.                  *)
AskingCommits ==
  /\ asking # NoAsking
  /\ subs' = IF asking.row = 0 THEN Append(subs, asking.plan)
             ELSE [subs EXCEPT ![asking.row] = asking.plan]
  /\ asking' = NoAsking
  /\ UNCHANGED <<offered, verified, opened, twice, seats, verifier>>

AskingFails ==
  /\ asking # NoAsking
  /\ asking' = NoAsking
  /\ UNCHANGED <<offered, verified, opened, twice, seats, subs, verifier>>

(* unsubscribe_from_org(): the owner too joined by themselves. *)
OwnerLeaves ==
  /\ seats > 0
  /\ seats' = seats - 1
  /\ UNCHANGED <<offered, verified, opened, twice, subs, verifier, asking>>

OpenNext ==
  \/ \E v \in Verifiers, purpose \in CodeKinds : VerifyLoads(v, purpose)
  \/ \E v \in Verifiers, adds \in BOOLEAN : VerifySeats(v, adds)
  \/ \E v \in Verifiers :
       VerifyFlushes(v) \/ VerifyDecides(v) \/ VerifyCommits(v) \/ VerifyFails(v)
  \/ \E plan \in Plans : TrialReads(plan) \/ PayReads(plan)
  \/ AskingCommits \/ AskingFails \/ OwnerLeaves

OpenSpec == OpenInit /\ [][OpenNext]_openVars

---------------------------------------------------------------------------
(* What holds *)

OpenTypeOK ==
  /\ offered \in BOOLEAN /\ verified \in BOOLEAN /\ opened \in BOOLEAN /\ twice \in BOOLEAN
  /\ seats \in Nat /\ subs \in Seq(Plans)
  /\ verifier \in [Verifiers -> [at : Steps, purpose : CodeKinds, locks : BOOLEAN,
                               adds : BOOLEAN, starts : BOOLEAN]]
  /\ asking \in [plan : Plans \union {"none"}, row : Nat]

(* "One active subscription per org at a time"                             *)
(* (platform_subscription_db.py:59) and one seat for its owner, whatever   *)
(* verifications overlap or are cut off, and however often payments fail,  *)
(* although every row is looked for and then inserted                      *)
(* (_complete_otp_verification, start_trial, initiate_payment): only two   *)
(* verifications side by side, one of which found the address verified and *)
(* locked nothing (auth.py:546), may make two. And an organisation that    *)
(* was opened while a trial was offered has a subscription.                *)
OpenedOnce ==
  /\ ~ twice => seats <= 1 /\ Len(subs) <= 1
  /\ opened /\ offered => subs # <<>>

=============================================================================
