----------------------------- MODULE Credentials -----------------------------
(***************************************************************************)
(* How one member of an organisation gets in and back in: staff by links   *)
(* sent to their address, students by an access code and the answer to a   *)
(* question (routes/users.py, token_activation.py and                      *)
(* user_management_service.py).                                            *)
(*                                                                         *)
(* A request reads the account, and writes the columns that differ when it *)
(* commits: nothing is locked. met says that somebody else has committed   *)
(* in between. A temporary answer is one that staff gave; any other is the *)
(* student's own. Left out: what is sent where (a link that was made may   *)
(* be used), whose an address is already (Accounts), other organisations.  *)
(***************************************************************************)
EXTENDS Integers, FiniteSets

CONSTANTS
  WayReqs,    \* requests in flight
  Boxes,      \* addresses
  MaxLinks    \* bound: links that have not expired

ASSUME LinksAssumption == MaxLinks \in Nat

VARIABLES
  way,        \* the account and its membership
  links,      \* activation and reset links: [type, claim]
  wayWork     \* what each request is about to write

wayVars == <<way, links, wayWork>>

(* secret: password or answer. must: security_reset_required. *)
Created(kind, box) ==
  [kind |-> kind, box |-> box, first |-> TRUE, active |-> FALSE,
   secret |-> IF kind = "staff" THEN "temporary" ELSE "none",
   asked |-> FALSE, must |-> FALSE]

NoWayWork == [op |-> "none", box |-> "none", secret |-> "keep", must |-> "keep", claim |-> "none",
              met |-> FALSE]

Link(type, box) == [type |-> type, claim |-> box]

(* create_staff_user(), create_student() *)
WayInit ==
  /\ \E box \in Boxes :
       \/ /\ way = Created("staff", box)
          /\ links \in SUBSET {Link("activate", box)}
       \/ way = Created("student", box) /\ links = {}
  /\ wayWork = [r \in WayReqs |-> NoWayWork]

Reads(r, w) ==
  /\ wayWork[r].op = "none"
  /\ wayWork' = [wayWork EXCEPT ![r] = w]
  /\ UNCHANGED <<way, links>>

(* What r has written, and that the others were overtaken. *)
Writes(r, new) ==
  /\ way' = new
  /\ wayWork' = [q \in WayReqs |->
       IF q = r \/ wayWork[q].op = "none" THEN NoWayWork ELSE [wayWork[q] EXCEPT !.met = TRUE]]

Mints(type, box) ==
  /\ links' = links \union {Link(type, box)}
  /\ Cardinality(links') <= MaxLinks

---------------------------------------------------------------------------
(* Staff *)

Waiting == way.kind = "staff" /\ ~ way.active

(* update_pending_staff_email() with another address; with the same it     *)
(* resends.                                                                 *)
AskBox(r, box) ==
  /\ Waiting /\ way.first /\ box # way.box
  /\ Reads(r, [NoWayWork EXCEPT !.op = "box", !.box = box])

CommitBox(r) ==
  /\ wayWork[r].op = "box"
  /\ Mints("activate", wayWork[r].box)
  /\ Writes(r, [way EXCEPT !.box = wayWork[r].box])

(* admin_update_user() sends nothing. *)
AskCorrection(r, box) ==
  /\ box # way.box
  /\ Reads(r, [NoWayWork EXCEPT !.op = "correct", !.box = box])

CommitCorrection(r) ==
  /\ wayWork[r].op = "correct"
  /\ Writes(r, [way EXCEPT !.box = wayWork[r].box])
  /\ UNCHANGED links

SendsActivation ==
  /\ Mints("activate", way.box)
  /\ UNCHANGED <<way, wayWork>>

ResendActivation      == Waiting /\ way.first /\ SendsActivation
AdminResendActivation == Waiting /\ way.first /\ SendsActivation

(* Faulty variant, for a mutant: the link's address is not compared. *)
FollowsAny(l) == l.type = "activate"

Follows(l) == l.type = "activate" /\ l.claim = way.box

(* activate_staff_account() *)
AskActivate(r, l) ==
  /\ way.kind = "staff" /\ way.first /\ l \in links /\ Follows(l)
  /\ Reads(r, [NoWayWork EXCEPT !.op = "activate", !.claim = l.claim])

CommitActivate(r) ==
  /\ wayWork[r].op = "activate"
  /\ Writes(r, [way EXCEPT !.first = FALSE, !.active = TRUE, !.secret = "own"])
  /\ UNCHANGED links

(* staff_first_login_setup() leaves the membership pending. *)
AskSetup(r) ==
  /\ way.kind = "staff" /\ way.first
  /\ Reads(r, [NoWayWork EXCEPT !.op = "setup"])

CommitSetup(r) ==
  /\ wayWork[r].op = "setup"
  /\ Writes(r, [way EXCEPT !.first = FALSE, !.secret = "own"])
  /\ UNCHANGED links

(* forgot_password(): students have no password, and whoever has not set   *)
(* one activates the account first.                                        *)
Forgot ==
  /\ way.kind = "staff"
  /\ \/ way.first /\ Waiting /\ SendsActivation
     \/ ~ way.first /\ Mints("reset", way.box) /\ UNCHANGED <<way, wayWork>>

ResetPassword(l) ==
  /\ l \in links /\ l.type = "reset"
  /\ Writes("nobody", [way EXCEPT !.secret = "own"])
  /\ UNCHANGED links

Expires(l) ==
  /\ l \in links
  /\ links' = links \ {l}
  /\ UNCHANGED <<way, wayWork>>

---------------------------------------------------------------------------
(* Students *)

Enrolled == way.kind = "student" /\ way.active

(* student_first_login_setup() *)
AskFirstLogin(r) ==
  /\ way.kind = "student" /\ way.first /\ ~ way.active
  /\ Reads(r, [NoWayWork EXCEPT !.op = "start", !.secret = "own"])

(* admin_reset_student_credentials() *)
AskGive(r) ==
  /\ Enrolled /\ ~ way.first
  /\ Reads(r, [NoWayWork EXCEPT !.op = "give", !.secret = "temporary",
                 !.must = IF way.must THEN "keep" ELSE "set"])

(* A new answer, or the temporary one again. *)
NewAnswers == {"own"} \union ({"temporary"} \intersect {way.secret})

(* change_student_security_qa(): who is to change it need not repeat it. *)
MayChangeTo(answer) == way.must => answer # way.secret \/ answer = "own"

AskNewAnswer(r, answer) ==
  /\ Enrolled /\ answer \in NewAnswers /\ MayChangeTo(answer)
  /\ Reads(r, [NoWayWork EXCEPT !.op = "change", !.secret = answer,
                 !.must = IF way.must THEN "clear" ELSE "keep"])

(* student_reset_password() leaves security_reset_required as it is. *)
AskRecover(r, answer) ==
  /\ Enrolled /\ way.secret # "none" /\ answer \in NewAnswers
  /\ Reads(r, [NoWayWork EXCEPT !.op = "recover", !.secret = answer])

CommitAnswer(r) ==
  LET w == wayWork[r] IN
  /\ w.op \in {"start", "give", "change", "recover"}
  /\ Writes(r, [way EXCEPT
       !.secret = w.secret, !.asked = TRUE,
       !.must   = IF w.must = "keep" THEN @ ELSE w.must = "set",
       !.first  = @ /\ w.op # "start",
       !.active = @ \/ w.op = "start"])
  /\ UNCHANGED links

DropWay(r) ==
  /\ wayWork[r].op # "none"
  /\ wayWork' = [wayWork EXCEPT ![r] = NoWayWork]
  /\ UNCHANGED <<way, links>>

---------------------------------------------------------------------------
(* get_student_security_question(), student_login(),                       *)
(* student_forgot_password_verify()                                        *)

ShowsQuestion == Enrolled /\ ~ way.first /\ way.asked
SignsIn       == Enrolled /\ ~ way.first /\ way.secret # "none"
ShowsToReset  == Enrolled /\ ~ way.first /\ way.asked /\ way.secret # "none"

WayNext ==
  \/ \E r \in WayReqs :
       \/ \E box \in Boxes : AskBox(r, box) \/ AskCorrection(r, box)
       \/ \E l \in links : AskActivate(r, l)
       \/ \E answer \in {"own", "temporary"} : AskNewAnswer(r, answer) \/ AskRecover(r, answer)
       \/ AskSetup(r) \/ AskFirstLogin(r) \/ AskGive(r)
       \/ CommitBox(r) \/ CommitCorrection(r) \/ CommitActivate(r) \/ CommitSetup(r)
       \/ CommitAnswer(r) \/ DropWay(r)
  \/ ResendActivation \/ AdminResendActivation \/ Forgot
  \/ \E l \in links : ResetPassword(l) \/ Expires(l)

WaySpec == WayInit /\ [][WayNext]_wayVars

---------------------------------------------------------------------------
(* What holds *)

WayTypeOK ==
  /\ way \in [kind : {"staff", "student"}, box : Boxes, first : BOOLEAN, active : BOOLEAN,
              secret : {"none", "temporary", "own"}, asked : BOOLEAN, must : BOOLEAN]
  /\ links \subseteq [type : {"activate", "reset"}, claim : Boxes]
  /\ wayWork \in [WayReqs ->
       [op : {"none", "box", "correct", "activate", "setup", "start", "give", "change", "recover"},
        box : Boxes \union {"none"}, secret : {"keep", "temporary", "own"},
        must : {"keep", "set", "clear"}, claim : Boxes \union {"none"}, met : BOOLEAN]]

(* user_db.py: "they must pick a new security question and answer when     *)
(* they next sign in."                                                     *)
TemporaryMustGo == way.kind = "student" /\ way.secret = "temporary" => way.must

Wrote(r) == wayWork[r].op # "none" /\ wayWork'[r].op = "none" /\ way' # way

(* An account is activated by a link that was sent to the address it has   *)
(* ("Reject links issued for a previous email address", users.py), a       *)
(* temporary answer never becomes a lasting one, and who can sign in with  *)
(* an answer is shown its question. The first two may only fail for a      *)
(* request that was overtaken.                                             *)
CredentialsKept == [][
  /\ \A r \in WayReqs : Wrote(r) /\ wayWork[r].op = "activate" =>
       wayWork[r].claim = way'.box \/ wayWork[r].met
  /\ TemporaryMustGo => TemporaryMustGo' \/ \E r \in WayReqs : Wrote(r) /\ wayWork[r].met
  /\ SignsIn' => ShowsQuestion' /\ ShowsToReset']_wayVars

=============================================================================
