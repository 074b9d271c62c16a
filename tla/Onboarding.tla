----------------------------- MODULE Onboarding -----------------------------
(***************************************************************************)
(* Accounts and the memberships of one organisation: signing up, verifying *)
(* the e-mail address, being created by staff, activating, subscribing,    *)
(* changing roles, leaving (routes auth.py, users.py and student.py with   *)
(* membership_service.py, subscription_service.py, role_service.py and     *)
(* user_management_service.py).                                            *)
(*                                                                         *)
(* Each action is one transaction; what is checked in one and used in a    *)
(* later one is kept in between. Teacher stands for all staff roles below  *)
(* admin. Codes are those that were sent; OtpCodes has their life.         *)
(***************************************************************************)
EXTENDS Integers

CONSTANTS
  People,
  MaxMemberships   \* bound: rows of one person

ASSUME MembershipsAssumption == MaxMemberships \in Nat
ASSUME PeopleAssumption == "none" \notin People

VARIABLES
  account,    \* "none", "unverified" or "verified"
  firstLogin, \* UserModel.is_first_login
  owner,      \* OrganizationModel.owner_user_id, "none" before there is one
  member,     \* per person the rows of org_memberships: [id, role, status, self]
  codes,      \* per person the purposes of the codes that were sent
  entered,    \* per person the purpose of a code accepted, "none" otherwise
  joining     \* subscribe_to_org() has found no membership

peopleVars == <<account, firstLogin, owner, member, codes, entered, joining>>

Purposes   == {"signup", "login"}
StaffRoles == {"admin", "teacher"}
Roles      == StaffRoles \union {"super_admin", "student"}
RowIds     == 1..MaxMemberships
Rows       == [id : RowIds, role : Roles, status : {"active", "pending"}, self : BOOLEAN]

PeopleInit ==
  /\ account = [p \in People |-> "none"]
  /\ firstLogin = [p \in People |-> FALSE]
  /\ owner = "none"
  /\ member = [p \in People |-> {}]
  /\ codes = [p \in People |-> {}]
  /\ entered = [p \in People |-> "none"]
  /\ joining = {}

Row(i, role, status, self) == [id |-> i, role |-> role, status |-> status, self |-> self]
FreshId(p, i)   == i \in RowIds /\ \A m \in member[p] : m.id # i
Insert(p, i, m) == member' = [member EXCEPT ![p] = @ \union {m}]
Replace(p, m, n) == member' = [member EXCEPT ![p] = (@ \ {m}) \union {n}]
ActiveAs(p, role) == \E m \in member[p] : m.status = "active" /\ m.role = role
IsActive(p) == \E m \in member[p] : m.status = "active"

---------------------------------------------------------------------------
(* Signing up and codes *)

(* The account and the organisation in one transaction, then a code; the   *)
(* code may fail to be generated or sent. is_first_login is left at its    *)
(* default.                                                                *)
SignUp(p, sent) ==
  /\ account[p] = "none" /\ owner = "none"
  /\ account' = [account EXCEPT ![p] = "unverified"]
  /\ firstLogin' = [firstLogin EXCEPT ![p] = TRUE]
  /\ owner' = p
  /\ codes' = IF sent THEN [codes EXCEPT ![p] = {"signup"}] ELSE codes
  /\ UNCHANGED <<member, entered, joining>>

StudentSignUp(p, sent) ==
  /\ account[p] = "none"
  /\ account' = [account EXCEPT ![p] = "unverified"]
  /\ codes' = IF sent THEN [codes EXCEPT ![p] = {"signup"}] ELSE codes
  /\ UNCHANGED <<firstLogin, owner, member, entered, joining>>

(* request-otp: a sign-up code only for an unverified owner. *)
AskCode(p, purpose) ==
  /\ account[p] # "none"
  /\ purpose = "signup" => account[p] = "unverified" /\ owner = p
  /\ codes' = [codes EXCEPT ![p] = @ \union {purpose}]
  /\ UNCHANGED <<account, firstLogin, owner, member, entered, joining>>

(* Signing in with an unverified account sends a code of its own; staff    *)
(* who have not activated are refused.                                     *)
LoginUnverified(p) ==
  /\ account[p] = "unverified"
  /\ \A m \in member[p] : m.status = "pending" => m.role = "student"
  /\ codes' = [codes EXCEPT ![p] = @ \union {"login"}]
  /\ UNCHANGED <<account, firstLogin, owner, member, entered, joining>>

(* A code that is not used goes. *)
CodeGoes(p, purpose) ==
  /\ purpose \in codes[p]
  /\ codes' = [codes EXCEPT ![p] = @ \ {purpose}]
  /\ UNCHANGED <<account, firstLogin, owner, member, entered, joining>>

(* verify-otp: Redis has accepted the code and forgotten it. *)
EnterCode(p, purpose) ==
  /\ purpose \in codes[p] /\ entered[p] = "none"
  /\ codes' = [codes EXCEPT ![p] = @ \ {purpose}]
  /\ entered' = [entered EXCEPT ![p] = purpose]
  /\ UNCHANGED <<account, firstLogin, owner, member, joining>>

(* Whom verifying makes the organisation's owner. *)
TakesOver(p) == account[p] = "unverified" /\ entered[p] = "signup" /\ owner = p

(* auto_add_on_verification() *)
AutoAdd(p, role, self) ==
  \/ /\ member[p] = {}
     /\ \E i \in RowIds : FreshId(p, i) /\ Insert(p, i, Row(i, role, "active", self))
  \/ \E m \in member[p] :
       IF m.status = "active" THEN UNCHANGED member
       ELSE Replace(p, m, [m EXCEPT !.status = "active", !.role = role])

(* _complete_otp_verification(); the account may have gone. *)
Verified(p) ==
  /\ entered[p] # "none"
  /\ account' = [account EXCEPT ![p] = IF @ = "none" THEN @ ELSE "verified"]
  /\ IF TakesOver(p) THEN AutoAdd(p, "super_admin", TRUE) ELSE UNCHANGED member
  /\ entered' = [entered EXCEPT ![p] = "none"]
  /\ UNCHANGED <<firstLogin, owner, codes, joining>>

---------------------------------------------------------------------------
(* Created by staff *)

(* CREATION_PERMISSIONS *)
MayCreate(a, role) ==
  \/ ActiveAs(a, "super_admin") /\ role \in StaffRoles \union {"student"}
  \/ ActiveAs(a, "admin") /\ role \in {"teacher", "student"}

CreateNew(a, p, role) ==
  /\ account[p] = "none" /\ MayCreate(a, role)
  /\ account' = [account EXCEPT ![p] = "unverified"]
  /\ firstLogin' = [firstLogin EXCEPT ![p] = TRUE]
  /\ \E i \in RowIds : FreshId(p, i) /\ Insert(p, i, Row(i, role, "pending", FALSE))
  /\ UNCHANGED <<owner, codes, entered, joining>>

(* Staff whose address has an account are members at once. *)
CreateExisting(a, p, role) ==
  /\ account[p] # "none" /\ role \in StaffRoles /\ MayCreate(a, role)
  /\ member[p] = {}
  /\ \E i \in RowIds : FreshId(p, i) /\ Insert(p, i, Row(i, role, "active", FALSE))
  /\ UNCHANGED <<account, firstLogin, owner, codes, entered, joining>>

SetUp(p) ==
  /\ account' = [account EXCEPT ![p] = "verified"]
  /\ firstLogin' = [firstLogin EXCEPT ![p] = FALSE]
  /\ UNCHANGED <<owner, codes, entered, joining>>

(* The activation link, which goes to accounts that staff created. *)
ActivateStaff(p) ==
  /\ firstLogin[p] /\ account[p] # "none" /\ p # owner
  /\ \E m \in member[p] : m.role # "student"
  /\ \/ \E m \in member[p] : m.status = "pending" /\ Replace(p, m, [m EXCEPT !.status = "active"])
     \/ (\A m \in member[p] : m.status # "pending") /\ UNCHANGED member
  /\ SetUp(p)

(* The older set-up with a temporary password leaves the membership as it  *)
(* is.                                                                     *)
StaffFirstLogin(p) ==
  /\ firstLogin[p] /\ account[p] # "none"
  /\ \E m \in member[p] : m.role # "student"
  /\ UNCHANGED member
  /\ SetUp(p)

StudentFirstLogin(p) ==
  /\ firstLogin[p] /\ account[p] # "none"
  /\ \E m \in member[p] : m.status = "pending" /\ m.role = "student"
  /\ AutoAdd(p, "student", FALSE)
  /\ SetUp(p)

---------------------------------------------------------------------------
(* Joining, leaving, roles *)

(* With a token: that of an account without memberships, or one that was   *)
(* set up. A double click checks twice before it inserts.                  *)
SubscribeCheck(p) ==
  /\ account[p] = "verified" /\ owner # "none" /\ ~ IsActive(p)
  /\ member[p] = {} \/ ~ firstLogin[p]
  /\ joining' = joining \union {p}
  /\ UNCHANGED <<account, firstLogin, owner, member, codes, entered>>

SubscribeInsert(p, more) ==
  /\ p \in joining /\ account[p] # "none"
  /\ \E i \in RowIds : FreshId(p, i) /\ Insert(p, i, Row(i, "student", "active", TRUE))
  /\ joining' = IF more THEN joining ELSE joining \ {p}
  /\ UNCHANGED <<account, firstLogin, owner, codes, entered>>

(* Whoever joined by themselves, the owner too. *)
LeaveOrg(p) ==
  /\ \E m \in member[p] :
       /\ m.status = "active" /\ m.self
       /\ member' = [member EXCEPT ![p] = @ \ {m}]
  /\ UNCHANGED <<account, firstLogin, owner, codes, entered, joining>>

(* Staff are managed by the owner and by admins. *)
Manages(a) == ActiveAs(a, "super_admin") \/ ActiveAs(a, "admin")

(* A faulty variant, for mutants: any role but that of students is given.  *)
MayAssignAny(a, m, role) ==
  /\ m.role \notin {"student", "super_admin"} /\ role # "student"
  /\ "admin" \in {m.role, role} => ActiveAs(a, "super_admin")

(* assign() *)
MayAssign(a, m, role) ==
  /\ m.role \notin {"student", "super_admin"} /\ role \in StaffRoles
  /\ "admin" \in {m.role, role} => ActiveAs(a, "super_admin")

AssignRole(a, p, role) ==
  /\ a # p /\ Manages(a)
  /\ \E m \in member[p] : MayAssign(a, m, role) /\ Replace(p, m, [m EXCEPT !.role = role])
  /\ UNCHANGED <<account, firstLogin, owner, codes, entered, joining>>

(* delete_user(). An account with other memberships stays; the owner's     *)
(* cannot go, the organisation refers to it.                               *)
DeleteAccount(a, p, elsewhere) ==
  /\ a # p /\ Manages(a)
  /\ \E m \in member[p] :
       /\ m.role # "super_admin"
       /\ (firstLogin[p] /\ m.status = "pending") \/ ActiveAs(a, "super_admin")
       /\ member' = [member EXCEPT ![p] = @ \ {m}]
       /\ IF member[p] # {m} \/ elsewhere THEN UNCHANGED <<account, firstLogin, codes, joining>>
          ELSE /\ owner # p
               /\ account' = [account EXCEPT ![p] = "none"]
               /\ firstLogin' = [firstLogin EXCEPT ![p] = FALSE]
               /\ codes' = [codes EXCEPT ![p] = {}] /\ joining' = joining \ {p}
  /\ UNCHANGED <<owner, entered>>

(* The process stops: what was checked or accepted is not followed up. *)
PeopleRestart ==
  /\ joining # {} \/ \E p \in People : entered[p] # "none"
  /\ joining' = {} /\ entered' = [p \in People |-> "none"]
  /\ UNCHANGED <<account, firstLogin, owner, member, codes>>

PeopleNext ==
  \/ \E p \in People, sent \in BOOLEAN : SignUp(p, sent) \/ StudentSignUp(p, sent)
  \/ \E p \in People, purpose \in Purposes :
       AskCode(p, purpose) \/ CodeGoes(p, purpose) \/ EnterCode(p, purpose)
  \/ \E p \in People : LoginUnverified(p) \/ Verified(p)
  \/ \E a, p \in People, role \in Roles :
       CreateNew(a, p, role) \/ CreateExisting(a, p, role) \/ AssignRole(a, p, role)
  \/ \E p \in People : ActivateStaff(p) \/ StaffFirstLogin(p) \/ StudentFirstLogin(p)
  \/ \E p \in People : SubscribeCheck(p) \/ LeaveOrg(p)
  \/ \E p \in People, more \in BOOLEAN : SubscribeInsert(p, more)
  \/ \E a, p \in People, elsewhere \in BOOLEAN : DeleteAccount(a, p, elsewhere)
  \/ PeopleRestart

PeopleSpec == PeopleInit /\ [][PeopleNext]_peopleVars

---------------------------------------------------------------------------
(* What holds *)

PeopleTypeOK ==
  /\ account \in [People -> {"none", "unverified", "verified"}]
  /\ firstLogin \in [People -> BOOLEAN]
  /\ owner \in People \union {"none"}
  /\ member \in [People -> SUBSET Rows]
  /\ codes \in [People -> SUBSET Purposes]
  /\ entered \in [People -> Purposes \union {"none"}]
  /\ joining \subseteq People

(* Only the organisation's owner ever rules it, and a membership is        *)
(* somebody's: through codes, creation by staff, role changes, leaving and *)
(* coming back as something else (role_service.assign: "The owner's role   *)
(* can't be changed or given").                                            *)
OnlyOwnerRules == \A p \in People :
  /\ ActiveAs(p, "super_admin") => p = owner /\ account[p] = "verified"
  /\ member[p] # {} => account[p] # "none"

(* auth.py:124, on an account that signs in verified and without any       *)
(* membership: "Verified student who hasn't joined an organisation yet".   *)
ProvisionalIsStudent == \A p \in People :
  account[p] = "verified" /\ member[p] = {} => p # owner

=============================================================================
