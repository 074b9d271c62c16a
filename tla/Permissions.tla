---------------------------- MODULE Permissions ----------------------------
(***************************************************************************)
(* Permissions and roles of one organisation (permissions.py, the same in  *)
(* both services; role_service.py with routes/roles.py).                   *)
(*                                                                         *)
(* A request reads who asks, the role and the membership, decides, and     *)
(* writes the columns that differ when it commits: nothing is locked. met  *)
(* says that somebody else has committed in between. What a role grants is *)
(* one of a few named payloads; names and descriptions are left out, and   *)
(* who is staff does not change here (Onboarding).                         *)
(***************************************************************************)
EXTENDS Integers, FiniteSets
Sets == INSTANCE FiniteSetsExt

CONSTANTS
  RoleReqs,     \* requests in flight
  Assistants,   \* staff other than the owner
  CustomRoles,
  RolesInPlay,  \* the built-in roles that are edited and given
  Payload       \* named permissions a request gives: name -> permission -> reach

---------------------------------------------------------------------------
(* The catalogue. A permission reaches what is one's own, what one is      *)
(* assigned to, or all; 0 is none. "all" only, unless it is Scoped.        *)

OwnReach == 1
AssignedReach == 2
AllReach == 3

Scoped ==
  {"subjects.view", "questions.view", "questions.manage", "banks_topics.manage",
   "exams.view", "exams.edit", "exams.submit", "exams.approve", "exams.assign",
   "exams.release_results", "exams.change_attempts",
   "results.view", "results.export", "results.mark",
   "violations.view", "violations.review", "cohorts.view"}

CandidateOnly == {"exam_access.view", "exam_access.pay"}

Permissions == Scoped \union CandidateOnly \union
  {"subjects.manage", "subjects.assign_staff", "banks.assign_staff",
   "exams.create", "exams.delete", "exams.override_status", "exams.audit_log",
   "attempts.reset", "candidates.view", "candidates.manage", "cohorts.manage",
   "staff.view", "staff.manage", "roles.manage", "settings.manage",
   "billing.view", "billing.pay_exam_access", "billing.manage"}

Implied(p) ==
  CASE p \in {"subjects.manage", "subjects.assign_staff", "questions.view"} -> {"subjects.view"}
    [] p \in {"questions.manage", "banks_topics.manage"} -> {"questions.view"}
    [] p = "banks.assign_staff" -> {"subjects.view", "staff.view"}
    [] p \in {"exams.edit", "exams.submit", "exams.approve", "exams.assign", "exams.delete",
              "exams.override_status", "exams.audit_log", "exams.release_results",
              "exams.change_attempts"} -> {"exams.view"}
    [] p \in {"results.export", "results.mark", "attempts.reset"} -> {"results.view"}
    [] p = "violations.review" -> {"violations.view"}
    [] p = "candidates.manage" -> {"candidates.view"}
    [] p = "cohorts.manage" -> {"cohorts.view"}
    [] p \in {"staff.manage", "roles.manage"} -> {"staff.view"}
    [] p \in {"billing.pay_exam_access", "billing.manage"} -> {"billing.view"}
    [] p = "exam_access.pay" -> {"exam_access.view"}
    [] OTHER -> {}

(* Whoever creates exams sees and edits their own. *)
ImpliedOwn(p) == IF p = "exams.create" THEN {"exams.view", "exams.edit"} ELSE {}

Granted(S, reach) == [p \in Permissions |-> IF p \in S THEN reach ELSE 0]

(* DEFAULT_ROLE_GRANTS *)
DefaultGrants ==
  [super_admin |-> Granted(Permissions, AllReach),
   admin |-> Granted(Permissions \ (CandidateOnly \union {"billing.manage", "roles.manage"}), AllReach),
   teacher |-> [Granted({"subjects.view", "questions.view", "questions.manage",
                         "banks_topics.manage", "exams.view", "exams.edit", "exams.assign",
                         "results.view", "results.export", "results.mark",
                         "violations.review", "cohorts.view"}, AssignedReach)
                EXCEPT !["exams.create"] = AllReach, !["exams.submit"] = OwnReach],
   supervisor |-> Granted({"exams.view", "exams.approve", "violations.view", "cohorts.view"},
                          AssignedReach),
   staff |-> Granted({}, 0),
   student |-> Granted(CandidateOnly, AllReach)]

ImpliedBy    == [p \in Permissions |-> {q \in Permissions : p \in Implied(q)}]
ImpliedOwnBy == [p \in Permissions |-> {q \in Permissions : p \in ImpliedOwn(q)}]

(* One pass of expand(): every permission at the widest reach implied.     *)
Pass(g) == [p \in Permissions |->
  Sets!Max({g[p]} \union {g[q] : q \in ImpliedBy[p]}
                  \union {OwnReach : q \in {x \in ImpliedOwnBy[p] : g[x] > 0}})]

(* expand(): until nothing changes. *)
Expand(g) ==
  LET After[n \in 0..Cardinality(Permissions)] == IF n = 0 THEN g ELSE Pass(After[n - 1])
  IN  After[Cardinality(Permissions)]

SystemRoles == {"admin", "teacher", "supervisor", "staff"}
Fixed       == {"super_admin", "student"}

PayloadNames == DOMAIN Payload
GrantNames   == PayloadNames \union SystemRoles \union Fixed

ASSUME RolesAssumption == RolesInPlay \subseteq SystemRoles /\ "staff" \in RolesInPlay
ASSUME RoleNamesAssumption ==
  CustomRoles \intersect (SystemRoles \union {"none", "keep"}) = {} /\ "none" \notin PayloadNames
ASSUME PayloadAssumption == Payload \in [PayloadNames -> [Permissions -> 0..AllReach]]

(* What each grants, what it implies included. *)
Effective == [n \in GrantNames |->
  Expand(IF n \in PayloadNames THEN Payload[n] ELSE DefaultGrants[n])]

(* What the first grants the second grants too, as far or further. *)
Within ==
  LET Below(n) == {m \in GrantNames : \A p \in Permissions : Effective[m][p] <= Effective[n][p]}
  IN  UNION {Below(n) \X {n} : n \in GrantNames}

(* _validate(): known permissions at a reach they have, none that only     *)
(* candidates use.                                                         *)
WellFormed == {n \in PayloadNames : \A p \in Permissions :
  /\ p \in CandidateOnly => Payload[n][p] = 0
  /\ p \notin Scoped => Payload[n][p] \in {0, AllReach}}

---------------------------------------------------------------------------
VARIABLES
  edited,    \* the row of each built-in role: "norow", "default" or a payload
  custom,    \* what each custom role grants, "none" without a row
  holds,     \* membership of each assistant: role and role_id
  roleWork   \* what each request has read and is about to write

roleVars == <<edited, custom, holds, roleWork>>

Owner == "owner"
NoRoleWork == [op |-> "none", owner |-> FALSE, key |-> "none", what |-> "keep",
               whom |-> "none", base |-> "keep", id |-> "keep", met |-> FALSE]

RoleInit ==
  /\ edited = [k \in RolesInPlay |-> "norow"]
  /\ custom = [c \in CustomRoles |-> "none"]
  /\ holds \in [Assistants -> [base : RolesInPlay, id : {"none"}]]
  /\ roleWork = [r \in RoleReqs |-> NoRoleWork]

(* resolve_grants() *)
Resolve(m) ==
  IF m.id # "none" THEN custom[m.id]
  ELSE IF edited[m.base] \in PayloadNames THEN edited[m.base] ELSE m.base

(* get_user_context(), require_permission() *)
Askers == {Owner} \union Assistants
Holds(by) == IF by = Owner THEN "super_admin" ELSE Resolve(holds[by])
Can(by, p) == Effective[Holds(by)][p] > 0

(* Faulty variant, for a mutant: the reach is not compared.                *)
GivesAnyReach(by, n) ==
  \A p \in Permissions : Effective[n][p] > 0 => Effective[Holds(by)][p] > 0

(* "You can't give permissions you don't have." The owner has them all.   *)
Gives(by, n) == <<n, Holds(by)>> \in Within

TakesOn(r, w) ==
  /\ roleWork[r].op = "none"
  /\ roleWork' = [roleWork EXCEPT ![r] = w]
  /\ UNCHANGED <<edited, custom, holds>>

AskCreateRole(r, by, c, n) ==
  /\ Can(by, "roles.manage") /\ custom[c] = "none"
  /\ n \in WellFormed /\ Gives(by, n)
  /\ TakesOn(r, [NoRoleWork EXCEPT !.op = "create", !.owner = by = Owner, !.key = c, !.what = n])

(* The first change of a built-in role adds its row. *)
AskUpdateRole(r, by, k, n) ==
  LET now == IF k \in RolesInPlay THEN edited[k] ELSE custom[k] IN
  /\ Can(by, "roles.manage") /\ now # "none"
  /\ n \in WellFormed /\ Gives(by, n)
  /\ TakesOn(r, [NoRoleWork EXCEPT !.op = IF now = "norow" THEN "add" ELSE "update",
                 !.owner = by = Owner, !.key = k, !.what = IF n = now THEN "keep" ELSE n])

(* Without regard to what whoever asks may do. *)
AskResetRole(r, by, k) ==
  /\ Can(by, "roles.manage") /\ edited[k] \in PayloadNames
  /\ TakesOn(r, [NoRoleWork EXCEPT !.op = "reset", !.owner = by = Owner, !.key = k, !.what = "default"])

InUse(c) == \E s \in Assistants : holds[s].id = c

AskDeleteRole(r, by, c) ==
  /\ Can(by, "roles.manage") /\ custom[c] # "none" /\ ~ InUse(c)
  /\ TakesOn(r, [NoRoleWork EXCEPT !.op = "delete", !.owner = by = Owner, !.key = c])

Differs(new, old) == IF new = old THEN "keep" ELSE new

(* Faulty variant, for a mutant: the role's key is stored as it is.        *)
KeyAsBase(k) == k

(* The members of a custom role are staff. *)
BaseOf(k) == IF k \in SystemRoles THEN k ELSE "staff"

(* assign() *)
AskAssignRole(r, by, s, k) ==
  LET base == BaseOf(k)
      id   == IF k \in SystemRoles THEN "none" ELSE k
  IN
  /\ Can(by, "staff.manage") /\ s # by
  /\ k \in CustomRoles => custom[k] # "none"
  /\ "admin" \in {holds[s].base, k} => by = Owner
  /\ Gives(by, Resolve([base |-> base, id |-> id]))
  /\ TakesOn(r, [NoRoleWork EXCEPT !.op = "assign", !.owner = by = Owner, !.whom = s,
                 !.base = Differs(base, holds[s].base), !.id = Differs(id, holds[s].id)])

---------------------------------------------------------------------------
(* Commits. Keys are unique, a role somebody holds cannot go, and a row    *)
(* that has gone cannot be changed or given; else the request fails.       *)

Met(r, gone) == [q \in RoleReqs |->
  IF q = r \/ roleWork[q].op = "none" \/ {roleWork[q].key, roleWork[q].id} \intersect gone # {}
    THEN NoRoleWork
    ELSE [roleWork[q] EXCEPT !.met = TRUE]]

WrittenOver(new, old) == IF new = "keep" THEN old ELSE new

CommitBuiltIn(r) ==
  LET w == roleWork[r] IN
  /\ w.op \in {"add", "update", "reset"} /\ w.key \in RolesInPlay
  /\ w.op = "add" => edited[w.key] = "norow"
  /\ edited' = [edited EXCEPT ![w.key] = WrittenOver(w.what, @)]
  /\ roleWork' = Met(r, {})
  /\ UNCHANGED <<custom, holds>>

CommitCustom(r) ==
  LET w == roleWork[r] IN
  /\ w.key \in CustomRoles
  /\ \/ /\ w.op = "create" /\ custom[w.key] = "none"
        /\ custom' = [custom EXCEPT ![w.key] = w.what]
     \/ /\ w.op = "update" /\ custom[w.key] # "none"
        /\ custom' = [custom EXCEPT ![w.key] = WrittenOver(w.what, @)]
     \/ /\ w.op = "delete" /\ ~ InUse(w.key)
        /\ custom' = [custom EXCEPT ![w.key] = "none"]
  /\ roleWork' = Met(r, IF w.op = "delete" THEN {w.key} ELSE {})
  /\ UNCHANGED <<edited, holds>>

CommitRoleOf(r) ==
  LET w == roleWork[r] IN
  /\ w.op = "assign"
  /\ holds' = [holds EXCEPT ![w.whom] = [base |-> WrittenOver(w.base, @.base), id |-> WrittenOver(w.id, @.id)]]
  /\ roleWork' = Met(r, {})
  /\ UNCHANGED <<edited, custom>>

DropRole(r) ==
  /\ roleWork[r].op # "none"
  /\ roleWork' = [roleWork EXCEPT ![r] = NoRoleWork]
  /\ UNCHANGED <<edited, custom, holds>>

RoleStep(r) ==
  \/ \E by \in Askers, n \in PayloadNames :
       \/ \E c \in CustomRoles : AskCreateRole(r, by, c, n)
       \/ \E k \in RolesInPlay \union CustomRoles : AskUpdateRole(r, by, k, n)
  \/ \E by \in Askers :
       \/ \E k \in RolesInPlay : AskResetRole(r, by, k)
       \/ \E c \in CustomRoles : AskDeleteRole(r, by, c)
       \/ \E s \in Assistants, k \in RolesInPlay \union CustomRoles : AskAssignRole(r, by, s, k)
  \/ CommitBuiltIn(r) \/ CommitCustom(r) \/ CommitRoleOf(r) \/ DropRole(r)

RoleNext == \E r \in RoleReqs : RoleStep(r)

RoleSpec == RoleInit /\ [][RoleNext]_roleVars

---------------------------------------------------------------------------
(* What holds *)

RoleTypeOK ==
  /\ edited \in [RolesInPlay -> PayloadNames \union {"norow", "default"}]
  /\ custom \in [CustomRoles -> PayloadNames \union {"none"}]
  /\ holds \in [Assistants -> [base : RolesInPlay, id : CustomRoles \union {"none"}]]
  /\ roleWork \in [RoleReqs ->
       [op : {"none", "create", "add", "update", "reset", "delete", "assign"}, owner : BOOLEAN,
        key : RolesInPlay \union CustomRoles \union {"none"},
        what : PayloadNames \union {"keep", "default"}, whom : Assistants \union {"none"},
        base : RolesInPlay \union {"keep"}, id : CustomRoles \union {"none", "keep"}, met : BOOLEAN]]

(* expand() adds what is implied and nothing else. *)
ExpandIsLeast == \A n \in PayloadNames : LET e == Effective[n] IN
  /\ Pass(e) = e
  /\ \A p \in Permissions : e[p] > Payload[n][p] =>
       \/ \E q \in ImpliedBy[p] : e[q] = e[p]
       \/ e[p] = OwnReach /\ \E q \in ImpliedOwnBy[p] : e[q] > 0

(* org_memberships.role_id: "role is then staff". *)
WholeRoles == \A s \in Assistants : holds[s].id # "none" => holds[s].base = "staff"

RoleSettled(r) == roleWork[r].op # "none" /\ roleWork'[r].op = "none"

(* Nobody but the owner makes anybody able to do what no assistant could,  *)
(* through any sequence of roles made, edited, assigned and deleted        *)
(* (role_service.py: "nothing beyond the actor"); resetting a built-in     *)
(* role is the exception. And a membership names one role. Both may only   *)
(* fail for a request that others overtook.                                *)
RolesKept == [][
  /\ ExpandIsLeast
  /\ WholeRoles => WholeRoles' \/ \E r \in RoleReqs : RoleSettled(r) /\ roleWork[r].met
  /\ \A r \in RoleReqs :
       RoleSettled(r) /\ ~ roleWork[r].owner /\ ~ roleWork[r].met /\ roleWork[r].op # "reset" =>
         \A s \in Assistants : \E b \in Assistants : <<Resolve(holds[s])', Resolve(holds[b])>> \in Within]_roleVars

=============================================================================
